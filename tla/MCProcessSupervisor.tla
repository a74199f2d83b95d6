------------------------- MODULE MCProcessSupervisor -------------------------
EXTENDS ProcessSupervisor, TLC

Symmetry == Permutations(Clients) \cup Permutations(Engines)

(* Nothing depends on the history but these two questions about it. *)
View == <<muVars, stateVars, autoRecoveryEnabled, cmdCancel, threadVars,
          engine, waiter, serverLock, boots, NoLapse, lapses = {}>>
=============================================================================
