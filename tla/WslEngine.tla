------------------------------ MODULE WslEngine ------------------------------
(***************************************************************************)
(* The engine on a Windows host (executeWSL and stopWSL of                 *)
(* pkg/supervisor/wsl_windows.go under StartNode, StopNode and GetStatus). *)
(* The manager owns a wrapper, wsl.exe; the engine proper is a process     *)
(* inside a Linux distribution, which wrapper and manager do not take      *)
(* along when they end, and which is known by pgrep alone: a probe, a      *)
(* wsl.exe or a pgrep that fails is taken for an engine that is not there. *)
(***************************************************************************)
EXTENDS Naturals, FiniteSets

CONSTANTS
    Caller,       \* goroutines that serve requests
    Guest,        \* engine processes inside the distribution
    NoGuest, NoCaller,
    MaxExits      \* bound: ends of the manager

VARIABLES
    hostMu, quitMu,   \* holders of dc.mu and dc.stopMu
    flags,            \* isRunning, isStopping, cmd
    call,             \* where each goroutine is
    guest,            \* each engine process
    wrapper,          \* engines whose wsl.exe exists
    reaper,           \* the goroutine that waits for each wsl.exe
    index,            \* height in index.dat; 0: there is none
    stateDb,          \* height of the state in statedb; 0: there is none
    script,           \* the setup script at its seeding of index.dat
    exits,
    synced,           \* history: index.dat has been beyond the genesis block
    mishaps           \* history: what went wrong, and which steps met

vars == <<hostMu, quitMu, flags, call, guest, wrapper, reaper,
          index, stateDb, script, exits, synced, mishaps>>
chainVars == <<index, stateDb, script, synced>>
processVars == <<guest, wrapper, reaper>>
lockVars == <<hostMu, quitMu>>
-----------------------------------------------------------------------------
Flags == [running : BOOLEAN, stopping : BOOLEAN, cmd : Guest \cup {NoGuest}]
Steps == {"idle", "start", "prepare", "wipe", "recover", "spawn", "stop", "begin", "signal",
          "poll", "join", "finish", "clear", "reconcile", "mutate"}

Init ==
    /\ hostMu = NoCaller /\ quitMu = NoCaller
    /\ flags = [running |-> FALSE, stopping |-> FALSE, cmd |-> NoGuest]
    /\ call = [c \in Caller |-> "idle"]
    /\ guest = [g \in Guest |-> "down"]
    /\ wrapper = {} /\ reaper = [g \in Guest |-> "none"]
    /\ index \in 0..1 /\ stateDb = 0 /\ script = "idle"
    /\ exits = 0 /\ synced = FALSE /\ mishaps = {}

Alive == {g \in Guest : guest[g] # "down"}

At(c, pc) == call[c] = pc
Goto(c, pc) == call' = [call EXCEPT ![c] = pc]
Return(c) == Goto(c, "idle")

(* Somebody still works on an engine that the flags no longer show.        *)
Overlaps(c) ==
    \/ \E b \in Caller \ {c} : call[b] \in {"signal", "poll", "join", "finish", "clear",
                                               "reconcile", "mutate"}
    \/ \E g \in Guest : reaper[g] # "none"

(* The wrapper or the manager ends before the engine, StopNode kills it    *)
(* after 60 s or loses sight of it, or a start cannot read index.dat.      *)
(* Bounds: mishaps of one of these kinds in a behaviour; a start beside a  *)
(* live engine comes after a mishap that hid the engine from the flags,    *)
(* and no request and no other mishap after it.                            *)
Mishap == {"orphan", "killed", "lost", "unread"}
Unseen == "unseen" \in mishaps
MayHappen(kind) == mishaps \cap Mishap \subseteq {kind} /\ ~Unseen
MayBeUnseen == mishaps \subseteq {"orphan", "lost"}
Happens(kind) == MayHappen(kind) /\ mishaps' = mishaps \cup {kind}

(* pgrep inside the distribution. *)
Pgrep == Alive # {}
-----------------------------------------------------------------------------
Request(c, pc) ==
    /\ At(c, "idle") /\ ~Unseen
    /\ Goto(c, pc)
    /\ UNCHANGED <<lockVars, flags, processVars, chainVars, exits, mishaps>>

(* "node is already running"; "Detected active Sirius Core engine already  *)
(* running in WSL2"; or on to executeWSL, unless a check before it fails.  *)
(* Mutant: only the flag is looked at.                                     *)
AdmittedByFlag == FALSE
EngineDetected == Pgrep

StartRefused(c) ==
    /\ At(c, "start") /\ hostMu = NoCaller
    /\ flags.running
    /\ Return(c)
    /\ UNCHANGED <<lockVars, flags, processVars, chainVars, exits, mishaps>>

StartNode(c) ==
    /\ At(c, "start") /\ hostMu = NoCaller
    /\ ~flags.running
    /\ IF EngineDetected
       THEN /\ flags' = [flags EXCEPT !.running = TRUE]
            /\ Return(c)
            /\ UNCHANGED <<hostMu, mishaps>>
       ELSE /\ Goto(c, "prepare") /\ hostMu' = c
            /\ mishaps' = IF Overlaps(c) THEN mishaps \cup {"overlap"} ELSE mishaps
            /\ UNCHANGED flags
    /\ UNCHANGED <<quitMu, processVars, chainVars, exits>>

(* The subsystem is not ready, or wsl.exe cannot be run. *)
StartFails(c) ==
    /\ call[c] \in {"prepare", "spawn"}
    /\ hostMu' = NoCaller
    /\ Return(c)
    /\ UNCHANGED <<quitMu, flags, processVars, chainVars, exits, mishaps>>

(* getWSLEnginePid gives no engine on any error, and the start goes on     *)
(* beside the one that lives.                                              *)
StartUnaware(c) ==
    /\ At(c, "start") /\ hostMu = NoCaller
    /\ ~flags.running /\ Alive # {} /\ MayBeUnseen
    /\ Goto(c, "prepare") /\ hostMu' = c
    /\ mishaps' = mishaps \cup {"unseen"}
    /\ UNCHANGED <<quitMu, flags, processVars, chainVars, exits>>

(* An index.dat that is missing is seeded; an error is ignored. *)
EnsureNemesisSeed(c) ==
    /\ At(c, "prepare") /\ index = 0
    /\ index' = 1
    /\ UNCHANGED <<lockVars, flags, call, processVars, stateDb, script, exits, mishaps, synced>>

(* Missing libraries and binaries are healed and the locks are cleared;    *)
(* beyond the genesis block there has to be a statedb, catapult.recovery   *)
(* runs, if it is there, and otherwise what is in statedb is left over     *)
(* from an aborted start.                                                  *)
PrepareData(c) ==
    /\ At(c, "prepare")
    /\ \/ index > 1 /\ stateDb > 0 /\ (Goto(c, "recover") \/ Goto(c, "spawn"))
       \/ index <= 1 /\ Goto(c, "wipe")
    /\ UNCHANGED <<lockVars, flags, processVars, chainVars, exits, mishaps>>

(* An index.dat that is not found over the network share, which may be     *)
(* another distribution's, is not read or is short counts as the genesis,  *)
(* and one that is not found may have been seeded anew.                    *)
IndexUnread(c) ==
    /\ At(c, "prepare") /\ index > 1
    /\ Happens("unread")
    /\ index' \in {1, index}
    /\ Goto(c, "wipe")
    /\ UNCHANGED <<lockVars, flags, processVars, stateDb, script, synced, exits>>

WipeState(c) ==
    /\ At(c, "wipe")
    /\ stateDb' = 0
    /\ Goto(c, "spawn")
    /\ UNCHANGED <<lockVars, flags, processVars, index, script, exits, mishaps, synced>>

StartRecovered(c) ==
    /\ At(c, "recover")
    /\ stateDb' = index
    /\ Goto(c, "spawn")
    /\ UNCHANGED <<lockVars, flags, processVars, index, script, exits, mishaps, synced>>

Spawn(c) ==
    /\ At(c, "spawn")
    /\ \E g \in Guest :
          /\ guest[g] = "down" /\ g \notin wrapper /\ reaper[g] = "none"
          /\ guest' = [guest EXCEPT ![g] = "up"]
          /\ wrapper' = wrapper \cup {g}
          /\ reaper' = [reaper EXCEPT ![g] = "wait"]
          /\ flags' = [running |-> TRUE, stopping |-> FALSE, cmd |-> g]
    /\ hostMu' = NoCaller
    /\ Return(c)
    /\ UNCHANGED <<quitMu, chainVars, exits, mishaps>>

(* The goroutine behind cmd.Wait: exitChan is closed, then dc.mu taken.    *)
WrapperReaped(g) ==
    /\ reaper[g] = "wait" /\ g \notin wrapper
    /\ reaper' = [reaper EXCEPT ![g] = "reap"]
    /\ UNCHANGED <<lockVars, flags, call, guest, wrapper, chainVars, exits, mishaps>>

ReaperResets(g) ==
    /\ reaper[g] = "reap" /\ hostMu = NoCaller
    /\ reaper' = [reaper EXCEPT ![g] = "none"]
    /\ flags' = [flags EXCEPT !.running = FALSE, !.stopping = FALSE, !.cmd = NoGuest]
    /\ UNCHANGED <<lockVars, call, guest, wrapper, chainVars, exits, mishaps>>

(* GetStatus: an engine without a wrapper is adopted again. *)
GetStatus ==
    /\ hostMu = NoCaller
    /\ ~flags.stopping /\ ~(flags.running /\ flags.cmd # NoGuest)
    /\ Pgrep
    /\ ~flags.running
    /\ flags' = [flags EXCEPT !.running = TRUE]
    /\ UNCHANGED <<lockVars, call, processVars, chainVars, exits, mishaps>>
-----------------------------------------------------------------------------
(* StopNode, for its own sake or for ResetChain. *)

AfterStop(c) ==
    /\ quitMu' = NoCaller
    /\ call' \in {[call EXCEPT ![c] = pc] : pc \in {"idle", "mutate"}}

StopNode(c) ==
    /\ At(c, "stop") /\ quitMu = NoCaller
    /\ quitMu' = c
    /\ Goto(c, "begin")
    /\ UNCHANGED <<hostMu, flags, processVars, chainVars, exits, mishaps>>

StopNothing(c) ==
    /\ At(c, "begin") /\ hostMu = NoCaller
    /\ ~flags.running \/ flags.stopping
    /\ AfterStop(c)
    /\ UNCHANGED <<hostMu, flags, processVars, chainVars, exits, mishaps>>

StopBegin(c) ==
    /\ At(c, "begin") /\ hostMu = NoCaller
    /\ flags.running /\ ~flags.stopping
    /\ flags' = [flags EXCEPT !.stopping = TRUE]
    /\ Goto(c, "signal")
    /\ UNCHANGED <<lockVars, processVars, chainVars, exits, mishaps>>

(* stopWSL: SIGINT to every engine of the distribution, if it can be sent; *)
(* an engine ends in its own time, asked or not (GuestEnds).               *)
StopSignals(c) ==
    /\ At(c, "signal")
    /\ Goto(c, "poll")
    /\ UNCHANGED <<lockVars, flags, processVars, chainVars, exits, mishaps>>

(* The loop ends when pgrep finds nothing. *)
StopSeesNone(c) ==
    /\ At(c, "poll") /\ ~Pgrep
    /\ Goto(c, "join")
    /\ UNCHANGED <<lockVars, flags, processVars, chainVars, exits, mishaps>>

(* A pgrep that fails, or looks into another distribution because the      *)
(* probe has failed, is taken for a clean end.                             *)
StopLosesSight(c) ==
    /\ At(c, "poll") /\ Alive # {}
    /\ Happens("lost")
    /\ Goto(c, "join")
    /\ UNCHANGED <<lockVars, flags, processVars, chainVars, exits>>

(* 60 seconds without a new byte in the logs or a new height.  Nobody      *)
(* waits for the SIGKILL to take effect.                                   *)
StopKills(c) ==
    /\ At(c, "poll") /\ Pgrep
    /\ Happens("killed")
    /\ Goto(c, "join")
    /\ UNCHANGED <<lockVars, flags, processVars, chainVars, exits>>

(* Five seconds for the wrapper, whether it ends or not. *)
StopJoins(c) ==
    /\ At(c, "join")
    /\ Goto(c, "finish")
    /\ UNCHANGED <<lockVars, flags, processVars, chainVars, exits, mishaps>>

StopFinishes(c) ==
    /\ At(c, "finish") /\ hostMu = NoCaller
    /\ flags' = [flags EXCEPT !.running = FALSE, !.stopping = FALSE, !.cmd = NoGuest]
    /\ Goto(c, "clear")
    /\ UNCHANGED <<lockVars, processVars, chainVars, exits, mishaps>>

(* verifyAndReconcileShutdownIntegrity. *)
StopClears(c) ==
    /\ At(c, "clear")
    /\ IF index # stateDb /\ {index, stateDb} \subseteq 1..2
       THEN Goto(c, "reconcile") /\ UNCHANGED quitMu
       ELSE AfterStop(c)
    /\ UNCHANGED <<hostMu, flags, processVars, chainVars, exits, mishaps>>

StopReconciled(c) ==
    /\ At(c, "reconcile")
    /\ stateDb' = index
    /\ AfterStop(c)
    /\ UNCHANGED <<hostMu, flags, processVars, index, script, exits, mishaps, synced>>

(* ResetChain, once its StopNode is back. *)
ResetChain(c) ==
    /\ At(c, "mutate")
    /\ index' = 1 /\ stateDb' = 0 /\ synced' = FALSE
    /\ Return(c)
    /\ UNCHANGED <<lockVars, flags, processVars, script, exits, mishaps>>
-----------------------------------------------------------------------------
(* The engine, the setup script, Windows. *)

CommitState(g) ==
    /\ g \in Alive /\ stateDb < 2
    /\ stateDb' = stateDb + 1
    /\ UNCHANGED <<lockVars, flags, call, processVars, index, script, exits, mishaps, synced>>

CommitIndex(g) ==
    /\ g \in Alive /\ index < stateDb
    /\ index' = stateDb
    /\ synced' = (stateDb = 2)
    /\ mishaps' = IF script = "write" THEN mishaps \cup {"raced"} ELSE mishaps
    /\ UNCHANGED <<lockVars, flags, call, processVars, stateDb, script, exits>>

GuestEnds(g) ==
    /\ g \in Alive
    /\ guest' = [guest EXCEPT ![g] = "down"]
    /\ UNCHANGED <<lockVars, flags, call, wrapper, reaper, chainVars, exits, mishaps>>

WrapperEnds(g) ==
    /\ g \in wrapper
    /\ wrapper' = wrapper \ {g}
    /\ \/ g \notin Alive /\ UNCHANGED mishaps
       \/ g \in Alive /\ Happens("orphan")
    /\ UNCHANGED <<lockVars, flags, call, guest, reaper, chainVars, exits>>

(* Between requests. *)
ManagerEnds ==
    /\ exits < MaxExits /\ MayHappen("orphan")
    /\ \A c \in Caller : At(c, "idle")
    /\ exits' = exits + 1
    /\ flags' = [running |-> FALSE, stopping |-> FALSE, cmd |-> NoGuest]
    /\ wrapper' = {} /\ reaper' = [g \in Guest |-> "none"]
    /\ mishaps' = IF Alive = {} THEN mishaps ELSE mishaps \cup {"orphan"}
    /\ UNCHANGED <<lockVars, call, guest, chainVars>>

(* Ensure-DistroRuntimePackages looks for index.dat and writes one when    *)
(* there is none.  Mutant: it does not look.                               *)
AlwaysMissing == TRUE
IndexMissing == index = 0

ScriptLooks ==
    /\ script = "idle" /\ IndexMissing
    /\ script' = "write"
    /\ UNCHANGED <<lockVars, flags, call, processVars, index, stateDb, synced, exits, mishaps>>

ScriptWrites ==
    /\ script = "write"
    /\ script' = "idle"
    /\ index' = 1
    /\ UNCHANGED <<lockVars, flags, call, processVars, stateDb, synced, exits, mishaps>>

Serve(c) ==
    \/ \E pc \in {"start", "stop"} : Request(c, pc)
    \/ StartRefused(c) \/ StartNode(c) \/ StartUnaware(c) \/ StartFails(c)
    \/ EnsureNemesisSeed(c) \/ PrepareData(c) \/ IndexUnread(c) \/ WipeState(c)
    \/ StartRecovered(c) \/ Spawn(c)
    \/ StopNode(c) \/ StopNothing(c) \/ StopBegin(c) \/ StopSignals(c) \/ StopSeesNone(c)
    \/ StopLosesSight(c) \/ StopKills(c) \/ StopJoins(c) \/ StopFinishes(c) \/ StopClears(c)
    \/ StopReconciled(c) \/ ResetChain(c)

Next ==
    \/ \E c \in Caller : Serve(c)
    \/ \E g \in Guest : \/ WrapperReaped(g) \/ ReaperResets(g)
                        \/ CommitState(g) \/ CommitIndex(g) \/ GuestEnds(g) \/ WrapperEnds(g)
    \/ GetStatus \/ ManagerEnds \/ ScriptLooks \/ ScriptWrites

Spec == Init /\ [][Next]_vars
-----------------------------------------------------------------------------
TypeOK ==
    /\ {hostMu, quitMu} \subseteq Caller \cup {NoCaller}
    /\ flags \in Flags /\ call \in [Caller -> Steps]
    /\ guest \in [Guest -> {"down", "up"}]
    /\ wrapper \subseteq Guest /\ reaper \in [Guest -> {"none", "wait", "reap"}]
    /\ index \in 0..2 /\ stateDb \in 0..2 /\ synced \in BOOLEAN
    /\ script \in {"idle", "write"} /\ exits \in 0..MaxExits
    /\ mishaps \subseteq Mishap \cup {"overlap", "raced", "unseen"}

(* An engine that lost its wrapper or its manager, or of which StopNode    *)
(* lost sight, is still found: a start never prepares the data of a live   *)
(* engine, nor starts a second one, unless its own pgrep fails             *)
(* (wsl_windows.go:135-154); and what StopNode does after stopWSL finds    *)
(* the engine gone, unless the engine had become an orphan, which StopNode *)
(* does not look for, or pgrep failed there (wsl_windows.go:1362-1377).    *)
OneEngineOnData ==
    mishaps \cap {"overlap", "killed", "unseen"} = {} =>
        /\ Cardinality(Alive) <= 1
        /\ \A c \in Caller :
              \/ call[c] \in {"prepare", "wipe", "recover", "spawn"}
              \/ /\ call[c] \in {"clear", "reconcile", "mutate"}
                 /\ mishaps \cap {"orphan", "lost"} = {}
              => Alive = {}

(* Once the chain has left the genesis block, no later start and no run of *)
(* the setup script takes its index or its state away; only the reset of   *)
(* the chain does, a script that looked before the chain had begun, and a  *)
(* start that cannot read index.dat (wsl_windows.go:1238-1257) or does not *)
(* see the engine that writes it.                                          *)
SyncedChainKept ==
    synced /\ mishaps \cap {"raced", "unread", "unseen"} = {} => index = 2 /\ stateDb = 2
=============================================================================
