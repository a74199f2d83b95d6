---------------------------- MODULE NodeLifecycle ----------------------------
(***************************************************************************)
(* What the supervisor promises about the data directory of a node: it     *)
(* belongs to one engine process, or to tools that repair and replace its  *)
(* content, or to nobody, and never to an engine and a tool at once.       *)
(***************************************************************************)
CONSTANTS Engine, Tool

VARIABLES
    live,     \* engine processes that exist
    tools,    \* tools at work on the data directory
    wanted    \* whether the operator wants an engine

vars == <<live, tools, wanted>>

Init == live = {} /\ tools = {} /\ wanted = FALSE

Launch(e) == /\ live = {} /\ tools = {}
             /\ live' = {e}
             /\ wanted' = TRUE
             /\ UNCHANGED tools

Die == /\ live # {}
       /\ live' = {}
       /\ UNCHANGED <<tools, wanted>>

Dismiss == /\ wanted' = FALSE
           /\ UNCHANGED <<live, tools>>

Engage(t) == /\ live = {}
             /\ tools' = tools \cup {t}
             /\ wanted' \in {wanted, FALSE}
             /\ UNCHANGED live

Disengage(t) == /\ tools' = tools \ {t}
                /\ UNCHANGED <<live, wanted>>

(* The manager goes away, and its tools with it. *)
Quit == /\ live = {}
        /\ tools' = {}
        /\ wanted' = FALSE
        /\ UNCHANGED live

Next == \/ \E e \in Engine : Launch(e)
        \/ Die \/ Dismiss \/ Quit
        \/ \E t \in Tool : Engage(t) \/ Disengage(t)

Spec == Init /\ [][Next]_vars
=============================================================================
