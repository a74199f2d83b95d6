----------------------------- MODULE SyncWatchdog -----------------------------
(***************************************************************************)
(* The stall test of the supervisor's watchdog (pkg/supervisor) with the   *)
(* heights it gets from the chain monitor (pkg/chain).  Every tick the     *)
(* watchdog compares the height on disk with the one it remembers; when it *)
(* has not seen an advance for three minutes and the network is ahead, it  *)
(* restarts the node.  Times are kept as ages, in units that are longer    *)
(* than the tick, and an age stops where no comparison can tell more.      *)
(***************************************************************************)
EXTENDS Naturals

CONSTANTS
    TopHeight,    \* bound: heights
    Gap,          \* blocks the network is ahead before a node counts as stalled (5)
    Grace,        \* time a node that was started is left alone (3 minutes)
    Patience,     \* time without an advance (3 minutes)
    Cooldown      \* time between two recoveries (5 minutes)

VARIABLES
    height,       \* the height in index.dat
    network,      \* the height of the network
    cachedNet,    \* cachedNetHeight: 0 before the first answer
    node,         \* the engine runs, userIntendedRunning, autoRecoveryEnabled
    observed,     \* lastObservedHeight
    age,          \* of startTime, lastHeightAdvance and lastStallRecovered
    dog,          \* the watchdog's goroutine
    still,        \* history: time since the height has advanced
    pending,      \* history: time for which a recovery has been called for
    setBack       \* history: the chain was set back, and has not been seen to advance

vars == <<height, network, cachedNet, node, observed, age, dog,
          still, pending, setBack>>
chainVars == <<height, network, cachedNet>>
dogVars == <<observed, age, dog, setBack>>
histories == <<still, pending, setBack>>
-----------------------------------------------------------------------------
Height == 1..TopHeight
Overdue == Cooldown + Patience + 3      \* bound: where pending stops

Watched == node.wanted /\ node.enabled

(* A running node that is far behind, as far as the manager can know. *)
Due == node.up /\ Watched /\ cachedNet > height + Gap

Init ==
    /\ height = 1 /\ network \in Height /\ cachedNet = 0
    /\ node = [up |-> FALSE, wanted |-> FALSE, enabled |-> TRUE]
    /\ observed = 0
    /\ age = [start |-> Grace, advance |-> 0, stall |-> Cooldown]
    /\ dog = [pc |-> "sleep", local |-> 0, ticked |-> FALSE]
    /\ still = 0 /\ pending = 0 /\ setBack = FALSE

Older(a, most) == IF a < most THEN a + 1 ELSE most

(* The watchdog ticks at least once between two units of time, but while it *)
(* waits for a RestartNode.                                                 *)
TimePasses ==
    /\ dog.ticked \/ dog.pc = "restart"
    /\ dog' = [dog EXCEPT !.ticked = FALSE]
    /\ age' = [start |-> Older(age.start, Grace),
               advance |-> Older(age.advance, Patience),
               stall |-> Older(age.stall, Cooldown)]
    /\ still' = Older(still, Patience)
    /\ pending' = IF Due /\ dog.pc # "restart" THEN Older(pending, Overdue) ELSE 0
    /\ UNCHANGED <<chainVars, node, observed, setBack>>
-----------------------------------------------------------------------------
(* The engine, the network and the requests. *)

Advance ==
    /\ node.up /\ height < network
    /\ height' = height + 1
    /\ still' = 0 /\ pending' = 0
    /\ UNCHANGED <<network, cachedNet, node, dogVars>>

NetworkGrows ==
    /\ network < TopHeight
    /\ network' = network + 1
    /\ UNCHANGED <<height, cachedNet, node, dogVars, still, pending>>

(* The highest answer of the nodes that can be reached, by whoever asks; an *)
(* old answer is returned while a refresh is on its way.                    *)
PollNetworkHeight ==
    /\ cachedNet' \in 1..network
    /\ UNCHANGED <<height, network, node, dogVars, still>>
    /\ pending' = IF Due' THEN pending ELSE 0

Started(n) == /\ node' = n /\ pending' = 0
              /\ age' = [age EXCEPT !.start = IF n.up THEN 0 ELSE @]
Running == [node EXCEPT !.up = TRUE, !.wanted = TRUE]
Stopped == [node EXCEPT !.up = FALSE, !.wanted = FALSE]

StartNode ==
    /\ ~node.up /\ Started(Running)
    /\ UNCHANGED <<chainVars, observed, dog, still, setBack>>

(* StopNode, or the engine ends by itself. *)
NodeEnds ==
    /\ node.up /\ pending' = 0
    /\ node' \in {Stopped, [node EXCEPT !.up = FALSE]}
    /\ UNCHANGED <<chainVars, dogVars, still>>

SetAutoRecovery ==
    /\ node' = [node EXCEPT !.enabled = ~@] /\ pending' = 0
    /\ UNCHANGED <<chainVars, dogVars, still>>

(* ResetChain, or the restoration of a snapshot. *)
SetChainBack ==
    /\ ~node.up
    /\ height' \in 1..(height - 1)
    /\ setBack' = TRUE
    /\ UNCHANGED <<network, cachedNet, node, observed, age, dog, still, pending>>
-----------------------------------------------------------------------------
(* The watchdog's goroutine.  The status of the node, what its user wants   *)
(* and the ages are read at the tick, the heights later, and the node is    *)
(* restarted whatever has become of it by then.                             *)

Wake(pc) == dog.pc = "sleep" /\ dog' = [dog EXCEPT !.pc = pc, !.ticked = TRUE]
Sleep == dog' = [dog EXCEPT !.pc = "sleep", !.local = 0]

Patient == age.start < Grace \/ age.stall < Cooldown

TickIdle ==
    /\ Wake("sleep")
    /\ Watched /\ node.up => Patient
    /\ UNCHANGED <<chainVars, node, observed, age, histories>>

(* Process crash recovery, with its cooldown of 30 seconds; StartNode fails *)
(* or not.                                                                  *)
TickRestartsEnded ==
    /\ Wake("sleep")
    /\ Watched /\ ~node.up
    /\ \E n \in {node, Running} : Started(n)
    /\ UNCHANGED <<chainVars, observed, still, setBack>>

TickAsks ==
    /\ Wake("ask")
    /\ Watched /\ node.up /\ ~Patient
    /\ UNCHANGED <<chainVars, node, observed, age, histories>>

(* No height in index.dat and no local gateway, or no node of the network   *)
(* has ever answered.                                                       *)
HeightsFail ==
    /\ dog.pc = "ask" \/ (dog.pc = "decide" /\ cachedNet = 0)
    /\ Sleep
    /\ pending' = 0
    /\ UNCHANGED <<chainVars, node, observed, age, still, setBack>>

GetLocalHeight ==
    /\ dog.pc = "ask"
    /\ dog' = [dog EXCEPT !.pc = "decide", !.local = height]
    /\ UNCHANGED <<chainVars, node, observed, age, histories>>

(* "Node is syncing normally!"  Mutant: the time of it is not noted. *)
SyncsUntimed ==
    /\ dog.pc = "decide" /\ cachedNet > 0
    /\ dog.local > observed
    /\ observed' = dog.local
    /\ setBack' = (setBack /\ height < dog.local)
    /\ Sleep
    /\ UNCHANGED <<chainVars, node, age, still, pending>>
Syncs ==
    /\ dog.pc = "decide" /\ cachedNet > 0
    /\ dog.local > observed
    /\ observed' = dog.local /\ age' = [age EXCEPT !.advance = 0]
    /\ setBack' = (setBack /\ height < dog.local)
    /\ Sleep
    /\ UNCHANGED <<chainVars, node, still, pending>>

Stalled == cachedNet > dog.local + Gap /\ age.advance >= Patience

NotYet ==
    /\ dog.pc = "decide" /\ cachedNet > 0
    /\ dog.local <= observed /\ ~Stalled
    /\ Sleep
    /\ UNCHANGED <<chainVars, node, observed, age, histories>>

StallDetected ==
    /\ dog.pc = "decide" /\ cachedNet > 0
    /\ dog.local <= observed /\ Stalled
    /\ age' = [age EXCEPT !.advance = 0, !.stall = 0]
    /\ dog' = [dog EXCEPT !.pc = "restart"]
    /\ pending' = 0
    /\ UNCHANGED <<chainVars, node, observed, still, setBack>>

RestartNode ==
    /\ dog.pc = "restart" /\ Sleep
    /\ \E n \in {Running, Stopped} : Started(n)
    /\ UNCHANGED <<chainVars, observed, still, setBack>>

Next ==
    \/ TimePasses \/ Advance \/ NetworkGrows \/ PollNetworkHeight
    \/ StartNode \/ NodeEnds \/ SetAutoRecovery \/ SetChainBack
    \/ TickIdle \/ TickRestartsEnded \/ TickAsks
    \/ HeightsFail \/ GetLocalHeight \/ Syncs \/ NotYet \/ StallDetected \/ RestartNode

Spec == Init /\ [][Next]_vars
-----------------------------------------------------------------------------
TypeOK ==
    /\ {height, network} \subseteq Height /\ cachedNet \in 0..network
    /\ node \in [up : BOOLEAN, wanted : BOOLEAN, enabled : BOOLEAN]
    /\ observed \in 0..TopHeight
    /\ age \in [start : 0..Grace, advance : 0..Patience, stall : 0..Cooldown]
    /\ dog \in [pc : {"sleep", "ask", "decide", "restart"}, local : 0..TopHeight,
                ticked : BOOLEAN]
    /\ still \in 0..Patience /\ pending \in 0..Overdue /\ setBack \in BOOLEAN

(* "Local height has not advanced for >= 3 minutes" (supervisor.go:1246):   *)
(* a node is restarted only if that is so and the network is ahead, however *)
(* late and in whatever order heights were read, unless it got on after it  *)
(* was asked, or the chain was set back below the height remembered.        *)
(* "Network is ahead by at least 5 blocks", says the comment at 1245; the   *)
(* code at 1247 asks for more than 5, networkHeight > localHeight+5.  This  *)
(* and StallMeansRestart take the code's reading: a node that is exactly 5  *)
(* blocks behind is not restarted, however long it stays there.             *)
RestartMeansStall ==
    dog.pc = "restart" /\ ~setBack /\ height = dog.local =>
        still >= Patience /\ network > height + Gap

(* And a node that stays behind without an advance, wanted and answering,   *)
(* is restarted in time: its last advance may be seen only after a cooldown, *)
(* and two of the ticks may take until the next unit of time.               *)
StallMeansRestart == pending <= Cooldown + Patience + 2
=============================================================================
