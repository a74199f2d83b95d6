--------------------------- MODULE HarvesterTracker ---------------------------
(***************************************************************************)
(* The harvester tracker (pkg/chain/harvest.go) with the network height it *)
(* gets from the chain monitor.  A background scanner walks up the chain, a *)
(* request looks at the newest blocks at any time; a block the node has    *)
(* signed is added to the totals unless it is among the last blocks that   *)
(* were recorded.                                                          *)
(***************************************************************************)
EXTENDS Integers, Sequences, FiniteSets, SequencesExt

CONSTANTS
    MaxHeight,    \* bound: the chain's height
    Lookback,     \* blocks scanned at the start, or after falling behind (15)
    FirstLook,    \* blocks a scanner that has not seen any starts back (5)
    FarBehind,    \* blocks after which the scanner gives up catching up (30)
    Chunk,        \* blocks scanned in one round (10)
    Newest,       \* blocks before the last one that a request looks at (2)
    Signed,       \* the blocks that this node signs
    KeepBlocks,   \* validated blocks that are kept (50)
    MaxLag        \* bound: blocks the network may be ahead of the cached height,
                  \* and of what the scanner and a request look at

VARIABLES
    height,       \* the network's height
    cachedHeight, \* cachedNetHeight: 0 before the first answer
    stats,        \* the totals and the validated blocks, newest record first
    statsFile,    \* harvest-stats.json
    scanned,      \* lastScannedHeight
    scan,         \* what the scanner and the request still have to look at
    counted       \* history: blocks in the total since it was last zero

vars == <<height, cachedHeight, stats, statsFile, scanned, scan, counted>>
-----------------------------------------------------------------------------
Height == 1..MaxHeight
Stats == [blocks : Seq(Height), total : Nat]
NoStats == [blocks |-> <<>>, total |-> 0]

Walker == {"scanner", "request"}
NoBlocks == [on |-> FALSE, next |-> 1, last |-> 0]

Init ==
    /\ height = 1 /\ cachedHeight = 0
    /\ stats = NoStats /\ statsFile = NoStats
    /\ scanned = 0
    /\ scan = [w \in Walker |-> NoBlocks]
    /\ counted = {}

Walking(w) == scan[w].on
Blocks(from, to) == [on |-> TRUE, next |-> from, last |-> to]
AtLeast(x, y) == IF x < y THEN y ELSE x
-----------------------------------------------------------------------------
(* The network. *)

Grow ==
    /\ height < MaxHeight
    /\ \A w \in Walker : Walking(w) => height < scan[w].next + MaxLag
    /\ cachedHeight > 0 => height < cachedHeight + MaxLag
    /\ height' = height + 1
    /\ UNCHANGED <<cachedHeight, stats, statsFile, scanned, scan, counted>>

(* pollNetworkHeight: the highest of the nodes that answer, which may be    *)
(* lower than the last time.                                                *)
PollHeight ==
    /\ cachedHeight' \in {h \in Height : height - 1 <= h /\ h <= height}
    /\ UNCHANGED <<height, stats, statsFile, scanned, scan, counted>>
-----------------------------------------------------------------------------
(* One block. *)

Kept(blocks) == SubSeq(blocks, 1, IF Len(blocks) > KeepBlocks THEN KeepBlocks ELSE Len(blocks))

(* Mutant: only the block that was recorded last is compared. *)
RecordIfNotLast(h) ==
    IF stats.blocks # <<>> /\ Head(stats.blocks) = h
    THEN UNCHANGED <<stats, statsFile, counted>>
    ELSE /\ stats' = [blocks |-> Kept(<<h>> \o stats.blocks),
                      total |-> stats.total + 1]
         /\ statsFile' = stats'
         /\ counted' = counted \cup {h}

RecordValidatedBlock(h) ==
    IF h \in Range(stats.blocks)
    THEN UNCHANGED <<stats, statsFile, counted>>
    ELSE /\ stats' = [blocks |-> Kept(<<h>> \o stats.blocks),
                      total |-> stats.total + 1]
         /\ statsFile' = stats'
         /\ counted' = counted \cup {h}

(* A block that no node serves is passed over for good. *)
CheckBlock(w) ==
    /\ Walking(w) /\ scan[w].next <= scan[w].last
    /\ scan' = [scan EXCEPT ![w].next = @ + 1]
    /\ LET h == scan[w].next
       IN  \/ /\ h \in 1..height
              /\ IF h \in Signed THEN RecordValidatedBlock(h)
                 ELSE UNCHANGED <<stats, statsFile, counted>>
           \/ UNCHANGED <<stats, statsFile, counted>>
    /\ UNCHANGED <<height, cachedHeight, scanned>>
-----------------------------------------------------------------------------
(* The scanner and the request. *)

(* The first blocks, when there are enough of them and their number is      *)
(* known in time.                                                           *)
Bootstrap ==
    /\ ~Walking("scanner") /\ scanned = 0 /\ cachedHeight > Lookback
    /\ scan' = [scan EXCEPT !["scanner"] = Blocks(cachedHeight - Lookback, cachedHeight)]
    /\ UNCHANGED <<height, cachedHeight, stats, statsFile, scanned, counted>>

(* One round: from the block after the last one, or from a few blocks back  *)
(* if that is too far, and no more than a chunk.                            *)
ScanRound ==
    /\ ~Walking("scanner") /\ cachedHeight > 0
    /\ LET first == IF scanned = 0 THEN AtLeast(cachedHeight - FirstLook, 1) + 1 ELSE scanned + 1
           from  == IF cachedHeight - first > FarBehind THEN cachedHeight - Lookback ELSE first
           to    == IF cachedHeight - from > Chunk THEN from + Chunk - 1 ELSE cachedHeight
       IN  /\ first <= cachedHeight
           /\ scan' = [scan EXCEPT !["scanner"] = Blocks(from, to)]
    /\ UNCHANGED <<height, cachedHeight, stats, statsFile, scanned, counted>>

EndRound ==
    /\ Walking("scanner") /\ scan["scanner"].next > scan["scanner"].last
    /\ scanned' = scan["scanner"].last
    /\ scan' = [scan EXCEPT !["scanner"] = NoBlocks]
    /\ UNCHANGED <<height, cachedHeight, stats, statsFile, counted>>

(* isChecking lets one request in at a time. *)
TriggerCheck ==
    /\ ~Walking("request") /\ cachedHeight > 0
    /\ scan' = [scan EXCEPT !["request"] = Blocks(AtLeast(cachedHeight - Newest, 1), cachedHeight)]
    /\ UNCHANGED <<height, cachedHeight, stats, statsFile, scanned, counted>>

EndCheck ==
    /\ Walking("request") /\ scan["request"].next > scan["request"].last
    /\ scan' = [scan EXCEPT !["request"] = NoBlocks]
    /\ UNCHANGED <<height, cachedHeight, stats, statsFile, scanned, counted>>

(* The blocks or everything; the fees alone are not in this model. *)
ResetStats ==
    /\ stats' = NoStats /\ statsFile' = NoStats /\ counted' = {}
    /\ UNCHANGED <<height, cachedHeight, scanned, scan>>

(* The file is written in place: a crash may leave what cannot be read.     *)
Restart ==
    /\ \E file \in {statsFile, NoStats} :
         /\ stats' = file /\ statsFile' = file
         /\ counted' = IF file = NoStats THEN {} ELSE counted
    /\ cachedHeight' = 0 /\ scanned' = 0
    /\ scan' = [w \in Walker |-> NoBlocks]
    /\ UNCHANGED height

Next ==
    \/ Grow \/ PollHeight \/ Bootstrap \/ ScanRound \/ EndRound \/ TriggerCheck \/ EndCheck
    \/ ResetStats \/ Restart
    \/ \E w \in Walker : CheckBlock(w)

Spec == Init /\ [][Next]_vars
-----------------------------------------------------------------------------
TypeOK ==
    /\ height \in Height /\ cachedHeight \in Height \cup {0}
    /\ stats \in Stats /\ statsFile = stats
    /\ Len(stats.blocks) <= KeepBlocks
    /\ scanned \in Height \cup {0}
    /\ scan \in [Walker -> [on : BOOLEAN, next : 0..MaxHeight + 1, last : 0..MaxHeight]]
    /\ counted \subseteq Signed

(* The chain is at most Reach blocks past a block that somebody looks at;   *)
(* the list of records is long enough when the node signs no more than      *)
(* KeepBlocks of the blocks at that distance of each other.                 *)
Reach == MaxLag + FarBehind
Around(b) == {h \in Signed \cap Height : b <= h + Reach /\ h <= b + Reach}
KeepsEnough == \A b \in Height : Cardinality(Around(b)) <= KeepBlocks

(* Whoever looks at a block, however often and however late, and whatever   *)
(* is restarted or reset: every block the node signed is in the total at    *)
(* most once, although only the last blocks recorded are remembered.        *)
CountedOnce == stats.total = Cardinality(counted)
=============================================================================
