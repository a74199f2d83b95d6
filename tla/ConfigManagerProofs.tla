------------------------- MODULE ConfigManagerProofs -------------------------
(***************************************************************************)
(* Proofs about the configuration manager, for any requests, directories   *)
(* and entries.  One half of the inductive invariant counts who is inside  *)
(* which lock; from it follows that nothing is saved while an export       *)
(* copies, that one writer moves data at a time, and who waits for whom.   *)
(* The other half follows the files: what has still to move is whole where *)
(* it comes from, and a placeholder has an explanation.                    *)
(***************************************************************************)
EXTENDS ConfigManager, FiniteSetTheorems, TLAPS

(* The constants as the code uses them: the default directory is one of    *)
(* the directories, and no property and no goroutine have values of their  *)
(* own.                                                                    *)
ParamsFit ==
    /\ DefaultPath \in Path /\ NoPath \notin Path
    /\ Nobody \notin Request /\ MaxFaults \in Nat /\ MaxOutside \in Nat

RequestState ==
    [op : Op, path : SomePath, migrate : BOOLEAN, seen : Props, from : SomePath,
     todo : SUBSET Entry, moving : SUBSET Entry,
     pc : {"idle", "lock", "loaded", "copy", "copying", "linked", "announced", "writing",
           "moving", "manager", "user", "harvesting", "done"}]

OutsideState == [pc : {"idle", "read", "cut"}, path : SomePath, legacy : SomePath,
                 count : 0..MaxOutside]

(* What a step of a request notes beside the files. *)
Noted == Explain /\ UNCHANGED <<outside, torn>>
USE DEF Noted, Explain, Locked

(* A writer that holds its lock; one that is inside; one that saves a node *)
(* configuration; a reader that relies on what it has read.                *)
Saving == {"moving", "manager", "user", "harvesting"}
Inside == {"writing"} \cup Saving
Holding == {"announced"} \cup Inside
Reading == {"loaded", "copy", "copying"}

(* How often a request is counted among the readers of each lock. *)
ConfigReads(x) ==
    (IF x.op \in {"backup", "package"} /\ x.pc \in {"lock"} \cup Reading THEN 1 ELSE 0)
    + (IF x.pc = "loaded" THEN 1 ELSE 0)
StorageReads(x) == IF x.op = "drives" /\ x.pc \in {"lock", "loaded"} THEN 1 ELSE 0

(* The operations that come to a place. *)
Fits(x) ==
    /\ x.pc \in {"lock", "loaded"} => x.op \in {"load", "link", "backup", "package", "drives"}
    /\ x.pc \in {"copy", "copying"} => x.op \in {"backup", "package"}
    /\ x.pc = "linked" => x.op = "link"
    /\ x.pc \in Holding => x.op \in Writes
    /\ x.pc \in Saving => x.op \in {"save", "link"}
    /\ x.migrate => /\ x.op = "save" /\ x.pc \in Holding \cup {"done"}
                    /\ x.pc \in Holding => x.path \in Path
    /\ x.pc # "moving" => x.moving = {}

OpFits == \A r \in Request : Fits(request[r])

ReadersCounted == \A r \in Request :
    /\ rw["config"].readers[r] = ConfigReads(request[r])
    /\ rw["storage"].readers[r] = StorageReads(request[r])

WriterHolds == \A r \in Request, l \in Lock :
    rw[l].writer = r <=> request[r].pc \in Holding /\ LockOf(request[r].op) = l

WriterAlone == \A r, q \in Request :
    request[r].pc \in Inside => rw[LockOf(request[r].op)].readers[q] = 0

KeyIsRead == \A r \in Request : request[r].pc \in Reading => props.key # "absent"

(* The entries that still have to move are whole where they come from. *)
Movable == \A r \in Request : request[r].pc = "moving" =>
    /\ request[r].from \in Path /\ request[r].path \in Path
    /\ request[r].from # request[r].path
    /\ request[r].todo \cup request[r].moving \subseteq stored[request[r].from]
    /\ request[r].todo \cap request[r].moving = {}
    /\ request[r].moving = {} \/ \E e \in Entry : request[r].moving = {e}

(* Where a placeholder, an unusual spelling and a missing file come from. *)
PlaceholderExplained ==
    /\ props.odd => respelled
    /\ \A b \in {"backup", "package"} : bundles[b].odd => respelled
    /\ KeySurvivesImport
    /\ bundles["package"].key = "redacted" => respelled \/ unfilled

IInv ==
    /\ ParamsFit /\ TypeOK /\ OpFits /\ ReadersCounted /\ WriterHolds /\ WriterAlone
    /\ KeyIsRead /\ ExportIsSnapshot /\ Movable /\ DataNeverLost
    /\ PlaceholderExplained
-----------------------------------------------------------------------------
(* What the updates of one request and of one lock change. *)

LEMMA RequestUpdate ==
    ASSUME request \in [Request -> RequestState], NEW r \in Request, NEW v \in RequestState,
           request' = [request EXCEPT ![r] = v]
    PROVE  /\ request' \in [Request -> RequestState] /\ request'[r] = v
           /\ \A q \in Request \ {r} : request'[q] = request[q]
OBVIOUS

RwTyped == rw \in [Lock -> [writer : Request \cup {Nobody}, readers : [Request -> 0..2]]]

LEMMA ReadersUpdate ==
    ASSUME RwTyped, NEW l \in Lock, NEW r \in Request, NEW n \in 0..2,
           rw' = [rw EXCEPT ![l].readers[r] = n]
    PROVE  /\ RwTyped' /\ rw'[l].readers[r] = n
           /\ \A q \in Request \ {r} : rw'[l].readers[q] = rw[l].readers[q]
           /\ \A k \in Lock \ {l} : rw'[k] = rw[k]
           /\ \A k \in Lock : rw'[k].writer = rw[k].writer
<1> DEFINE f == [rw[l].readers EXCEPT ![r] = n]
           v == [rw[l] EXCEPT !.readers = f]
<1>1. f \in [Request -> 0..2] /\ f[r] = n /\ \A q \in Request \ {r} : f[q] = rw[l].readers[q]
    BY DEF RwTyped
<1>2. v \in [writer : Request \cup {Nobody}, readers : [Request -> 0..2]]
      /\ v.readers = f /\ v.writer = rw[l].writer
    BY <1>1 DEF RwTyped
<1>3. rw' = [rw EXCEPT ![l] = v]
    OBVIOUS
<1> HIDE DEF f, v
<1> QED BY <1>1, <1>2, <1>3 DEF RwTyped

LEMMA WriterUpdate ==
    ASSUME RwTyped, NEW l \in Lock, NEW w \in Request \cup {Nobody},
           rw' = [rw EXCEPT ![l].writer = w]
    PROVE  /\ RwTyped' /\ rw'[l].writer = w
           /\ \A k \in Lock, q \in Request : rw'[k].readers[q] = rw[k].readers[q]
           /\ \A k \in Lock \ {l} : rw'[k] = rw[k]
<1> DEFINE v == [rw[l] EXCEPT !.writer = w]
<1>1. v \in [writer : Request \cup {Nobody}, readers : [Request -> 0..2]]
      /\ v.readers = rw[l].readers /\ v.writer = w
    BY DEF RwTyped
<1>2. rw' = [rw EXCEPT ![l] = v]
    OBVIOUS
<1> HIDE DEF v
<1> QED BY <1>1, <1>2 DEF RwTyped

(* The requests and the locks belong together. *)
Locking ==
    /\ request \in [Request -> RequestState] /\ RwTyped
    /\ OpFits /\ ReadersCounted /\ WriterHolds /\ WriterAlone

LEMMA TypeParts ==
    TypeOK <=> /\ props \in Props /\ stored \in [Path -> SUBSET Entry] /\ RwTyped
               /\ request \in [Request -> RequestState]
               /\ bundles \in [{"backup", "package"} -> Props]
               /\ faults \in 0..MaxFaults /\ outside \in OutsideState /\ torn \in SUBSET Request
               /\ respelled \in BOOLEAN /\ unfilled \in BOOLEAN
BY DEF OutsideState, TypeOK, RwTyped, RequestState

LEMMA WaitingType == ParamsFit => NoProps \in Props /\ Waiting \in RequestState
BY DEF NoProps, ParamsFit, Waiting, RequestState, Props, SomePath, Op

LEMMA LockingHolds == IInv => Locking
BY TypeParts DEF IInv, Locking

LEMMA NotMoving ==
    ASSUME Locking, NEW r \in Request, request[r].pc # "moving"
    PROVE  request[r].moving = {}
BY DEF Locking, OpFits, Fits

(* A writer that is inside goes on, or comes in when nobody reads. *)
LEMMA StaysInside ==
    ASSUME ParamsFit, Locking, NEW r \in Request, NEW v \in RequestState,
           request[r].pc \in Holding, v.pc \in Inside, v.op = request[r].op,
           v.migrate = request[r].migrate, v.path = request[r].path,
           v.pc # "moving" => v.moving = {},
           v.pc \in Saving => v.op \in {"save", "link"},
           request[r].pc = "announced" =>
               \A q \in Request : rw[LockOf(request[r].op)].readers[q] = 0,
           request' = [request EXCEPT ![r] = v], rw' = rw
    PROVE  Locking'
<1> USE DEF Locking
<1>1. /\ request' \in [Request -> RequestState] /\ request'[r] = v
      /\ \A q \in Request \ {r} : request'[q] = request[q]
    BY RequestUpdate
<1> HIDE DEF Locking
<1>2. request' \in [Request -> RequestState] /\ RwTyped'
    BY <1>1 DEF Locking, RwTyped
<1>3. OpFits'
    BY <1>1 DEF Locking, OpFits, Fits, Inside, Holding, Saving
<1>4. ReadersCounted'
    BY <1>1
       DEF Locking, ReadersCounted, ConfigReads, StorageReads, Inside, Holding, Saving, Reading
<1>5. WriterHolds'
    BY <1>1 DEF Locking, WriterHolds, Inside, Holding
<1>6. WriterAlone'
    BY <1>1 DEF Locking, WriterAlone, Inside, Holding
<1> QED BY <1>2, <1>3, <1>4, <1>5, <1>6 DEF Locking

(* A writer that is inside answers and lets the next one in. *)
LEMMA LeavesLock ==
    ASSUME ParamsFit, Locking, NEW r \in Request, request[r].pc \in Inside, WriteUnlock(r)
    PROVE  /\ Locking' /\ request'[r].pc = "done"
           /\ \A q \in Request \ {r} : request'[q] = request[q]
<1> DEFINE v == [Waiting EXCEPT !.pc = "done", !.op = request[r].op,
                                !.migrate = request[r].migrate]
           l == LockOf(request[r].op)
<1>1. request[r] \in RequestState
    BY DEF Locking
<1>2. v \in RequestState /\ v.pc = "done" /\ v.op = request[r].op /\ v.migrate = request[r].migrate /\ v.moving = {}
    BY <1>1, WaitingType DEF RequestState, Waiting
<1>3. request' = [request EXCEPT ![r] = v] /\ rw' = [rw EXCEPT ![l].writer = Nobody]
    BY DEF WriteUnlock, Answer
<1>4. l \in Lock
    BY DEF LockOf, Lock
<1> HIDE DEF v
<1>5. /\ request' \in [Request -> RequestState] /\ request'[r] = v
      /\ \A q \in Request \ {r} : request'[q] = request[q]
    BY <1>2, <1>3, RequestUpdate DEF Locking
<1>6. /\ RwTyped' /\ rw'[l].writer = Nobody
      /\ \A k \in Lock, q \in Request : rw'[k].readers[q] = rw[k].readers[q]
      /\ \A k \in Lock \ {l} : rw'[k] = rw[k]
    <2> HIDE DEF l
    <2> QED BY <1>3, <1>4, WriterUpdate DEF Locking
<1>7. OpFits'
    BY <1>2, <1>5 DEF Locking, OpFits, Fits, Inside, Holding, Saving
<1>8. ReadersCounted'
    BY <1>2, <1>5, <1>6
       DEF Locking, ReadersCounted, ConfigReads, StorageReads, Inside, Saving, Reading, Lock
<1>9. WriterHolds'
    BY <1>2, <1>5, <1>6 DEF Locking, WriterHolds, Inside, Saving, Holding, ParamsFit
<1>10. WriterAlone'
    BY <1>2, <1>4, <1>5, <1>6 DEF Locking, WriterAlone, Inside, Saving, LockOf, Lock
<1> QED BY <1>2, <1>5, <1>6, <1>7, <1>8, <1>9, <1>10 DEF Locking

(* A request that holds no lock as a writer moves, with at most its own    *)
(* count among the readers.                                                *)
LEMMA ReaderMoves ==
    ASSUME ParamsFit, Locking, NEW r \in Request, NEW v \in RequestState,
           request[r].pc \notin Holding, v.pc \notin Holding,
           request' = [request EXCEPT ![r] = v], RwTyped',
           \A k \in Lock : rw'[k].writer = rw[k].writer,
           \A k \in Lock, q \in Request \ {r} : rw'[k].readers[q] = rw[k].readers[q],
           \A k \in Lock : rw[k].writer # Nobody => rw'[k].readers[r] <= rw[k].readers[r],
           Fits(v), rw'["config"].readers[r] = ConfigReads(v),
           rw'["storage"].readers[r] = StorageReads(v)
    PROVE  Locking'
<1>1. /\ request' \in [Request -> RequestState] /\ request'[r] = v
      /\ \A q \in Request \ {r} : request'[q] = request[q]
    BY RequestUpdate DEF Locking
<1>2. OpFits'
    BY <1>1 DEF Locking, OpFits
<1>3. ReadersCounted'
    BY <1>1 DEF Locking, ReadersCounted, Lock
<1>4. WriterHolds'
    BY <1>1 DEF Locking, WriterHolds, Holding
<1>5. WriterAlone'
    <2> SUFFICES ASSUME NEW p \in Request, NEW q \in Request, (request[p].pc \in Inside)'
                 PROVE  rw'[LockOf(request'[p].op)].readers[q] = 0
        BY DEF WriterAlone
    <2>1. p # r /\ request'[p] = request[p]
        BY <1>1 DEF Holding
    <2>2. LockOf(request[p].op) \in Lock
        BY DEF LockOf, Lock
    <2>3. rw[LockOf(request[p].op)].readers[q] = 0
        BY <2>1 DEF Locking, WriterAlone
    <2>4. rw[LockOf(request[p].op)].writer # Nobody
        BY <2>1, <2>2 DEF Locking, WriterHolds, Holding, ParamsFit
    <2>5. rw'[LockOf(request[p].op)].readers[q] <= rw[LockOf(request[p].op)].readers[q]
        BY <2>2, <2>4, <2>3
    <2>6. rw'[LockOf(request[p].op)].readers[q] \in 0..2
        BY <2>2 DEF RwTyped
    <2> QED BY <2>1, <2>3, <2>5, <2>6
<1> QED BY <1>1, <1>2, <1>3, <1>4, <1>5 DEF Locking

(* A request that holds no lock announces that it will write. *)
LEMMA Announces ==
    ASSUME ParamsFit, Locking, NEW r \in Request, NEW v \in RequestState,
           request[r].pc \in {"idle", "linked"}, v.pc = "announced", v.op \in Writes,
              v.moving = {},
           v.migrate => v.op = "save" /\ v.path \in Path,
           request' = [request EXCEPT ![r] = v], Announce(r, LockOf(v.op))
    PROVE  Locking'
<1> DEFINE l == LockOf(v.op)
<1>1. /\ request' \in [Request -> RequestState] /\ request'[r] = v
      /\ \A q \in Request \ {r} : request'[q] = request[q]
    BY RequestUpdate DEF Locking
<1>2. l \in Lock
    BY DEF LockOf, Lock
<1>3. rw' = [rw EXCEPT ![l].writer = r] /\ rw[l].writer = Nobody
    BY DEF Announce, MayRead
<1> HIDE DEF l
<1>4. /\ RwTyped' /\ rw'[l].writer = r
      /\ \A k \in Lock, q \in Request : rw'[k].readers[q] = rw[k].readers[q]
      /\ \A k \in Lock \ {l} : rw'[k] = rw[k]
    BY <1>2, <1>3, WriterUpdate DEF Locking
<1>5. OpFits'
    BY <1>1 DEF Locking, OpFits, Fits, Inside, Holding, Saving
<1>6. ReadersCounted'
    BY <1>1, <1>4 DEF Locking, ReadersCounted, ConfigReads, StorageReads, Reading, Lock
<1>7. WriterHolds'
    <2>1. l = LockOf(v.op)
        BY DEF l
    <2> QED BY <1>1, <1>2, <1>3, <1>4, <2>1
               DEF Locking, WriterHolds, Holding, Inside, Saving, ParamsFit
<1>8. WriterAlone'
    <2> SUFFICES ASSUME NEW p \in Request, NEW q \in Request, (request[p].pc \in Inside)'
                 PROVE  rw'[LockOf(request'[p].op)].readers[q] = 0
        BY DEF WriterAlone
    <2>1. p # r /\ request'[p] = request[p]
        BY <1>1 DEF Inside, Saving
    <2>2. LockOf(request[p].op) \in Lock
        BY DEF LockOf, Lock
    <2> QED BY <2>1, <2>2, <1>4 DEF Locking, WriterAlone
<1> QED BY <1>1, <1>4, <1>5, <1>6, <1>7, <1>8 DEF Locking

LEMMA BeginReadLocks ==
    ASSUME ParamsFit, Locking, NEW r \in Request, NEW op \in Op, BeginRead(r, op)
    PROVE  Locking'
<1> DEFINE v == [request[r] EXCEPT !.op = op, !.pc = "lock"]
<1>1. request[r] \in RequestState /\ request[r].pc = "idle" /\ op \in {"load", "link"}
    BY DEF Locking, BeginRead, At
<1>2. v \in RequestState /\ v.pc = "lock" /\ v.op = op /\ v.migrate = request[r].migrate /\ v.moving = {}
    BY <1>1, NotMoving DEF RequestState
<1>3. request' = [request EXCEPT ![r] = v] /\ rw' = rw
    BY DEF BeginRead
<1> HIDE DEF v
<1>4. rw["config"].readers[r] = 0 /\ rw["storage"].readers[r] = 0
    BY <1>1 DEF Locking, ReadersCounted, ConfigReads, StorageReads, Reading
<1>5. RwTyped' /\ \A k \in Lock : rw'[k].readers[r] <= rw[k].readers[r]
    BY <1>3 DEF Locking, RwTyped
<1>6. ConfigReads(v) = 0 /\ StorageReads(v) = 0
    BY <1>1, <1>2 DEF ConfigReads, StorageReads, Reading
<1>7. Fits(v) /\ request[r].pc \notin Holding /\ v.pc \notin Holding
    BY <1>1, <1>2 DEF Locking, OpFits, Fits, Holding, Inside, Saving
<1> QED BY <1>2, <1>3, <1>4, <1>5, <1>6, <1>7, ReaderMoves

LEMMA BeginNestedReadLocks ==
    ASSUME ParamsFit, Locking, NEW r \in Request, NEW op \in Op, BeginNestedRead(r, op)
    PROVE  Locking'
<1> DEFINE v == [request[r] EXCEPT !.op = op, !.pc = "lock"]
           l == LockOf(op)
<1>1. /\ request[r] \in RequestState /\ request[r].pc = "idle"
      /\ op \in {"backup", "package", "drives"} /\ rw[l].writer = Nobody
    BY DEF Locking, BeginNestedRead, At, MayRead
<1>2. v \in RequestState /\ v.pc = "lock" /\ v.op = op /\ v.migrate = request[r].migrate /\ v.moving = {}
    BY <1>1, NotMoving DEF RequestState
<1>3. rw["config"].readers[r] = 0 /\ rw["storage"].readers[r] = 0
    BY <1>1 DEF Locking, ReadersCounted, ConfigReads, StorageReads, Reading
<1>4. l \in Lock /\ l = (IF op = "drives" THEN "storage" ELSE "config")
    BY <1>1 DEF LockOf, Lock
<1>5. request' = [request EXCEPT ![r] = v] /\ rw' = [rw EXCEPT ![l].readers[r] = 1]
    <2>1. rw[l].readers[r] + 1 = 1
        BY <1>3, <1>4
    <2> QED BY <2>1 DEF BeginNestedRead, ReadLocked
<1> HIDE DEF v, l
<1>6. /\ RwTyped' /\ rw'[l].readers[r] = 1
      /\ \A q \in Request \ {r} : rw'[l].readers[q] = rw[l].readers[q]
      /\ \A k \in Lock \ {l} : rw'[k] = rw[k]
      /\ \A k \in Lock : rw'[k].writer = rw[k].writer
    <2> DEFINE n == 1
    <2>1. n \in 0..2 /\ RwTyped /\ l \in Lock
        BY <1>4 DEF Locking
    <2>2. rw' = [rw EXCEPT ![l].readers[r] = n]
        BY <1>5
    <2> HIDE DEF n
    <2>3. /\ RwTyped' /\ rw'[l].readers[r] = n
          /\ \A q \in Request \ {r} : rw'[l].readers[q] = rw[l].readers[q]
          /\ \A k \in Lock \ {l} : rw'[k] = rw[k]
          /\ \A k \in Lock : rw'[k].writer = rw[k].writer
        BY <2>1, <2>2, ReadersUpdate
    <2> QED BY <2>3 DEF n
<1>7. \A k \in Lock : rw[k].writer # Nobody => rw'[k].readers[r] <= rw[k].readers[r]
    BY <1>1, <1>4, <1>6 DEF Locking, RwTyped
<1>8. rw'["config"].readers[r] = ConfigReads(v) /\ rw'["storage"].readers[r] = StorageReads(v)
    BY <1>1, <1>2, <1>3, <1>4, <1>6 DEF Lock, ConfigReads, StorageReads, Reading
<1>9. \A k \in Lock, q \in Request \ {r} : rw'[k].readers[q] = rw[k].readers[q]
    BY <1>4, <1>6
<1>10. Fits(v) /\ request[r].pc \notin Holding /\ v.pc \notin Holding
    BY <1>1, <1>2 DEF Locking, OpFits, Fits, Holding, Inside, Saving
<1> QED BY <1>2, <1>5, <1>6, <1>7, <1>8, <1>9, <1>10, ReaderMoves

LEMMA LoadLocks ==
    ASSUME ParamsFit, Locking, props \in Props, NEW r \in Request, Load(r)
    PROVE  Locking' /\ props' \in Props
<1> DEFINE v == [request[r] EXCEPT !.pc = "loaded", !.seen = Ensured(props)]
           n == ConfigReads(request[r]) + 1
<1>1. /\ request[r] \in RequestState /\ request[r].pc = "lock"
      /\ rw["config"].writer = Nobody /\ "config" \in Lock
    BY DEF Locking, Load, At, MayRead, Lock
<1>2. Ensured(props) \in Props
    BY DEF Ensured, Props
<1>3. v \in RequestState /\ v.pc = "loaded" /\ v.op = request[r].op /\ v.migrate = request[r].migrate /\ v.moving = {}
    BY <1>1, <1>2, NotMoving DEF RequestState
<1>4. n \in 0..2
    BY <1>1 DEF ConfigReads
<1>5. /\ request' = [request EXCEPT ![r] = v] /\ props' = Ensured(props)
      /\ rw' = [rw EXCEPT !["config"].readers[r] = n]
    BY DEF Load, ReadLocked, Locking, ReadersCounted
<1>6. n = ConfigReads(v) /\ StorageReads(v) = StorageReads(request[r])
    BY <1>1, <1>3 DEF ConfigReads, StorageReads, Reading
<1> HIDE DEF v, n
<1>7. /\ RwTyped' /\ rw'["config"].readers[r] = n
      /\ \A q \in Request \ {r} : rw'["config"].readers[q] = rw["config"].readers[q]
      /\ \A k \in Lock \ {"config"} : rw'[k] = rw[k]
      /\ \A k \in Lock : rw'[k].writer = rw[k].writer
    BY <1>1, <1>4, <1>5, ReadersUpdate DEF Locking
<1>8. \A k \in Lock : rw[k].writer # Nobody => rw'[k].readers[r] <= rw[k].readers[r]
    BY <1>1, <1>7 DEF Locking, RwTyped
<1>9. \A k \in Lock, q \in Request \ {r} : rw'[k].readers[q] = rw[k].readers[q]
    BY <1>7
<1>10. rw'["storage"].readers[r] = StorageReads(v)
    BY <1>6, <1>7 DEF Lock, Locking, ReadersCounted
<1>11. Fits(v) /\ request[r].pc \notin Holding /\ v.pc \notin Holding
    BY <1>1, <1>3 DEF Fits, Holding, Inside, Saving, Locking, OpFits
<1>12. Locking'
    BY <1>3, <1>5, <1>6, <1>7, <1>8, <1>9, <1>10, <1>11, ReaderMoves
<1> QED BY <1>2, <1>5, <1>12

(* The last read lock of a request goes; a request may keep the one it     *)
(* took first.                                                             *)
LEMMA LoadReturnsLocks ==
    ASSUME ParamsFit, Locking, NEW r \in Request, LoadReturns(r)
    PROVE  Locking' /\ request'[r].pc \in {"copy", "linked", "done"}
           /\ \A q \in Request \ {r} : request'[q] = request[q]
<1>1. /\ request[r] \in RequestState /\ request[r].pc = "loaded" /\ "config" \in Lock
      /\ rw["config"].readers[r] = ConfigReads(request[r])
      /\ rw["storage"].readers[r] = StorageReads(request[r])
    BY DEF Locking, LoadReturns, At, ReadersCounted, Lock
<1>2. /\ RwTyped' /\ \A k \in Lock : rw'[k].writer = rw[k].writer
      /\ \A k \in Lock, q \in Request \ {r} : rw'[k].readers[q] = rw[k].readers[q]
      /\ \A k \in Lock : rw'[k].readers[r] <= rw[k].readers[r]
      /\ rw'["config"].readers[r] =
             (IF request[r].op \in {"backup", "package"} THEN 1 ELSE 0)
      /\ rw'["storage"].readers[r] = 0
    <2>1. CASE request[r].op = "drives"
        <3> DEFINE w == [l \in Lock |-> [rw[l] EXCEPT !.readers[r] = 0]]
        <3>1. rw' = w
            BY <2>1 DEF LoadReturns
        <3>2. \A l \in Lock : w[l].readers = [rw[l].readers EXCEPT ![r] = 0]
                              /\ w[l].writer = rw[l].writer
            BY DEF Locking, RwTyped
        <3>3. \A l \in Lock : w[l] = [writer |-> w[l].writer, readers |-> w[l].readers]
            BY DEF Locking, RwTyped
        <3> HIDE DEF w
        <3>4. \A l \in Lock : w[l].readers \in [Request -> 0..2] /\ w[l].readers[r] = 0
                 /\ \A q \in Request \ {r} : w[l].readers[q] = rw[l].readers[q]
            <4> TAKE l \in Lock
            <4> DEFINE f == rw[l].readers
            <4>1. f \in [Request -> 0..2]
                BY DEF Locking, RwTyped
            <4>2. w[l].readers = [f EXCEPT ![r] = 0]
                BY <3>2
            <4> HIDE DEF f
            <4>3. [f EXCEPT ![r] = 0] \in [Request -> 0..2]
                BY <4>1
            <4>4. w[l].readers[r] = 0 /\ \A q \in Request \ {r} : w[l].readers[q] = f[q]
                BY <4>1, <4>2
            <4> QED BY <4>2, <4>3, <4>4 DEF f
        <3>5. w \in [Lock -> [writer : Request \cup {Nobody}, readers : [Request -> 0..2]]]
            <4>1. w = [l \in Lock |-> w[l]]
                BY DEF w
            <4>2. \A l \in Lock : w[l] \in [writer : Request \cup {Nobody}, readers : [Request -> 0..2]]
                <5> TAKE l \in Lock
                <5>1. w[l].writer \in Request \cup {Nobody}
                    BY <3>2 DEF Locking, RwTyped
                <5>2. w[l] = [writer |-> w[l].writer, readers |-> w[l].readers]
                    BY <3>3
                <5>3. w[l].readers \in [Request -> 0..2]
                    BY <3>4
                <5> QED BY <5>1, <5>2, <5>3
            <4> QED BY <4>1, <4>2
        <3> QED BY <2>1, <3>1, <3>2, <3>4, <3>5 DEF Locking, RwTyped, Lock
    <2>2. CASE request[r].op # "drives"
        <3> DEFINE n == ConfigReads(request[r]) - 1
        <3>0. n = (IF request[r].op \in {"backup", "package"} THEN 1 ELSE 0)
            BY <1>1 DEF ConfigReads, Reading
        <3>1. n \in 0..2
            BY <1>1 DEF ConfigReads, Reading
        <3>2. rw' = [rw EXCEPT !["config"].readers[r] = n]
            BY <1>1, <2>2 DEF LoadReturns, ReadUnlocked
        <3>3. StorageReads(request[r]) = 0 /\ n <= ConfigReads(request[r])
            BY <2>2 DEF StorageReads, ConfigReads
        <3> HIDE DEF n
        <3>4. /\ RwTyped' /\ rw'["config"].readers[r] = n
              /\ \A q \in Request \ {r} : rw'["config"].readers[q] = rw["config"].readers[q]
              /\ \A k \in Lock \ {"config"} : rw'[k] = rw[k]
              /\ \A k \in Lock : rw'[k].writer = rw[k].writer
            BY <1>1, <3>1, <3>2, ReadersUpdate DEF Locking
        <3> QED BY <1>1, <3>0, <3>3, <3>4 DEF Locking, RwTyped, Lock
    <2> QED BY <2>1, <2>2
<1>3. ASSUME NEW v \in RequestState, request' = [request EXCEPT ![r] = v],
             v.pc \in {"copy", "linked", "done"}, v.op = request[r].op,
             v.migrate = request[r].migrate, v.moving = {},
                v.pc = "copy" <=> v.op \in {"backup", "package"},
             v.pc = "linked" => v.op = "link"
      PROVE  Locking' /\ request'[r].pc \in {"copy", "linked", "done"}
             /\ \A q \in Request \ {r} : request'[q] = request[q]
    <2>1. Fits(v) /\ request[r].pc \notin Holding /\ v.pc \notin Holding
        BY <1>1, <1>3 DEF Locking, OpFits, Fits, Holding, Inside, Saving
    <2>2. rw'["config"].readers[r] = ConfigReads(v) /\ rw'["storage"].readers[r] = StorageReads(v)
        BY <1>2, <1>3 DEF ConfigReads, StorageReads, Reading
    <2>3. Locking'
        BY <1>2, <1>3, <2>1, <2>2, ReaderMoves
    <2> QED BY <1>3, <2>3, RequestUpdate DEF Locking
<1>4. CASE request[r].op \in {"backup", "package"} /\ Goto(r, "copy")
    <2> DEFINE v == [request[r] EXCEPT !.pc = "copy"]
    <2>1. v \in RequestState /\ v.pc = "copy" /\ v.op = request[r].op
            /\ v.migrate = request[r].migrate /\ v.moving = {}
        BY <1>1, NotMoving DEF RequestState
    <2>2. request' = [request EXCEPT ![r] = v]
        BY <1>4 DEF Goto
    <2> HIDE DEF v
    <2> QED BY <1>3, <1>4, <2>1, <2>2
<1>5. CASE request[r].op = "link" /\ Goto(r, "linked")
    <2> DEFINE v == [request[r] EXCEPT !.pc = "linked"]
    <2>1. v \in RequestState /\ v.pc = "linked" /\ v.op = request[r].op
            /\ v.migrate = request[r].migrate /\ v.moving = {}
        BY <1>1, NotMoving DEF RequestState
    <2>2. request' = [request EXCEPT ![r] = v]
        BY <1>5 DEF Goto
    <2> HIDE DEF v
    <2> QED BY <1>3, <1>5, <2>1, <2>2
<1>6. CASE request[r].op \in {"load", "drives"} /\ Answer(r)
    <2> DEFINE v == [Waiting EXCEPT !.pc = "done", !.op = request[r].op,
                                    !.migrate = request[r].migrate]
    <2>1. v \in RequestState /\ v.pc = "done" /\ v.op = request[r].op
            /\ v.migrate = request[r].migrate /\ v.moving = {}
        BY <1>1, WaitingType DEF RequestState, Waiting
    <2>2. request' = [request EXCEPT ![r] = v]
        BY <1>6 DEF Answer
    <2> HIDE DEF v
    <2> QED BY <1>3, <1>6, <2>1, <2>2
<1> QED BY <1>4, <1>5, <1>6 DEF LoadReturns

LEMMA CopyFirstLocks ==
    ASSUME ParamsFit, Locking, props \in Props, NEW r \in Request, CopyFirst(r)
    PROVE  Locking'
<1> DEFINE v == [request[r] EXCEPT !.pc = "copying", !.seen = props]
<1>1. request[r] \in RequestState /\ request[r].pc = "copy"
    BY DEF Locking, CopyFirst, At
<1>2. v \in RequestState /\ v.pc = "copying" /\ v.op = request[r].op
      /\ v.migrate = request[r].migrate /\ v.moving = {}
    BY <1>1, NotMoving DEF RequestState
<1>3. request' = [request EXCEPT ![r] = v] /\ rw' = rw
    BY DEF CopyFirst
<1> HIDE DEF v
<1>4. /\ ConfigReads(v) = ConfigReads(request[r])
      /\ StorageReads(v) = StorageReads(request[r])
    BY <1>1, <1>2 DEF ConfigReads, StorageReads, Reading
<1>5. /\ RwTyped' /\ rw'["config"].readers[r] = ConfigReads(v)
      /\ rw'["storage"].readers[r] = StorageReads(v)
    BY <1>3, <1>4 DEF Locking, RwTyped, ReadersCounted
<1>6. \A k \in Lock : rw'[k].readers[r] <= rw[k].readers[r]
    BY <1>3 DEF Locking, RwTyped
<1>7. Fits(v) /\ request[r].pc \notin Holding /\ v.pc \notin Holding
    BY <1>1, <1>2 DEF Fits, Holding, Inside, Saving, Locking, OpFits
<1> QED BY <1>2, <1>3, <1>5, <1>6, <1>7, ReaderMoves

LEMMA CopyRestLocks ==
    ASSUME ParamsFit, Locking, NEW r \in Request, CopyRest(r)
    PROVE  Locking' /\ request'[r].pc = "done"
           /\ \A q \in Request \ {r} : request'[q] = request[q]
<1> DEFINE v == [Waiting EXCEPT !.pc = "done", !.op = request[r].op,
                                !.migrate = request[r].migrate]
           n == 0
<1>1. /\ request[r] \in RequestState /\ request[r].pc = "copying" /\ "config" \in Lock
      /\ request[r].op \in {"backup", "package"} /\ n \in 0..2
    BY DEF Locking, CopyRest, At, OpFits, Fits, Lock
<1>2. v \in RequestState /\ v.pc = "done" /\ v.op = request[r].op /\ v.migrate = request[r].migrate /\ v.moving = {}
    BY <1>1, WaitingType DEF RequestState, Waiting
<1>3. request' = [request EXCEPT ![r] = v] /\ rw' = [rw EXCEPT !["config"].readers[r] = n]
    BY DEF CopyRest, Answer
<1>4. n = ConfigReads(v) /\ StorageReads(v) = 0 /\ StorageReads(request[r]) = 0
    BY <1>1, <1>2 DEF ConfigReads, StorageReads, Reading
<1>5. n <= rw["config"].readers[r]
    BY <1>1 DEF Locking, RwTyped
<1> HIDE DEF v, n
<1>6. /\ RwTyped' /\ rw'["config"].readers[r] = n
      /\ \A q \in Request \ {r} : rw'["config"].readers[q] = rw["config"].readers[q]
      /\ \A k \in Lock \ {"config"} : rw'[k] = rw[k]
      /\ \A k \in Lock : rw'[k].writer = rw[k].writer
    BY <1>1, <1>3, ReadersUpdate DEF Locking
<1>7. \A k \in Lock : rw'[k].readers[r] <= rw[k].readers[r]
    <2> SUFFICES ASSUME NEW k \in Lock PROVE rw'[k].readers[r] <= rw[k].readers[r]
        OBVIOUS
    <2>1. rw[k].readers[r] \in 0..2
        BY DEF Locking, RwTyped
    <2> QED BY <1>5, <1>6, <2>1
<1>8. \A k \in Lock, q \in Request \ {r} : rw'[k].readers[q] = rw[k].readers[q]
    BY <1>6
<1>9. rw'["storage"].readers[r] = StorageReads(v)
    BY <1>4, <1>6 DEF Lock, Locking, ReadersCounted
<1>10. Fits(v) /\ request[r].pc \notin Holding /\ v.pc \notin Holding
    BY <1>1, <1>2 DEF Locking, OpFits, Fits, Holding, Inside, Saving
<1>11. Locking'
    BY <1>2, <1>3, <1>4, <1>6, <1>7, <1>8, <1>9, <1>10, ReaderMoves
<1> QED BY <1>2, <1>3, <1>11, RequestUpdate DEF Locking

LEMMA CrashLocks == ParamsFit /\ Locking /\ Crash => Locking'
<1> SUFFICES ASSUME ParamsFit, Locking, Crash PROVE Locking'
    OBVIOUS
<1>1. Waiting \in RequestState /\ [Waiting EXCEPT !.pc = "done"] \in RequestState
    BY WaitingType DEF RequestState
<1>2. \A r \in Request : request'[r] \in RequestState /\ request'[r].pc \in {"idle", "done"} /\ ~request'[r].migrate
                        /\ request'[r].moving = {}
    BY <1>1 DEF Crash, Waiting
<1>3. request' \in [Request -> RequestState]
    BY <1>2 DEF Crash
<1>4. /\ RwTyped' /\ \A l \in Lock : rw'[l].writer = Nobody
      /\ \A l \in Lock, q \in Request : rw'[l].readers[q] = 0
    BY DEF Crash, Unlocked, RwTyped
<1>5. OpFits'
    BY <1>2 DEF OpFits, Fits, Holding, Inside, Saving
<1>6. ReadersCounted'
    BY <1>2, <1>4 DEF ReadersCounted, ConfigReads, StorageReads, Reading, Lock
<1>7. WriterHolds'
    BY <1>2, <1>4 DEF WriterHolds, Holding, Inside, Saving, ParamsFit
<1>8. WriterAlone'
    BY <1>2 DEF WriterAlone, Inside, Saving
<1> QED BY <1>3, <1>4, <1>5, <1>6, <1>7, <1>8 DEF Locking

(* The files and what the requests know of them. *)
Files ==
    /\ props \in Props /\ stored \in [Path -> SUBSET Entry]
    /\ bundles \in [{"backup", "package"} -> Props]
    /\ faults \in 0..MaxFaults /\ outside \in OutsideState /\ torn \in SUBSET Request
    /\ respelled \in BOOLEAN /\ unfilled \in BOOLEAN
    /\ KeyIsRead /\ ExportIsSnapshot /\ Movable /\ DataNeverLost /\ PlaceholderExplained

LEMMA Halves == IInv <=> ParamsFit /\ Locking /\ Files
BY TypeParts DEF IInv, Locking, Files

LEMMA HalvesNext == ParamsFit' /\ Locking' /\ Files' => IInv'
BY DEF IInv, Locking, Files, TypeOK, RwTyped, RequestState, OutsideState

(* The step of r leaves the other requests alone. *)
Alone(r) == \A q \in Request \ {r} : request'[q] = request[q]

LEMMA NobodyReads ==
    ASSUME ParamsFit, Locking, NEW r \in Request, request[r].pc \in Inside,
           LockOf(request[r].op) = "config"
    PROVE  /\ \A q \in Request : request[q].pc \notin Reading
           /\ \A q \in Request \ {r} : request[q].pc # "moving"
<1>1. \A q \in Request : request[q].pc \notin Reading
    <2> SUFFICES ASSUME NEW q \in Request, request[q].pc \in Reading PROVE FALSE
        OBVIOUS
    <2>1. ConfigReads(request[q]) = 0
        BY DEF Locking, WriterAlone, ReadersCounted
    <2>2. request[q].pc \in {"copy", "copying"} => request[q].op \in {"backup", "package"}
        BY DEF Locking, OpFits, Fits
    <2> QED BY <2>1, <2>2 DEF ConfigReads, Reading
<1>2. \A q \in Request \ {r} : request[q].pc # "moving"
    <2> SUFFICES ASSUME NEW q \in Request \ {r}, request[q].pc = "moving" PROVE FALSE
        OBVIOUS
    <2>1. LockOf(request[q].op) = "config"
        BY DEF Locking, OpFits, Fits, Saving, LockOf
    <2> QED BY <2>1 DEF Locking, WriterHolds, Holding, Inside, Saving, Lock
<1> QED BY <1>1, <1>2

(* A step of a request that leaves the files alone. *)
LEMMA FilesStay ==
    ASSUME ParamsFit, Locking, Files, NEW r \in Request, Alone(r),
           UNCHANGED <<props, stored, bundles>>, faults' \in 0..MaxFaults, faults' >= faults,
           Noted,
           request'[r].pc \in Reading => request[r].pc \in Reading /\ request'[r].pc # "copying",
           request'[r].pc # "moving"
    PROVE  Files'
<1>1. respelled' \in BOOLEAN
    BY DEF Files, Props
<1>2. KeyIsRead'
    BY DEF Files, KeyIsRead, Alone
<1>3. ExportIsSnapshot'
    BY DEF Files, ExportIsSnapshot, Alone, At, Reading
<1>4. Movable'
    BY DEF Files, Movable, Alone
<1>5. DataNeverLost'
    BY DEF Files, DataNeverLost
<1>6. PlaceholderExplained'
    BY DEF Files, PlaceholderExplained, KeySurvivesImport
<1> QED BY <1>1, <1>2, <1>3, <1>4, <1>5, <1>6 DEF Files

(* A writer inside the configuration's lock changes the property files. *)
LEMMA FilesWritten ==
    ASSUME ParamsFit, Locking, Files, NEW r \in Request, Alone(r),
           request[r].pc \in Inside, LockOf(request[r].op) = "config",
           request'[r].pc \notin Reading, request'[r].pc # "moving",
           UNCHANGED <<stored, bundles>>, faults' \in 0..MaxFaults, faults' >= faults,
           props' \in Props, Noted,
           props'.key = "redacted" => respelled' \/ unfilled'
    PROVE  Files'
<1>1. respelled' \in BOOLEAN /\ (respelled => respelled') /\ (props'.odd => respelled')
    BY DEF Files, Props
<1>2. KeyIsRead' /\ ExportIsSnapshot'
    BY NobodyReads DEF KeyIsRead, ExportIsSnapshot, Alone, At, Reading
<1>3. Movable'
    BY DEF Files, Movable, Alone
<1>4. DataNeverLost'
    BY DEF Files, DataNeverLost
<1>5. PlaceholderExplained'
    <2>1. faults > 0 => faults' > 0
        BY DEF Files
    <2> QED BY <1>1, <2>1 DEF Files, PlaceholderExplained, KeySurvivesImport
<1> QED BY <1>1, <1>2, <1>3, <1>4, <1>5 DEF Files

(* A writer moves an entry, or says what it will move. *)
LEMMA EntriesMoved ==
    ASSUME ParamsFit, Locking, Files, NEW r \in Request, Alone(r),
           request[r].pc \in Inside, LockOf(request[r].op) = "config",
           request'[r].pc = "moving",
           UNCHANGED <<props, bundles>>, faults' \in 0..MaxFaults, faults' >= faults,
           stored' \in [Path -> SUBSET Entry], Noted,
           /\ request'[r].from \in Path /\ request'[r].path \in Path
           /\ request'[r].from # request'[r].path
           /\ request'[r].todo \cup request'[r].moving \subseteq stored'[request'[r].from]
           /\ request'[r].todo \cap request'[r].moving = {}
           /\ request'[r].moving = {} \/ \E e \in Entry : request'[r].moving = {e},
           \A e \in Entry : (\E p \in Path : e \in stored[p]) => \E p \in Path : e \in stored'[p]
    PROVE  Files'
<1>1. respelled' \in BOOLEAN
    BY DEF Files, Props
<1>2. KeyIsRead' /\ ExportIsSnapshot'
    BY NobodyReads DEF KeyIsRead, ExportIsSnapshot, Alone, At, Reading
<1>3. Movable'
    BY NobodyReads DEF Movable, Alone
<1>4. DataNeverLost'
    BY DEF Files, DataNeverLost
<1>5. PlaceholderExplained'
    BY DEF Files, PlaceholderExplained, KeySurvivesImport
<1> QED BY <1>1, <1>2, <1>3, <1>4, <1>5 DEF Files

LEMMA InitIInv == ParamsFit /\ Init => IInv
<1> SUFFICES ASSUME ParamsFit, Init PROVE IInv
    OBVIOUS
<1>1. NoProps \in Props /\ Waiting \in RequestState
    BY WaitingType
<1>2. props \in Props /\ ~props.odd /\ props.key \in {"template", "real"}
    <2>1. CASE props = [NoProps EXCEPT !.key = "template"]
        BY <2>1, <1>1 DEF NoProps, Props
    <2>2. CASE \E p \in Path : props = [NoProps EXCEPT !.key = "real", !.legacy = p]
        BY <2>2, <1>1 DEF NoProps, ParamsFit, Props, SomePath
    <2> QED BY <2>1, <2>2 DEF Init
<1>3. props.legacy \in SomePath
    BY <1>2 DEF Props
<1>4. stored \in [Path -> SUBSET Entry] /\ DataNeverLost
    BY <1>3 DEF Init, DataNeverLost, ParamsFit, SomePath
<1>5. \A r \in Request : request[r] \in RequestState /\ request[r].pc = "idle" /\ ~request[r].migrate
                       /\ request[r].moving = {}
    BY <1>1 DEF Init, Waiting
<1>6. request \in [Request -> RequestState]
    BY <1>1 DEF Init
<1>7. /\ RwTyped /\ \A l \in Lock : rw[l].writer = Nobody
      /\ \A l \in Lock, q \in Request : rw[l].readers[q] = 0
    <2>1. rw = [l \in Lock |-> Unlocked]
        BY DEF Init
    <2>2. Unlocked \in [writer : Request \cup {Nobody}, readers : [Request -> 0..2]]
          /\ Unlocked.writer = Nobody /\ \A q \in Request : Unlocked.readers[q] = 0
        BY DEF Unlocked
    <2> QED BY <2>1, <2>2 DEF RwTyped
<1>8. Locking
    <2>1. OpFits
        BY <1>5 DEF OpFits, Fits, Holding, Inside, Saving
    <2>2. ReadersCounted
        BY <1>5, <1>7 DEF ReadersCounted, ConfigReads, StorageReads, Reading, Lock
    <2>3. WriterHolds /\ WriterAlone
        BY <1>5, <1>7 DEF WriterHolds, WriterAlone, Holding, Inside, Saving, ParamsFit
    <2> QED BY <1>6, <1>7, <2>1, <2>2, <2>3 DEF Locking
<1>9. Files
    <2>1. bundles \in [{"backup", "package"} -> Props] /\ \A b \in {"backup", "package"} : bundles[b] = NoProps
        BY <1>1 DEF Init
    <2>2. KeyIsRead /\ ExportIsSnapshot /\ Movable
        BY <1>5 DEF KeyIsRead, ExportIsSnapshot, Movable, At, Reading
    <2>3. PlaceholderExplained
        BY <1>2, <2>1 DEF PlaceholderExplained, KeySurvivesImport, NoProps
    <2>4. /\ faults \in 0..MaxFaults /\ outside \in OutsideState /\ torn \in SUBSET Request
          /\ respelled \in BOOLEAN /\ unfilled \in BOOLEAN
        <3>1. /\ faults = 0 /\ outside = Absent /\ torn = {}
              /\ respelled = FALSE /\ unfilled = FALSE
            BY DEF Init
        <3>2. 0 \in 0..MaxFaults /\ Absent \in OutsideState
            BY DEF ParamsFit, Absent, OutsideState, SomePath
        <3> QED BY <3>1, <3>2
    <2> QED BY <1>2, <1>4, <2>1, <2>2, <2>3, <2>4 DEF Files
<1> QED BY <1>8, <1>9, Halves

LEMMA FaultMore ==
    ASSUME ParamsFit, faults \in 0..MaxFaults
    PROVE  /\ faults >= faults /\ (faults < MaxFaults => faults + 1 \in 0..MaxFaults)
           /\ faults + 1 >= faults /\ faults + 1 > 0
BY DEF ParamsFit

LEMMA StepIInv == IInv /\ [Next]_vars => IInv'
<1> SUFFICES ASSUME IInv, [Next]_vars PROVE IInv'
    OBVIOUS
<1>1. /\ ParamsFit /\ ParamsFit' /\ Locking /\ Files /\ faults \in Nat /\ faults \in 0..MaxFaults
      /\ \A r \in Request : request[r] \in RequestState
    BY Halves DEF ParamsFit, Files, Locking
<1>2. ASSUME NEW r \in Request, NEW op \in Op, BeginRead(r, op),
             Noted
      PROVE  IInv'
    <2>1. Locking'
        BY <1>1, <1>2, BeginReadLocks
    <2>2. Alone(r) /\ request'[r].pc = "lock"
        BY <1>1, <1>2 DEF BeginRead, Alone, Locking
    <2>3. UNCHANGED <<props, stored, bundles, faults>>
        BY <1>2 DEF BeginRead
    <2>4. Files'
        BY <1>1, <1>2, <2>2, <2>3, FilesStay DEF Reading
    <2> QED BY <1>1, <2>1, <2>4, HalvesNext
<1>3. ASSUME NEW r \in Request, NEW op \in Op, BeginNestedRead(r, op),
             Noted
      PROVE  IInv'
    <2>1. Locking'
        BY <1>1, <1>3, BeginNestedReadLocks
    <2>2. Alone(r) /\ request'[r].pc = "lock"
        BY <1>1, <1>3 DEF BeginNestedRead, Alone, Locking
    <2>3. UNCHANGED <<props, stored, bundles, faults>>
        BY <1>3 DEF BeginNestedRead
    <2>4. Files'
        BY <1>1, <1>3, <2>2, <2>3, FilesStay DEF Reading
    <2> QED BY <1>1, <2>1, <2>4, HalvesNext
<1>4. ASSUME NEW r \in Request, NEW op \in Writes, NEW p \in SomePath, NEW m \in BOOLEAN,
             m => op = "save" /\ p \in Path,
             BeginWrite(r, op, p, m), Noted
      PROVE  IInv'
    <2> DEFINE v == [request[r] EXCEPT !.op = op, !.pc = "announced", !.path = p, !.migrate = m]
    <2>1. v \in RequestState /\ v.pc = "announced" /\ v.op = op /\ v.migrate = m /\ v.path = p /\ v.moving = {}
          /\ request[r].pc = "idle"
        BY <1>1, <1>4, NotMoving DEF RequestState, BeginWrite, At, Writes, Op
    <2>2. request' = [request EXCEPT ![r] = v] /\ Announce(r, LockOf(op))
          /\ UNCHANGED <<props, stored, bundles, faults>>
        BY <1>4 DEF BeginWrite
    <2> HIDE DEF v
    <2>3. Locking'
        BY <1>1, <1>4, <2>1, <2>2, Announces
    <2>4. Alone(r) /\ request'[r].pc = "announced"
        BY <1>1, <2>1, <2>2 DEF Alone, Locking
    <2>5. Files'
        BY <1>1, <1>4, <2>2, <2>4, FilesStay DEF Reading
    <2> QED BY <1>1, <2>3, <2>5, HalvesNext
<1>5. ASSUME NEW r \in Request, SaveLinked(r), Noted
      PROVE  IInv'
    <2> DEFINE v == [request[r] EXCEPT !.pc = "announced", !.path = EffectivePath(request[r].seen)]
    <2>1. EffectivePath(request[r].seen) \in SomePath
        BY <1>1 DEF EffectivePath, RequestState, Props, SomePath, ParamsFit
    <2>2. /\ v \in RequestState /\ v.pc = "announced" /\ v.op = request[r].op
          /\ request[r].pc = "linked" /\ v.migrate = request[r].migrate /\ v.moving = {}
        BY <1>1, <1>5, <2>1, NotMoving DEF RequestState, SaveLinked, At
    <2>3. request[r].op = "link" /\ LockOf(v.op) = "config" /\ v.op \in Writes /\ ~v.migrate
        BY <1>1, <2>2 DEF Locking, OpFits, Fits, LockOf, Writes
    <2>4. request' = [request EXCEPT ![r] = v] /\ Announce(r, LockOf(v.op))
          /\ UNCHANGED <<props, stored, bundles, faults>>
        BY <1>5, <2>3 DEF SaveLinked
    <2> HIDE DEF v
    <2>5. Locking'
        BY <1>1, <2>2, <2>3, <2>4, Announces
    <2>6. Alone(r) /\ request'[r].pc = "announced"
        BY <1>1, <2>2, <2>4 DEF Alone, Locking
    <2>7. Files'
        BY <1>1, <1>5, <2>4, <2>6, FilesStay DEF Reading
    <2> QED BY <1>1, <2>5, <2>7, HalvesNext
<1>6. ASSUME NEW r \in Request, Load(r), Noted
      PROVE  IInv'
    <2>1. Locking' /\ props' \in Props
        BY <1>1, <1>6, LoadLocks DEF Files
    <2>2. Alone(r) /\ request'[r].pc = "loaded"
        BY <1>1, <1>6 DEF Load, Alone, Locking
    <2>3. UNCHANGED <<stored, bundles, faults>> /\ props' = Ensured(props)
        BY <1>6 DEF Load
    <2>4. /\ props'.key # "absent" /\ (props.key # "absent" => props' = props)
          /\ props'.odd = props.odd /\ (props'.key = "redacted" => props.key = "redacted")
        BY <1>1, <2>3 DEF Ensured, Files, Props
    <2>5. respelled' = respelled
        BY <1>1, <1>6, <2>4 DEF Files, PlaceholderExplained
    <2>6. KeyIsRead' /\ ExportIsSnapshot'
        BY <1>1, <1>6, <2>2, <2>4 DEF Files, KeyIsRead, ExportIsSnapshot, Alone, At, Reading
    <2>7. Movable' /\ DataNeverLost'
        BY <1>1, <2>2, <2>3 DEF Files, Movable, DataNeverLost, Alone
    <2>8. PlaceholderExplained'
        BY <1>1, <1>6, <2>3, <2>4, <2>5 DEF Files, PlaceholderExplained, KeySurvivesImport
    <2>9. Files'
        BY <1>1, <1>6, <2>1, <2>3, <2>5, <2>6, <2>7, <2>8 DEF Files
    <2> QED BY <1>1, <2>1, <2>9, HalvesNext
<1>7. ASSUME NEW r \in Request, LoadReturns(r), Noted
      PROVE  IInv'
    <2>1. Locking' /\ request'[r].pc \in {"copy", "linked", "done"} /\ Alone(r)
        BY <1>1, <1>7, LoadReturnsLocks DEF Alone
    <2>2. UNCHANGED <<props, stored, bundles, faults>> /\ request[r].pc = "loaded"
        BY <1>7 DEF LoadReturns, At
    <2>3. Files'
        BY <1>1, <1>7, <2>1, <2>2, FilesStay DEF Reading
    <2> QED BY <1>1, <2>1, <2>3, HalvesNext
<1>8. ASSUME NEW r \in Request, CopyFirst(r), Noted
      PROVE  IInv'
    <2>1. Locking'
        BY <1>1, <1>8, CopyFirstLocks DEF Files
    <2>2. /\ Alone(r) /\ request'[r].pc = "copying" /\ request'[r].seen = props
          /\ request[r].pc = "copy"
        BY <1>1, <1>8 DEF CopyFirst, Alone, Locking, At, RequestState
    <2>3. UNCHANGED <<props, stored, bundles, faults>>
        BY <1>8 DEF CopyFirst
    <2>4. respelled' = respelled
        BY <1>1, <1>8, <2>3 DEF Files, PlaceholderExplained, Props
    <2>5. KeyIsRead'
        BY <1>1, <2>2, <2>3 DEF Files, KeyIsRead, Alone, Reading
    <2>6. ExportIsSnapshot'
        BY <1>1, <1>8, <2>2, <2>3 DEF Files, ExportIsSnapshot, Alone, At
    <2>7. Movable' /\ DataNeverLost'
        BY <1>1, <2>2, <2>3 DEF Files, Movable, DataNeverLost, Alone
    <2>8. PlaceholderExplained'
        BY <1>1, <1>8, <2>3, <2>4 DEF Files, PlaceholderExplained, KeySurvivesImport
    <2>9. Files'
        BY <1>1, <1>8, <2>3, <2>4, <2>5, <2>6, <2>7, <2>8 DEF Files
    <2> QED BY <1>1, <2>1, <2>9, HalvesNext
<1>9. ASSUME NEW r \in Request, CopyRest(r), Noted
      PROVE  IInv'
    <2>1. Locking' /\ request'[r].pc = "done" /\ Alone(r)
        BY <1>1, <1>9, CopyRestLocks DEF Alone
    <2>2. UNCHANGED <<props, stored, faults>> /\ request[r].pc = "copying"
        BY <1>9 DEF CopyRest, At
    <2>a. PICK first \in SUBSET File :
              bundles' = [bundles EXCEPT ![request[r].op] =
                              IF request[r].op = "backup"
                              THEN Redacted(Replaced(request[r].seen, first))
                              ELSE Replaced(request[r].seen, first)]
        BY <1>9 DEF CopyRest
    <2> DEFINE all == Replaced(request[r].seen, first)
    <2>b. /\ request[r].seen \in Props /\ props \in Props
          /\ request[r].seen.key = props.key /\ request[r].seen.odd = props.odd
        BY <1>1, <2>2 DEF Files, RequestState, ExportIsSnapshot, At
    <2>3. /\ all \in Props /\ all.key = props.key /\ all.odd = props.odd
          /\ Redacted(all) \in Props /\ Redacted(all).odd = props.odd
        BY <2>b DEF Props, Redacted, Replaced
    <2>4. bundles' = [bundles EXCEPT ![request[r].op] =
                          IF request[r].op = "backup" THEN Redacted(all) ELSE all]
          /\ request[r].op \in {"backup", "package"}
        BY <1>1, <2>a, <2>2 DEF Locking, OpFits, Fits
    <2> HIDE DEF all
    <2>5. bundles' \in [{"backup", "package"} -> Props]
        BY <1>1, <2>3, <2>4 DEF Files
    <2>6. respelled' = respelled
        BY <1>1, <1>9, <2>2 DEF Files, PlaceholderExplained, Props
    <2>7. KeyIsRead' /\ ExportIsSnapshot' /\ Movable' /\ DataNeverLost'
        BY <1>1, <1>9, <2>1, <2>2 DEF Files, KeyIsRead, ExportIsSnapshot, Movable, DataNeverLost,
                                Alone, At, Reading
    <2>8. PlaceholderExplained'
        <3>1. \A b \in {"backup", "package"} : bundles'[b].odd => respelled
            BY <1>1, <2>3, <2>4 DEF Files, PlaceholderExplained
        <3>2. bundles'["package"].key = "redacted" => respelled \/ unfilled
            BY <1>1, <2>3, <2>4 DEF Files, PlaceholderExplained, KeySurvivesImport
        <3> QED BY <1>1, <1>9, <2>2, <2>6, <3>1, <3>2 DEF Files, PlaceholderExplained, KeySurvivesImport
    <2>9. Files'
        BY <1>1, <1>9, <2>2, <2>5, <2>6, <2>7, <2>8 DEF Files
    <2> QED BY <1>1, <2>1, <2>9, HalvesNext
<1>10. ASSUME NEW r \in Request, request[r].pc \in Holding,
              NEW v \in RequestState, v.pc \in Inside \ {"moving"}, v.op = request[r].op,
              v.migrate = request[r].migrate, v.path = request[r].path, v.moving = {},
              v.pc \in Saving => v.op \in {"save", "link"},
              request[r].pc = "announced" =>
                  \A q \in Request : rw[LockOf(request[r].op)].readers[q] = 0,
              request' = [request EXCEPT ![r] = v],
              UNCHANGED <<props, stored, rw, bundles, faults>>,
              Noted
       PROVE  IInv'
    <2>1. Locking'
        BY <1>1, <1>10, StaysInside
    <2>2. Alone(r) /\ request'[r].pc = v.pc
        BY <1>1, <1>10, RequestUpdate DEF Alone, Locking
    <2>3. Files'
        BY <1>1, <1>10, <2>2, FilesStay DEF Reading, Inside, Saving
    <2> QED BY <1>1, <2>1, <2>3, HalvesNext
<1>11. ASSUME NEW r \in Request, Acquire(r), Noted
       PROVE  IInv'
    <2> DEFINE v == [request[r] EXCEPT !.pc = "writing"]
    <2>1. v \in RequestState /\ v.pc = "writing" /\ v.op = request[r].op
          /\ v.migrate = request[r].migrate /\ v.path = request[r].path /\ v.moving = {}
        BY <1>1, <1>11, NotMoving DEF RequestState, Acquire, At
    <2>2. request' = [request EXCEPT ![r] = v] /\ UNCHANGED <<props, stored, rw, bundles, faults>>
        BY <1>11 DEF Acquire, Goto
    <2>3. request[r].pc = "announced"
          /\ \A q \in Request : rw[LockOf(request[r].op)].readers[q] = 0
        BY <1>11 DEF Acquire, At
    <2> HIDE DEF v
    <2> QED BY <1>10, <1>11, <2>1, <2>2, <2>3 DEF Holding, Inside, Saving
<1>12. ASSUME NEW r \in Request, Moved(r), Noted
       PROVE  IInv'
    <2> DEFINE v == [request[r] EXCEPT !.pc = "manager"]
    <2>1. v \in RequestState /\ v.pc = "manager" /\ v.op = request[r].op
          /\ v.migrate = request[r].migrate /\ v.path = request[r].path /\ v.moving = {}
        BY <1>1, <1>12 DEF RequestState, Moved
    <2>2. request' = [request EXCEPT ![r] = v] /\ UNCHANGED <<props, stored, rw, bundles, faults>>
        BY <1>12 DEF Moved, Goto
    <2>3. request[r].pc = "moving" /\ request[r].op \in {"save", "link"}
        BY <1>1, <1>12 DEF Moved, At, Locking, OpFits, Fits, Saving
    <2> HIDE DEF v
    <2> QED BY <1>10, <1>12, <2>1, <2>2, <2>3 DEF Holding, Inside, Saving
<1>13. ASSUME NEW r \in Request, NEW v \in RequestState, LockOf(request[r].op) = "config",
              request[r].pc \in Inside, v.pc = "moving", v.op = request[r].op,
              v.migrate = request[r].migrate, v.path = request[r].path,
              v.op \in {"save", "link"}, request' = [request EXCEPT ![r] = v],
              UNCHANGED <<props, rw, bundles>>, faults' \in 0..MaxFaults, faults' >= faults,
              stored' \in [Path -> SUBSET Entry], Noted,
              v.from \in Path, v.path \in Path, v.from # v.path,
              v.todo \cup v.moving \subseteq stored'[v.from],
              v.todo \cap v.moving = {}, v.moving = {} \/ \E e \in Entry : v.moving = {e},
              \A e \in Entry : (\E p \in Path : e \in stored[p]) => \E p \in Path : e \in stored'[p]
       PROVE  IInv'
    <2>1. Locking'
        BY <1>1, <1>13, StaysInside DEF Holding, Inside, Saving
    <2>2. Alone(r) /\ request'[r] = v
        BY <1>1, <1>13, RequestUpdate DEF Alone, Locking
    <2>3. Files'
        BY <1>1, <1>13, <2>2, EntriesMoved
    <2> QED BY <1>1, <2>1, <2>3, HalvesNext
<1>14. ASSUME NEW r \in Request, SaveNodeConfig(r), Noted
       PROVE  IInv'
    <2> DEFINE from == IF props.legacy # NoPath THEN props.legacy ELSE DefaultPath
    <2>1. /\ request[r].pc = "writing" /\ request[r].op \in {"save", "link"}
          /\ LockOf(request[r].op) = "config"
        BY <1>14 DEF SaveNodeConfig, At, LockOf
    <2>2. from \in Path
        BY <1>1 DEF Files, Props, SomePath, ParamsFit
    <2>3. UNCHANGED <<props, stored, rw, bundles, faults>>
        BY <1>14 DEF SaveNodeConfig
    <2>4. CASE request[r].migrate /\ from # request[r].path
        <3> DEFINE v == [request[r] EXCEPT !.pc = "moving", !.from = from, !.todo = stored[from]]
        <3>1. request' = [request EXCEPT ![r] = v]
            BY <1>14, <2>4 DEF SaveNodeConfig
        <3>2. request[r].path \in Path /\ request[r].migrate
            BY <1>1, <2>1, <2>4 DEF Locking, OpFits, Fits, Holding, Inside
        <3>3. request[r].moving = {}
            BY <1>1, <2>1, NotMoving
        <3>4. stored[from] \in SUBSET Entry /\ from \in SomePath
            BY <1>1, <2>2 DEF Files, SomePath
        <3>5. v \in RequestState
            BY <1>1, <3>4 DEF RequestState
        <3>6. /\ v.pc = "moving" /\ v.op = request[r].op /\ v.migrate = request[r].migrate
              /\ v.path = request[r].path /\ v.from = from /\ v.todo = stored[from]
              /\ v.moving = {}
            BY <1>1, <3>3 DEF RequestState
        <3> HIDE DEF v, from
        <3>7. /\ faults' = faults /\ faults' \in 0..MaxFaults /\ faults' >= faults
              /\ stored' = stored /\ stored' \in [Path -> SUBSET Entry]
            BY <1>1, <2>3 DEF Files
        <3>8. v.todo \cup v.moving \subseteq stored'[v.from]
            BY <3>6, <3>7
        <3> QED BY <1>13, <1>14, <2>1, <2>2, <2>3, <2>4, <3>1, <3>2, <3>5, <3>6, <3>7, <3>8
                DEF Inside
    <2>5. CASE ~(request[r].migrate /\ from # request[r].path)
        <3> DEFINE v == [request[r] EXCEPT !.pc = "manager"]
        <3>1. v \in RequestState /\ v.pc = "manager" /\ v.op = request[r].op
          /\ v.migrate = request[r].migrate /\ v.path = request[r].path /\ v.moving = {}
            BY <1>1, <2>1, NotMoving DEF RequestState
        <3>2. request' = [request EXCEPT ![r] = v]
            BY <1>14, <2>5 DEF SaveNodeConfig, Goto
        <3> HIDE DEF v
        <3> QED BY <1>10, <1>14, <2>1, <2>3, <3>1, <3>2 DEF Holding, Inside, Saving
    <2> QED BY <2>4, <2>5
<1>15. ASSUME NEW r \in Request, request[r].pc = "moving"
       PROVE  /\ request[r].op \in {"save", "link"} /\ LockOf(request[r].op) = "config"
              /\ request[r].pc \in Inside
              /\ request[r].from \in Path /\ request[r].path \in Path
              /\ request[r].from # request[r].path
              /\ request[r].todo \cup request[r].moving \subseteq stored[request[r].from]
              /\ stored[request[r].from] \subseteq Entry /\ stored[request[r].path] \subseteq Entry
              /\ request[r].todo \cap request[r].moving = {}
              /\ request[r].moving = {} \/ \E e \in Entry : request[r].moving = {e}
    BY <1>1, <1>15 DEF Locking, OpFits, Fits, Saving, Inside, LockOf, Files, Movable
<1>16. ASSUME NEW r \in Request, NEW e \in Entry, MoveEntry(r, e),
              Noted
       PROVE  IInv'
    <2> DEFINE v == [request[r] EXCEPT !.todo = @ \ {e}]
               from == request[r].from
               path == request[r].path
    <2>1. /\ request[r].pc = "moving" /\ e \in request[r].todo /\ request[r].moving = {}
          /\ stored' = [stored EXCEPT ![from] = @ \ {e}, ![path] = @ \cup {e}]
          /\ request' = [request EXCEPT ![r] = v] /\ UNCHANGED <<props, rw, bundles, faults>>
        BY <1>16 DEF MoveEntry, At
    <2>2. /\ v \in RequestState /\ v.pc = "moving" /\ v.op = request[r].op
          /\ v.migrate = request[r].migrate /\ v.path = path /\ v.from = from
          /\ v.todo = request[r].todo \ {e} /\ v.moving = {}
        BY <1>1, <2>1 DEF RequestState
    <2>3. stored \in [Path -> SUBSET Entry]
        BY <1>1 DEF Files
    <2> HIDE DEF v
    <2>4. /\ stored' \in [Path -> SUBSET Entry]
          /\ stored'[from] = stored[from] \ {e} /\ stored'[path] = stored[path] \cup {e}
          /\ \A p \in Path \ {from, path} : stored'[p] = stored[p]
        BY <1>15, <2>1, <2>3
    <2>5. v.todo \cup v.moving \subseteq stored'[v.from]
        BY <1>15, <2>1, <2>2, <2>4
    <2>6. \A d \in Entry : (\E p \in Path : d \in stored[p]) => \E p \in Path : d \in stored'[p]
        BY <1>15, <2>1, <2>4
    <2>7. /\ v.from \in Path /\ v.path \in Path /\ v.from # v.path /\ v.op \in {"save", "link"}
          /\ v.todo \cap v.moving = {} /\ faults' \in 0..MaxFaults /\ faults' >= faults
        BY <1>1, <1>15, <2>1, <2>2
    <2> QED BY <1>13, <1>15, <1>16, <2>1, <2>2, <2>4, <2>5, <2>6, <2>7
<1>17. ASSUME NEW r \in Request, NEW e \in Entry, CopyEntry(r, e),
              Noted
       PROVE  IInv'
    <2> DEFINE v == [request[r] EXCEPT !.todo = @ \ {e}, !.moving = {e}]
               from == request[r].from
               path == request[r].path
    <2>1. /\ request[r].pc = "moving" /\ e \in request[r].todo /\ request[r].moving = {}
          /\ stored' = [stored EXCEPT ![path] = @ \ {e}]
          /\ request' = [request EXCEPT ![r] = v] /\ UNCHANGED <<props, rw, bundles, faults>>
        BY <1>17 DEF CopyEntry, At
    <2>2. /\ v \in RequestState /\ v.pc = "moving" /\ v.op = request[r].op
          /\ v.migrate = request[r].migrate /\ v.path = path /\ v.from = from
          /\ v.todo = request[r].todo \ {e} /\ v.moving = {e}
        BY <1>1, <2>1 DEF RequestState
    <2>3. stored \in [Path -> SUBSET Entry]
        BY <1>1 DEF Files
    <2> HIDE DEF v
    <2>4. /\ stored' \in [Path -> SUBSET Entry]
          /\ stored'[path] = stored[path] \ {e} /\ stored'[from] = stored[from]
          /\ \A p \in Path \ {path} : stored'[p] = stored[p]
        BY <1>15, <2>1, <2>3
    <2>5. v.todo \cup v.moving \subseteq stored'[v.from]
        BY <1>15, <2>1, <2>2, <2>4
    <2>6. \A d \in Entry : (\E p \in Path : d \in stored[p]) => \E p \in Path : d \in stored'[p]
        BY <1>15, <2>1, <2>4
    <2>7. /\ v.from \in Path /\ v.path \in Path /\ v.from # v.path /\ v.op \in {"save", "link"}
          /\ v.todo \cap v.moving = {} /\ faults' \in 0..MaxFaults /\ faults' >= faults
        BY <1>1, <1>15, <2>1, <2>2
    <2> QED BY <1>13, <1>15, <1>17, <2>1, <2>2, <2>4, <2>5, <2>6, <2>7
<1>18. ASSUME NEW r \in Request, EntryCopied(r), Noted
       PROVE  IInv'
    <2> DEFINE v == [request[r] EXCEPT !.moving = {}]
               from == request[r].from
               path == request[r].path
    <2>1. PICK kept \in {{}, request[r].moving} :
              /\ stored' = [stored EXCEPT ![from] = (@ \ request[r].moving) \cup kept,
                                          ![path] = @ \cup request[r].moving]
              /\ kept # {} => faults < MaxFaults
              /\ faults' = faults + Cardinality(kept)
        BY <1>18 DEF EntryCopied
    <2>2. /\ request[r].pc = "moving" /\ request' = [request EXCEPT ![r] = v]
          /\ request[r].moving # {} /\ UNCHANGED <<props, rw, bundles>>
        BY <1>18 DEF EntryCopied, At
    <2>3. PICK e \in Entry : request[r].moving = {e}
        BY <1>15, <2>2
    <2>4. faults' \in 0..MaxFaults /\ faults' >= faults
        <3>1. Cardinality({}) = 0 /\ Cardinality({e}) = 1
            BY FS_EmptySet, FS_Singleton
        <3>2. CASE kept = {}
            BY <1>1, <2>1, <3>1, <3>2 DEF ParamsFit
        <3>3. CASE kept = {e}
            BY <1>1, <2>1, <3>1, <3>3 DEF ParamsFit
        <3> QED BY <2>1, <2>3, <3>2, <3>3
    <2>5. /\ v \in RequestState /\ v.pc = "moving" /\ v.op = request[r].op
          /\ v.migrate = request[r].migrate /\ v.path = path /\ v.from = from
          /\ v.todo = request[r].todo /\ v.moving = {}
        BY <1>1, <2>2 DEF RequestState
    <2>6. stored \in [Path -> SUBSET Entry]
        BY <1>1 DEF Files
    <2>7. kept \subseteq {e}
        BY <2>1, <2>3
    <2> HIDE DEF v
    <2>8. /\ stored' \in [Path -> SUBSET Entry]
          /\ stored'[from] = (stored[from] \ {e}) \cup kept /\ stored'[path] = stored[path] \cup {e}
          /\ \A p \in Path \ {from, path} : stored'[p] = stored[p]
        <3>1. stored' = [stored EXCEPT ![from] = (stored[from] \ {e}) \cup kept,
                                       ![path] = stored[path] \cup {e}]
            BY <1>15, <2>1, <2>2, <2>3
        <3>2. (stored[from] \ {e}) \cup kept \in SUBSET Entry /\ stored[path] \cup {e} \in SUBSET Entry
            BY <1>15, <2>2, <2>7
        <3> QED BY <1>15, <2>2, <2>6, <3>1, <3>2
    <2>9. v.todo \subseteq stored'[v.from]
        BY <1>1, <1>15, <2>2, <2>3, <2>5, <2>8
    <2>10. \A d \in Entry : (\E p \in Path : d \in stored[p]) => \E p \in Path : d \in stored'[p]
        BY <1>15, <2>2, <2>8
    <2>11. /\ v.from \in Path /\ v.path \in Path /\ v.from # v.path /\ v.op \in {"save", "link"}
           /\ v.todo \cap v.moving = {} /\ v.todo \cup v.moving \subseteq stored'[v.from]
        BY <1>15, <2>2, <2>5, <2>9
    <2> QED BY <1>13, <1>15, <1>18, <2>2, <2>4, <2>5, <2>8, <2>10, <2>11
<1>19. ASSUME NEW r \in Request, request[r].pc \in Inside, WriteUnlock(r),
              LockOf(request[r].op) = "config",
              UNCHANGED <<stored, bundles>>, faults' \in 0..MaxFaults, faults' >= faults,
              props' \in Props, Noted,
              props'.key = "redacted" => respelled' \/ unfilled'
       PROVE  IInv'
    <2>1. Locking' /\ request'[r].pc = "done" /\ Alone(r)
        BY <1>1, <1>19, LeavesLock DEF Alone
    <2>2. Files'
        BY <1>1, <1>19, <2>1, FilesWritten DEF Reading
    <2> QED BY <1>1, <2>1, <2>2, HalvesNext
<1>20. ASSUME NEW r \in Request, request[r].pc \in Inside, WriteUnlock(r),
              UNCHANGED <<props, stored, bundles>>, faults' \in 0..MaxFaults, faults' >= faults,
              Noted
       PROVE  IInv'
    <2>1. Locking' /\ request'[r].pc = "done" /\ Alone(r)
        BY <1>1, <1>20, LeavesLock DEF Alone
    <2>2. Files'
        BY <1>1, <1>20, <2>1, FilesStay DEF Reading
    <2> QED BY <1>1, <2>1, <2>2, HalvesNext
<1>21. /\ props \in Props /\ respelled \in BOOLEAN /\ (props.odd => respelled)
       /\ (props.key = "redacted" => respelled \/ unfilled)
       /\ bundles \in [{"backup", "package"} -> Props]
       /\ \A b \in {"backup", "package"} : bundles[b].odd => respelled
       /\ bundles["package"].key = "redacted" => respelled \/ unfilled
    BY <1>1 DEF Files, PlaceholderExplained, KeySurvivesImport
<1>22. ASSUME NEW r \in Request, MigrationFails(r), Noted
       PROVE  IInv'
    <2>1. /\ request[r].pc \in Inside /\ WriteUnlock(r) /\ UNCHANGED <<props, stored, bundles>>
          /\ faults' = faults + 1 /\ faults < MaxFaults
        BY <1>22 DEF MigrationFails, At, Inside, Saving
    <2>2. faults' \in 0..MaxFaults /\ faults' >= faults
        BY <1>1, <2>1, FaultMore
    <2> QED BY <1>20, <1>22, <2>1, <2>2
<1>23. ASSUME NEW r \in Request, WritesNothingHere(r), Noted
       PROVE  IInv'
    <2>1. /\ request[r].pc \in Inside /\ WriteUnlock(r)
          /\ UNCHANGED <<props, stored, bundles>> /\ faults' = faults
        BY <1>23 DEF WritesNothingHere, At, Inside
    <2> QED BY <1>1, <1>20, <1>23, <2>1
<1>24. ASSUME NEW r \in Request, request[r].pc \in Saving, NEW pc \in Saving \ {"moving"},
              Goto(r, pc), UNCHANGED <<stored, rw, bundles>>,
              faults' \in 0..MaxFaults, faults' >= faults, request[r].pc # "moving",
              props' \in Props, props'.key = props.key, props'.odd = props.odd,
              Noted
       PROVE  IInv'
    <2> DEFINE v == [request[r] EXCEPT !.pc = pc]
    <2>1. /\ v \in RequestState /\ v.pc = pc /\ v.op = request[r].op
          /\ v.migrate = request[r].migrate /\ v.path = request[r].path /\ v.moving = {}
        BY <1>1, <1>24, NotMoving DEF RequestState, Saving
    <2>2. request' = [request EXCEPT ![r] = v]
        BY <1>24 DEF Goto
    <2>3. request[r].op \in {"save", "link"} /\ LockOf(request[r].op) = "config"
        BY <1>1, <1>24 DEF Locking, OpFits, Fits, LockOf
    <2> HIDE DEF v
    <2>4. Locking'
        BY <1>1, <1>24, <2>1, <2>2, <2>3, StaysInside DEF Holding, Inside, Saving
    <2>5. Alone(r) /\ request'[r].pc = pc
        BY <1>1, <2>1, <2>2, RequestUpdate DEF Alone, Locking
    <2>6. /\ respelled' = respelled
          /\ (props'.key = "redacted" => respelled' \/ unfilled')
        <3>1. respelled' = respelled
            BY <1>21, <1>24 DEF Props
        <3>2. faults > 0 => faults' > 0
            BY <1>1, <1>24
        <3> QED BY <1>21, <1>24, <3>1, <3>2
    <2>7. Files'
        BY <1>1, <1>24, <2>3, <2>5, <2>6, FilesWritten DEF Reading, Inside, Saving
    <2> QED BY <1>1, <2>4, <2>7, HalvesNext
<1>25. ASSUME NEW r \in Request, WriteManager(r), Noted
       PROVE  IInv'
    <2>1. /\ request[r].pc = "manager" /\ Goto(r, "user")
          /\ UNCHANGED <<stored, rw, bundles>> /\ faults' = faults
          /\ props' = [props EXCEPT !.manager = request[r].path]
        BY <1>25 DEF WriteManager, At
    <2>2. props' \in Props /\ props'.key = props.key /\ props'.odd = props.odd
        BY <1>1, <1>21, <2>1 DEF Props, RequestState
    <2> QED BY <1>1, <1>24, <1>25, <2>1, <2>2 DEF Saving
<1>26. ASSUME NEW r \in Request, WriteUser(r), Noted
       PROVE  IInv'
    <2>1. /\ request[r].pc = "user" /\ Goto(r, "harvesting") /\ UNCHANGED <<stored, rw, bundles>>
        BY <1>26 DEF WriteUser, At
    <2>2. faults' \in 0..MaxFaults /\ faults' >= faults
        BY <1>1, <1>26, FaultMore DEF WriteUser
    <2>3. props' \in Props /\ props'.key = props.key /\ props'.odd = props.odd
        BY <1>1, <1>21, <1>26 DEF WriteUser, Props, RequestState, SomePath
    <2> QED BY <1>24, <1>26, <2>1, <2>2, <2>3 DEF Saving
<1>27. ASSUME NEW r \in Request, WriteHarvesting(r), Noted
       PROVE  IInv'
    <2>1. /\ request[r].pc = "harvesting" /\ WriteUnlock(r)
          /\ UNCHANGED <<stored, bundles>> /\ faults' = faults
        BY <1>27 DEF WriteHarvesting, At
    <2>2. request[r].pc \in Inside /\ LockOf(request[r].op) = "config"
        BY <1>1, <2>1 DEF Locking, OpFits, Fits, Inside, Saving, LockOf
    <2>3. props' \in {[props EXCEPT !.key = "real", !.odd = FALSE], Keyless(props)}
        BY <1>27 DEF WriteHarvesting
    <2>4. props' \in Props /\ props'.key # "absent" /\ (props'.key = "redacted" => props.key = "redacted")
        BY <1>21, <2>3 DEF Props, Keyless
    <2>5. props'.key = "redacted" => respelled' \/ unfilled'
        BY <1>21, <1>27, <2>1, <2>4
    <2> QED BY <1>1, <1>19, <1>27, <2>1, <2>2, <2>4, <2>5
<1>28. ASSUME NEW r \in Request, WriteFails(r), Noted
       PROVE  IInv'
    <2>1. /\ request[r].pc \in {"manager", "user", "harvesting"} /\ WriteUnlock(r)
          /\ UNCHANGED <<stored, bundles>> /\ faults' = faults + 1 /\ faults < MaxFaults
        BY <1>28 DEF WriteFails
    <2>2. request[r].pc \in Inside /\ LockOf(request[r].op) = "config"
        BY <1>1, <2>1 DEF Locking, OpFits, Fits, Inside, Saving, LockOf
    <2>3. faults' \in 0..MaxFaults /\ faults' >= faults /\ faults' > 0
        BY <1>1, <2>1, FaultMore
    <2>4. props' \in {props, [props EXCEPT !.manager = NoPath],
                      [props EXCEPT !.user = NoPath, !.legacy = NoPath],
                      [props EXCEPT !.key = "absent", !.odd = FALSE]}
        BY <1>28 DEF WriteFails
    <2>5. props' \in Props
        BY <1>21, <2>4 DEF Props, SomePath
    <2>6. props'.key = "redacted" => respelled' \/ unfilled'
        BY <1>21, <1>28, <2>4 DEF Props
    <2> QED BY <1>19, <1>28, <2>1, <2>2, <2>3, <2>5, <2>6
<1>29. ASSUME NEW r \in Request, SaveRawConfigFile(r), Noted
       PROVE  IInv'
    <2>1. /\ request[r].pc = "writing" /\ request[r].op = "raw" /\ WriteUnlock(r)
          /\ UNCHANGED <<stored, bundles>> /\ faults' = faults
        BY <1>29 DEF SaveRawConfigFile, At
    <2>2. request[r].pc \in Inside /\ LockOf(request[r].op) = "config"
        BY <2>1 DEF Inside, LockOf
    <2>3. /\ props' \in Props /\ (props'.key = "absent" => props.key = "absent")
          /\ (props'.key = "redacted" => props.key = "redacted" \/ props'.odd)
        <3>1. CASE \E p \in Path : props' \in {[props EXCEPT !.manager = p], [props EXCEPT !.legacy = p]}
            BY <1>21, <3>1 DEF Props, SomePath
        <3>2. CASE \E odd \in BOOLEAN : props' = [props EXCEPT !.key = "real", !.odd = odd]
            BY <1>21, <3>2 DEF Props
        <3>3. CASE props' = WithOwnKey(Redacted(props))
            BY <1>21, <3>3 DEF Props, WithOwnKey, Redacted
        <3>4. CASE props' = [props EXCEPT !.key = "empty", !.odd = FALSE]
            BY <1>21, <3>4 DEF Props
        <3> QED BY <1>29, <3>1, <3>2, <3>3, <3>4 DEF SaveRawConfigFile
    <2>4. props'.odd => respelled'
        BY <1>29
    <2>5. props'.key = "redacted" => respelled' \/ unfilled'
        BY <1>21, <1>29, <2>1, <2>3, <2>4
    <2> QED BY <1>1, <1>19, <1>21, <1>29, <2>1, <2>2, <2>3, <2>5
<1>30. ASSUME NEW p \in Props, NEW files \in SUBSET File,
              props' = Replaced(p, files)
       PROVE  /\ props' \in Props /\ props'.key \in {p.key, props.key}
              /\ props'.odd = (IF "harvesting" \in files THEN p.odd ELSE props.odd)
              /\ props'.key = (IF "harvesting" \in files THEN p.key ELSE props.key)
    BY <1>21, <1>30 DEF Props, Replaced
<1>31. ASSUME NEW files \in SUBSET File, Written(files)
       PROVE  faults' \in 0..MaxFaults /\ faults' >= faults
    BY <1>1, <1>31, FaultMore DEF Written
<1>32. ASSUME NEW r \in Request, ImportBackup(r), Noted
       PROVE  IInv'
    <2> DEFINE p == WithOwnKey(bundles["backup"])
    <2>1. /\ request[r].pc = "writing" /\ request[r].op = "import" /\ WriteUnlock(r)
          /\ UNCHANGED <<stored, bundles>> /\ bundles["backup"].key # "absent"
        BY <1>32 DEF ImportBackup, At
    <2>2. request[r].pc \in Inside /\ LockOf(request[r].op) = "config"
        BY <2>1 DEF Inside, LockOf
    <2>3. PICK files \in SUBSET File :
              props' = Replaced(p, files) /\ Written(files)
        BY <1>32 DEF ImportBackup
    <2>4. /\ p \in Props /\ p.key # "absent"
          /\ p.key = "redacted" => p.odd \/ props.key \in {"absent", "empty", "redacted"}
        BY <1>21, <2>1 DEF WithOwnKey, Props
    <2>5. faults' \in 0..MaxFaults /\ faults' >= faults
        BY <1>31, <2>3
    <2> HIDE DEF p
    <2>6. /\ props' \in Props /\ (props'.key = "absent" => props.key = "absent")
          /\ (props'.key = "redacted" => props'.odd \/ props.key \in {"absent", "empty", "redacted"})
        BY <1>30, <2>3, <2>4
    <2>7. faults > 0 => faults' > 0
        BY <1>1, <2>5
    <2>8. props'.odd => respelled'
        BY <1>32
    <2>9. props'.key = "redacted" => respelled' \/ unfilled'
        BY <1>21, <1>32, <2>6, <2>7, <2>8
    <2> QED BY <1>19, <1>21, <1>32, <2>1, <2>2, <2>5, <2>6, <2>7, <2>9
<1>33. ASSUME NEW r \in Request, RestoreDisasterRecoveryPackage(r),
              Noted
       PROVE  IInv'
    <2> DEFINE p == bundles["package"]
    <2>1. /\ request[r].pc = "writing" /\ request[r].op = "restore" /\ WriteUnlock(r)
          /\ UNCHANGED <<stored, bundles>> /\ p.key # "absent"
        BY <1>33 DEF RestoreDisasterRecoveryPackage, At
    <2>2. request[r].pc \in Inside /\ LockOf(request[r].op) = "config"
        BY <2>1 DEF Inside, LockOf
    <2>3. PICK files \in SUBSET File :
              props' = Replaced(p, files) /\ Written(files)
        BY <1>33 DEF RestoreDisasterRecoveryPackage
    <2>4. p \in Props /\ (p.key = "redacted" => respelled \/ unfilled)
        BY <1>21
    <2>5. faults' \in 0..MaxFaults /\ faults' >= faults
        BY <1>31, <2>3
    <2> HIDE DEF p
    <2>6. /\ props' \in Props /\ (props'.key = "absent" => props.key = "absent")
          /\ props'.key \in {p.key, props.key}
        BY <1>30, <2>1, <2>3, <2>4
    <2>7. faults > 0 => faults' > 0
        BY <1>1, <2>5
    <2>8. props'.key = "redacted" => respelled' \/ unfilled'
        BY <1>21, <1>33, <2>4, <2>6, <2>7
    <2> QED BY <1>19, <1>21, <1>33, <2>1, <2>2, <2>5, <2>6, <2>7, <2>8
<1>34. ASSUME Crash, Explain PROVE IInv'
    <2>1. Locking'
        BY <1>1, <1>34, CrashLocks
    <2>2. UNCHANGED <<props, stored, bundles, faults>>
          /\ \A r \in Request : request'[r].pc \in {"idle", "done"}
        BY <1>34 DEF Crash, Waiting
    <2>3. respelled' = respelled /\ torn' = torn /\ (unfilled => unfilled')
          /\ unfilled' \in BOOLEAN
        BY <1>1, <1>21, <1>34, <2>2 DEF Crash, Files
    <2>a. outside' \in OutsideState
        BY <1>1, <1>34 DEF Crash, Files, OutsideState, Absent, SomePath
    <2>4. KeyIsRead' /\ ExportIsSnapshot' /\ Movable' /\ DataNeverLost'
        BY <1>1, <2>2 DEF KeyIsRead, ExportIsSnapshot, Movable, DataNeverLost, Files, At, Reading
    <2>5. PlaceholderExplained'
        BY <1>1, <2>2, <2>3 DEF Files, PlaceholderExplained, KeySurvivesImport
    <2>6. Files'
        BY <1>1, <2>2, <2>3, <2>4, <2>5, <2>a DEF Files
    <2> QED BY <1>1, <2>1, <2>6, HalvesNext
<1>37. ASSUME WriteOutside, Explain PROVE IInv'
    <2>1. UNCHANGED <<stored, rw, request, bundles, faults>>
        BY <1>37 DEF WriteOutside
    <2>2. Locking'
        BY <1>1, <2>1
           DEF Locking, RwTyped, OpFits, Fits, ReadersCounted, WriterHolds, WriterAlone,
               ConfigReads, StorageReads
    <2>3. outside \in OutsideState /\ torn \in SUBSET Request
        BY <1>1 DEF Files
    <2>4. /\ props' \in Props /\ Locked(props') = Locked(props)
          /\ outside' \in OutsideState
          /\ torn \subseteq torn' /\ torn' \subseteq Request
          /\ props' = props \/ \A r \in Request : At(r, "copying") => r \in torn'
        <3>1. CASE SyncReads
            <4>1. EffectivePath(props) \in SomePath
                BY <1>1, <1>21 DEF EffectivePath, Props, SomePath, ParamsFit
            <4> QED BY <1>1, <1>21, <2>3, <3>1, <4>1
                    DEF SyncReads, OutsideState, Props, ParamsFit
        <3>2. CASE SyncTruncates
            BY <1>21, <2>3, <3>2 DEF SyncTruncates, OutsideState, Props, SomePath, Copying
        <3>3. CASE SyncWrites
            <4>1. outside' \in OutsideState /\ torn' = torn \cup Copying
                BY <2>3, <3>3 DEF SyncWrites, OutsideState, Absent, SomePath
            <4>2. props' \in Props /\ Locked(props') = Locked(props)
                BY <1>21, <2>3, <3>3 DEF SyncWrites, OutsideState, Props
            <4> QED BY <2>3, <4>1, <4>2 DEF Copying
        <3>4. CASE ReplaceOfficial
            BY <1>1, <1>21, <2>3, <3>4 DEF ReplaceOfficial, OutsideState, Props, Copying, ParamsFit
        <3> QED BY <1>37, <3>1, <3>2, <3>3, <3>4 DEF WriteOutside
    <2>5. props'.manager = props.manager /\ props'.key = props.key /\ props'.odd = props.odd
        BY <2>4
    <2>6. KeyIsRead' /\ Movable' /\ DataNeverLost'
        BY <1>1, <2>1, <2>5 DEF KeyIsRead, Movable, DataNeverLost, Files, Reading
    <2>7. ExportIsSnapshot'
        BY <1>1, <2>1, <2>4, <2>5 DEF ExportIsSnapshot, Files, At
    <2>8. /\ respelled' = respelled /\ (unfilled => unfilled')
          /\ unfilled' \in BOOLEAN
        BY <1>1, <1>21, <1>37, <2>5 DEF Files
    <2>9. PlaceholderExplained'
        BY <1>1, <2>1, <2>5, <2>8 DEF Files, PlaceholderExplained, KeySurvivesImport
    <2>10. Files'
        BY <1>1, <2>1, <2>4, <2>6, <2>7, <2>8, <2>9 DEF Files
    <2> QED BY <1>1, <2>2, <2>10, HalvesNext
<1>35. ASSUME UNCHANGED vars PROVE IInv'
    <2>1. Locking'
        BY <1>1, <1>35
           DEF vars, Locking, RwTyped, OpFits, Fits, ReadersCounted, WriterHolds, WriterAlone,
                           ConfigReads, StorageReads
    <2>2. Files'
        BY <1>1, <1>35 DEF vars, Files, KeyIsRead, ExportIsSnapshot, Movable, DataNeverLost,
                           PlaceholderExplained, KeySurvivesImport, At
    <2> QED BY <1>1, <2>1, <2>2, HalvesNext
<1>36. ASSUME NEW r \in Request, Handle(r), Noted
       PROVE  IInv'
    <2>1. NoPath \in SomePath /\ FALSE \in BOOLEAN /\ Path \subseteq SomePath /\ "save" \in Writes
        BY DEF SomePath, Writes
    <2> QED BY <1>2, <1>3, <1>4, <1>5, <1>6, <1>7, <1>8, <1>9, <1>11, <1>12, <1>14, <1>16,
               <1>17, <1>18, <1>22, <1>23, <1>25, <1>26, <1>27, <1>28, <1>29, <1>32, <1>33,
               <1>36, <2>1 DEF Handle
<1> QED BY <1>34, <1>35, <1>36, <1>37 DEF Next

(* The wait that has no end is the nested read lock behind a writer: who   *)
(* waits for a writer waits, in the end, for readers that wait themselves. *)
LEMMA OnlyNestedReadBlocksHolds == IInv => OnlyNestedReadBlocks
<1> SUFFICES ASSUME IInv PROVE OnlyNestedReadBlocks
    OBVIOUS
<1> DEFINE busy == {r \in Request : request[r].pc \notin {"idle", "done", "linked"}}
           Nested(r) == /\ At(r, "lock") /\ rw["config"].readers[r] = 1
                        /\ rw["config"].writer \in busy
<1> SUFFICES ASSUME busy # {}, \A r \in busy : Blocked(r) PROVE \E r \in busy : Nested(r)
    BY DEF OnlyNestedReadBlocks
<1>1. Locking
    BY Halves
<1>2. \A r \in busy : request[r].pc \in {"lock", "announced"}
    BY DEF Blocked, At
<1>3. ASSUME NEW r \in busy, request[r].pc = "lock" PROVE \E q \in busy : Nested(q)
    <2>1. rw["config"].writer # Nobody
        BY <1>3 DEF Blocked, At, MayRead
    <2>2. PICK w \in Request : rw["config"].writer = w
        BY <1>1, <2>1 DEF Locking, RwTyped, Lock
    <2>3. request[w].pc \in Holding /\ LockOf(request[w].op) = "config" /\ w \in busy
        BY <1>1, <2>2 DEF Locking, WriterHolds, Lock, Holding, Inside, Saving
    <2>4. PICK q \in Request : rw["config"].readers[q] > 0
        <3>1. request[w].pc = "announced" /\ Blocked(w)
            BY <1>2, <2>3 DEF Holding, Inside, Saving
        <3> QED BY <2>3, <3>1 DEF Blocked, At
    <2>5. ConfigReads(request[q]) > 0 /\ rw["config"].readers[q] = ConfigReads(request[q])
        BY <1>1, <2>4 DEF Locking, ReadersCounted
    <2>6. q \in busy /\ request[q].pc \in {"lock"} \cup Reading
        BY <2>5 DEF ConfigReads, Reading
    <2>7. request[q].pc = "lock"
        BY <1>2, <2>6 DEF Reading
    <2>8. ConfigReads(request[q]) = 1
        BY <2>5, <2>7 DEF ConfigReads
    <2> QED BY <2>2, <2>3, <2>5, <2>6, <2>7, <2>8 DEF At
<1>4. ASSUME NEW r \in busy, request[r].pc = "announced" PROVE \E q \in busy : Nested(q)
    <2>1. PICK q \in Request : rw[LockOf(request[r].op)].readers[q] > 0
        BY <1>4 DEF Blocked, At
    <2>2. ConfigReads(request[q]) > 0 \/ StorageReads(request[q]) > 0
        BY <1>1, <2>1 DEF Locking, ReadersCounted, LockOf
    <2>3. q \in busy /\ request[q].pc \in {"lock"} \cup Reading
        BY <2>2 DEF ConfigReads, StorageReads, Reading
    <2>4. request[q].pc = "lock"
        BY <1>2, <2>3 DEF Reading
    <2> QED BY <1>3, <2>3, <2>4
<1> QED BY <1>2, <1>3, <1>4
=============================================================================
