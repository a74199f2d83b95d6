-------------------------- MODULE DataArchivesProofs --------------------------
(***************************************************************************)
(* Proof that a restore or a backup reported complete is whole, for any    *)
(* number of goroutines, files and archive paths.  A restorer that was     *)
(* alone has every file that it is through with to itself; an archiver     *)
(* that was alone at its path has the file behind that path to itself,     *)
(* because a file is only ever reached through the path of the goroutine   *)
(* that made it.                                                           *)
(***************************************************************************)
EXTENDS DataArchives, TLAPS

(* The two kinds of goroutines differ, and Nobody is none of them. *)
Distinct == Restorer \cap Archiver = {} /\ Nobody \notin Archiver

(* Where a goroutine is says what it does. *)
PcTellsKind ==
    \A g \in Goroutine :
        /\ At(g, "stopped") \/ At(g, "connect") => g \in Restorer
        /\ At(g, "create") => g \in Archiver /\ task[g].todo = Datum
        /\ At(g, "close") => task[g].todo = {}

(* A restorer that nothing disturbs is the only one, beside a stopped node, *)
(* and what it is through with is its own.                                  *)
RestorerAlone ==
    \A g \in Restorer \ disturbed : Running(g) =>
        /\ ~online /\ claim["restore"] = Nobody
        /\ \A h \in Restorer \ {g} : ~Running(h)
        /\ \A f \in Datum \ task[g].todo : datum[f] = g

(* So it is until somebody begins or starts the node. *)
RestoreStands ==
    claim["restore"] # Nobody =>
        /\ ~online
        /\ \A h \in Restorer : ~Running(h)
        /\ \A f \in Datum : datum[f] = claim["restore"]

(* A path leads to a file that a goroutine of this path has made, and it is *)
(* such a file that a goroutine writes.                                     *)
FilesOfTheirPath ==
    /\ \A t \in Target : inode[t] # Nobody => task[inode[t]].pc # "idle" /\ task[inode[t]].target = t
    /\ \A g \in Archiver : Running(g) => task[g].target \in Target
    /\ \A g \in Archiver : Running(g) /\ ~At(g, "create") =>
         /\ task[g].file \in Archiver
         /\ task[task[g].file].target = task[g].target
         /\ task[task[g].file].pc # "idle"

SharesPath(g, h) == h # g /\ Running(h) /\ task[h].target = task[g].target

(* An archiver that nothing disturbs is alone at its path, which leads to   *)
(* its file, and what it is through with is in there.                       *)
ArchiverAlone ==
    \A g \in Archiver \ disturbed : Running(g) =>
        /\ \A h \in Archiver : ~SharesPath(g, h)
        /\ ~At(g, "create") =>
             /\ inode[task[g].target] = task[g].file
             /\ written[task[g].file] = Datum \ task[g].todo

(* So it is until the next backup begins. *)
BackupStands ==
    \A g \in Archiver : claim["backup"] = g =>
        /\ At(g, "done") /\ task[g].target \in Target
        /\ \A h \in Archiver : ~SharesPath(g, h)
        /\ inode[task[g].target] # Nobody
        /\ written[inode[task[g].target]] = Datum

IInv == /\ Distinct /\ TypeOK /\ PcTellsKind /\ RestorerAlone /\ RestoreStands
        /\ FilesOfTheirPath /\ ArchiverAlone /\ BackupStands
-----------------------------------------------------------------------------
(* Typing. *)

LEMMA InitIInv == Distinct /\ Init => IInv
<1> SUFFICES ASSUME Distinct, Init PROVE IInv
    OBVIOUS
<1>1. Fresh \in Task /\ Fresh.pc = "idle"
    BY DEF Fresh, Task
<1>2. task \in [Goroutine -> Task] /\ \A g \in Goroutine : task[g].pc = "idle"
    BY <1>1 DEF Init
<1>3. TypeOK
    BY <1>2 DEF Init, TypeOK, Kind
<1>4. \A k \in Kind : claim[k] = Nobody
    BY DEF Init
<1>5. PcTellsKind /\ RestorerAlone /\ ArchiverAlone
    BY <1>2 DEF PcTellsKind, RestorerAlone, ArchiverAlone, At, Running, Goroutine
<1>6. FilesOfTheirPath
    BY <1>2 DEF Init, FilesOfTheirPath, At, Running, Goroutine
<1>7. RestoreStands /\ BackupStands
    BY <1>4 DEF RestoreStands, BackupStands, Kind, Distinct
<1> QED BY <1>3, <1>5, <1>6, <1>7 DEF IInv

Pc == {"idle", "stopped", "connect", "create", "check", "copy", "close", "done"}

(* Goroutine g is now at p with these local variables; the others stay.    *)
Moves(g, p, T, t, i) ==
    /\ task' \in [Goroutine -> Task]
    /\ \A h \in Goroutine \ {g} : task'[h] = task[h]
    /\ task'[g].pc = p /\ task'[g].todo = T /\ task'[g].target = t /\ task'[g].file = i

LEMMA GotoMoves ==
    ASSUME TypeOK, NEW g \in Goroutine, NEW p \in Pc, Goto(g, p)
    PROVE  Moves(g, p, task[g].todo, task[g].target, task[g].file)
<1> DEFINE r == [task[g] EXCEPT !.pc = p]
<1>1. r \in Task /\ r.pc = p /\ r.todo = task[g].todo /\ r.target = task[g].target /\ r.file = task[g].file
    BY DEF TypeOK, Task, Pc
<1>2. task' = [task EXCEPT ![g] = r]
    BY DEF Goto
<1> HIDE DEF r
<1> QED BY <1>1, <1>2 DEF TypeOK, Moves

LEMMA TodoMoves ==
    ASSUME TypeOK, NEW g \in Goroutine, NEW f \in Datum,
           task' = [task EXCEPT ![g].todo = @ \ {f}, ![g].pc = "check"]
    PROVE  Moves(g, "check", task[g].todo \ {f}, task[g].target, task[g].file)
<1> DEFINE r == [task[g] EXCEPT !.todo = @ \ {f}, !.pc = "check"]
<1>0. task[g] \in Task /\ task \in [Goroutine -> Task]
    BY DEF TypeOK
<1>1. r \in Task /\ r.pc = "check" /\ r.todo = task[g].todo \ {f} /\ r.target = task[g].target
      /\ r.file = task[g].file
    BY <1>0 DEF Task
<1>2. task' = [task EXCEPT ![g] = r]
    BY ZenonT(40), <1>0
<1> HIDE DEF r
<1> QED BY <1>0, <1>1, <1>2 DEF Moves

LEMMA RegisterMoves ==
    ASSUME TypeOK, NEW g \in Goroutine, NEW p \in Pc, NEW t \in Target \cup {Nobody}, Register(g, p, t)
    PROVE  /\ Moves(g, p, Datum, t, task[g].file)
           /\ stage' = [stage EXCEPT ![KindOf(g)] = "active"]
           /\ cancelOf' = [cancelOf EXCEPT ![KindOf(g)] = g]
           /\ claim' = [claim EXCEPT ![KindOf(g)] = Nobody]
<1> DEFINE r == [task[g] EXCEPT !.pc = p, !.todo = Datum, !.target = t]
<1>0. task[g] \in Task /\ task \in [Goroutine -> Task]
    BY DEF TypeOK
<1>1. r \in Task /\ r.pc = p /\ r.todo = Datum /\ r.target = t /\ r.file = task[g].file
    BY <1>0 DEF Task, Pc
<1>2. task' = [task EXCEPT ![g] = r]
    BY <1>0 DEF Register
<1> HIDE DEF r
<1>3. Moves(g, p, Datum, t, task[g].file)
    BY <1>1, <1>2 DEF TypeOK, Moves
<1> QED BY <1>3 DEF Register

LEMMA EndMoves ==
    ASSUME TypeOK, NEW g \in Goroutine, NEW how, End(g, how)
    PROVE  /\ Moves(g, "done", {}, task[g].target, Nobody)
           /\ stage' = [stage EXCEPT ![KindOf(g)] = how]
<1> DEFINE r == [Fresh EXCEPT !.pc = "done", !.target = task[g].target]
<1>1. r \in Task /\ r.pc = "done" /\ r.todo = {} /\ r.target = task[g].target /\ r.file = Nobody
    BY DEF TypeOK, Task, Fresh
<1>2. task' = [task EXCEPT ![g] = r]
    BY DEF End
<1> HIDE DEF r
<1>3. Moves(g, "done", {}, task[g].target, Nobody)
    BY <1>1, <1>2 DEF TypeOK, Moves
<1> QED BY <1>3 DEF End

LEMMA KindOfType ==
    ASSUME NEW g \in Goroutine PROVE KindOf(g) \in Kind
BY DEF KindOf, Kind

-----------------------------------------------------------------------------
(* Frames: what the other kind of goroutine leaves alone. *)

RestoreSame ==
    /\ \A h \in Restorer : Running(h)' => Running(h) /\ task'[h].todo = task[h].todo
    /\ datum' = datum /\ (online' => online)
    /\ claim'["restore"] \in {claim["restore"], Nobody}
    /\ disturbed \subseteq disturbed'

BackupSame ==
    /\ \A h \in Archiver : /\ task'[h].pc = task[h].pc /\ task'[h].todo = task[h].todo
                           /\ task'[h].target = task[h].target /\ task'[h].file = task[h].file
    /\ inode' = inode /\ written' = written
    /\ claim'["backup"] \in {claim["backup"], Nobody}
    /\ disturbed \subseteq disturbed'

LEMMA RestoreFrame ==
    ASSUME RestorerAlone, RestoreStands, RestoreSame
    PROVE  RestorerAlone' /\ RestoreStands'
<1>1. RestorerAlone'
    BY DEF RestorerAlone, RestoreSame
<1>2. RestoreStands'
    BY DEF RestoreStands, RestoreSame
<1> QED BY <1>1, <1>2

LEMMA BackupFrame ==
    ASSUME Distinct, TypeOK, FilesOfTheirPath, ArchiverAlone, BackupStands, BackupSame
    PROVE  FilesOfTheirPath' /\ ArchiverAlone' /\ BackupStands'
<1>1. \A h \in Archiver : /\ Running(h)' = Running(h)
                          /\ \A pc \in Pc : At(h, pc)' = At(h, pc)
                          /\ \A g \in Archiver : SharesPath(g, h)' = SharesPath(g, h)
    BY DEF BackupSame, Running, At, SharesPath
<1>2. \A t \in Target : inode[t] \in Archiver \cup {Nobody}
    BY DEF TypeOK
<1>3. FilesOfTheirPath'
    BY <1>2 DEF FilesOfTheirPath, BackupSame, Running, At
<1>4. ArchiverAlone'
    BY <1>1 DEF ArchiverAlone, BackupSame, At
<1>5. BackupStands'
    BY <1>1 DEF BackupStands, BackupSame, At, Distinct
<1> QED BY <1>3, <1>4, <1>5

(* A goroutine that moves does what its kind does. *)
LEMMA KindKept ==
    ASSUME PcTellsKind, NEW g \in Goroutine, NEW p, NEW T, NEW t, NEW i, Moves(g, p, T, t, i),
           p \in {"stopped", "connect"} => g \in Restorer,
           p = "create" => g \in Archiver /\ T = Datum,
           p = "close" => T = {}
    PROVE  PcTellsKind'
BY DEF PcTellsKind, Moves, At

(* What a restorer's move means for the backups, and the other way round. *)
LEMMA BackupsUnmoved ==
    ASSUME Distinct, NEW g \in Restorer, NEW p, NEW T, NEW t, NEW i, Moves(g, p, T, t, i),
           UNCHANGED <<inode, written>>, claim'["backup"] = claim["backup"], disturbed \subseteq disturbed'
    PROVE  BackupSame
BY DEF BackupSame, Moves, Distinct, Goroutine

LEMMA RestoresUnmoved ==
    ASSUME Distinct, NEW g \in Archiver, NEW p, NEW T, NEW t, NEW i, Moves(g, p, T, t, i),
           UNCHANGED <<datum, online>>, claim'["restore"] = claim["restore"], disturbed \subseteq disturbed'
    PROVE  RestoreSame
BY DEF RestoreSame, Moves, Distinct, Goroutine, Running
-----------------------------------------------------------------------------
(* Restorers. *)

LEMMA StopForRestoreStep ==
    ASSUME IInv, NEW g \in Goroutine, StopForRestore(g) PROVE IInv'
<1> USE DEF IInv
<1>1. g \in Restorer /\ Moves(g, "stopped", task[g].todo, task[g].target, task[g].file)
    BY GotoMoves DEF StopForRestore, Pc
<1>2. /\ UNCHANGED <<datum, stage, cancelOf, inode, written, claim, disturbed>>
      /\ online' \in {online, FALSE} /\ At(g, "idle")
    BY DEF StopForRestore
<1>3. TypeOK'
    BY <1>1, <1>2 DEF Moves, TypeOK
<1>4. PcTellsKind'
    BY <1>1, KindKept
<1>5. RestoreSame
    <2>1. \A h \in Restorer : Running(h)' => Running(h) /\ h # g
        BY <1>1 DEF Moves, Running, Goroutine
    <2>2. \A h \in Restorer \ {g} : task'[h] = task[h]
        BY <1>1 DEF Moves, Goroutine
    <2>3. online' => online
        BY <1>2
    <2> QED BY <2>1, <2>2, <2>3, <1>2 DEF RestoreSame
<1>6. BackupSame
    BY <1>1, <1>2, BackupsUnmoved
<1> QED BY <1>3, <1>4, <1>5, <1>6, RestoreFrame, BackupFrame DEF Distinct

LEMMA BeginRestoreStep ==
    ASSUME IInv, NEW g \in Goroutine, BeginRestore(g) PROVE IInv'
<1> USE DEF IInv
<1>1. g \in Restorer /\ KindOf(g) = "restore" /\ At(g, "stopped")
    BY DEF BeginRestore, PcTellsKind, KindOf
<1>2. PICK p \in {"connect", "check"} : Register(g, p, Nobody)
    BY DEF BeginRestore
<1>3. /\ Moves(g, p, Datum, Nobody, task[g].file)
      /\ stage' = [stage EXCEPT !["restore"] = "active"]
      /\ cancelOf' = [cancelOf EXCEPT !["restore"] = g]
      /\ claim' = [claim EXCEPT !["restore"] = Nobody]
    BY <1>1, <1>2, RegisterMoves DEF Pc
<1>4. /\ disturbed' = disturbed \cup Disturbing(g)
                      \cup (IF online \/ Disturbing(g) # {} THEN {g} ELSE {})
      /\ UNCHANGED <<datum, online, inode, written>>
    BY DEF BeginRestore
<1>5. claim'["restore"] = Nobody /\ claim'["backup"] = claim["backup"]
    BY <1>3 DEF TypeOK, Kind
<1>6. TypeOK'
    <2>1. claim' \in [Kind -> Goroutine \cup {Nobody}] /\ stage' \in [Kind -> {"idle", "active", "complete", "error", "cancelled"}]
          /\ cancelOf' \in [Kind -> Goroutine \cup {Nobody}]
        BY <1>3 DEF TypeOK, Kind
    <2>2. disturbed' \subseteq Goroutine
        BY <1>4 DEF TypeOK, Disturbing, Goroutine
    <2> QED BY <1>3, <1>4, <2>1, <2>2 DEF Moves, TypeOK
<1>7. PcTellsKind'
    BY <1>1, <1>3, KindKept
<1>8. RestorerAlone'
    <2> SUFFICES ASSUME NEW h \in Restorer \ disturbed', Running(h)'
                 PROVE  /\ ~online' /\ claim'["restore"] = Nobody
                        /\ \A k \in Restorer \ {h} : ~Running(k)'
                        /\ \A f \in Datum \ task'[h].todo : datum'[f] = h
        BY DEF RestorerAlone
    <2>1. h = g
        <3> SUFFICES ASSUME h # g PROVE FALSE
            OBVIOUS
        <3>1. Running(h)
            BY <1>3 DEF Moves, Running, Goroutine
        <3> QED BY <3>1, <1>4 DEF Disturbing
    <2>2. ~online /\ Disturbing(g) = {}
        BY <2>1, <1>4
    <2>3. \A k \in Restorer \ {g} : ~Running(k)'
        BY <2>2, <1>3 DEF Disturbing, Moves, Running, Goroutine
    <2> QED BY <2>1, <2>2, <2>3, <1>3, <1>4, <1>5 DEF Moves
<1>9. RestoreStands'
    BY <1>5 DEF RestoreStands
<1>10. BackupSame
    BY <1>1, <1>3, <1>4, <1>5, BackupsUnmoved
<1> QED BY <1>6, <1>7, <1>8, <1>9, <1>10, BackupFrame DEF Distinct

(* A restorer at work is the only one, or all of them are disturbed; and no *)
(* claim stands.                                                            *)
LEMMA WorkingRestorer ==
    ASSUME IInv, NEW g \in Restorer, Running(g)
    PROVE  claim["restore"] = Nobody /\ \A h \in Restorer \ {g} : Running(h) => h \in disturbed
BY DEF IInv, RestorerAlone, RestoreStands

LEMMA RestorerEnds ==
    ASSUME IInv, NEW g \in Goroutine,
           \/ ConnectFails(g) \/ RestoreCancelled(g) \/ RestoreFails(g)
           \/ \E f \in Datum : ExtractFails(g, f)
    PROVE  IInv'
<1> USE DEF IInv
<1>1. g \in Restorer /\ Running(g) /\ KindOf(g) = "restore"
    BY DEF ConnectFails, RestoreCancelled, RestoreFails, ExtractFails, PcTellsKind, At, Running, KindOf
<1>2. \E how \in {"cancelled", "error"} : End(g, how)
    BY DEF ConnectFails, RestoreCancelled, RestoreFails, ExtractFails
<1>3. /\ Moves(g, "done", {}, task[g].target, Nobody)
      /\ stage' \in [Kind -> {"idle", "active", "complete", "error", "cancelled"}]
    BY <1>2, EndMoves, KindOfType DEF TypeOK
<1>4. UNCHANGED <<online, cancelOf, inode, written, claim, disturbed>>
    BY DEF ConnectFails, RestoreCancelled, RestoreFails, ExtractFails
<1>5. datum' \in [Datum -> Restorer \cup {"chain", "torn"}]
    BY DEF ConnectFails, RestoreCancelled, RestoreFails, ExtractFails, TypeOK
<1>6. TypeOK'
    BY <1>3, <1>4, <1>5 DEF Moves, TypeOK
<1>7. PcTellsKind'
    BY <1>3, KindKept
<1>8. RestorerAlone' /\ RestoreStands'
    <2>1. claim["restore"] = Nobody /\ \A h \in Restorer \ {g} : Running(h) => h \in disturbed
        BY <1>1, WorkingRestorer
    <2>2. \A h \in Restorer : Running(h)' => h # g /\ Running(h)
        BY <1>3 DEF Moves, Running, Goroutine
    <2> QED BY <2>1, <2>2, <1>4 DEF RestorerAlone, RestoreStands
<1>9. BackupSame
    BY <1>1, <1>3, <1>4, BackupsUnmoved
<1> QED BY <1>6, <1>7, <1>8, <1>9, BackupFrame DEF Distinct

LEMMA RestoreCompleteStep ==
    ASSUME IInv, NEW g \in Goroutine, RestoreComplete(g) PROVE IInv'
<1> USE DEF IInv
<1>1. g \in Restorer /\ Running(g) /\ KindOf(g) = "restore" /\ task[g].todo = {}
    BY DEF RestoreComplete, PcTellsKind, At, Running, KindOf
<1>2. /\ Moves(g, "done", {}, task[g].target, Nobody)
      /\ stage' \in [Kind -> {"idle", "active", "complete", "error", "cancelled"}]
    BY EndMoves, KindOfType DEF RestoreComplete, TypeOK
<1>3. /\ UNCHANGED <<datum, online, cancelOf, inode, written, disturbed>>
      /\ claim' = [claim EXCEPT !["restore"] = IF g \in disturbed THEN Nobody ELSE g]
    BY <1>1 DEF RestoreComplete, Claimed
<1>4. /\ claim' \in [Kind -> Goroutine \cup {Nobody}] /\ claim'["backup"] = claim["backup"]
      /\ claim'["restore"] = IF g \in disturbed THEN Nobody ELSE g
    BY <1>3 DEF TypeOK, Kind
<1>5. TypeOK'
    BY <1>2, <1>3, <1>4 DEF Moves, TypeOK
<1>6. PcTellsKind'
    BY <1>2, KindKept
<1>7. RestorerAlone' /\ RestoreStands'
    <2>1. \A h \in Restorer \ {g} : Running(h) => h \in disturbed
        BY <1>1, WorkingRestorer
    <2>2. \A h \in Restorer : Running(h)' => h # g /\ Running(h)
        BY <1>2 DEF Moves, Running, Goroutine
    <2>3. RestorerAlone'
        BY <2>1, <2>2, <1>3 DEF RestorerAlone
    <2>4. CASE g \in disturbed
        BY <2>3, <2>4, <1>4 DEF RestoreStands
    <2>5. CASE g \notin disturbed
        <3>1. ~online /\ (\A h \in Restorer \ {g} : ~Running(h)) /\ \A f \in Datum : datum[f] = g
            BY <2>5, <1>1 DEF RestorerAlone
        <3> QED BY <3>1, <2>2, <2>3, <2>5, <1>3, <1>4 DEF RestoreStands
    <2> QED BY <2>4, <2>5
<1>8. BackupSame
    BY <1>1, <1>2, <1>3, <1>4, BackupsUnmoved
<1> QED BY <1>5, <1>6, <1>7, <1>8, BackupFrame DEF Distinct

LEMMA ExtractStep ==
    ASSUME IInv, NEW g \in Goroutine, NEW f \in Datum, Extract(g, f) PROVE IInv'
<1> USE DEF IInv
<1>1. g \in Restorer /\ Running(g)
    BY DEF Extract, At, Running
<1>2. Moves(g, "check", task[g].todo \ {f}, task[g].target, task[g].file)
    BY TodoMoves DEF Extract
<1>3. /\ datum' = [datum EXCEPT ![f] = g]
      /\ UNCHANGED <<online, stage, cancelOf, inode, written, claim, disturbed>>
    BY DEF Extract
<1>4. TypeOK'
    BY <1>1, <1>2, <1>3 DEF Moves, TypeOK
<1>5. PcTellsKind'
    BY <1>2, KindKept
<1>6. RestorerAlone' /\ RestoreStands'
    <2>1. claim["restore"] = Nobody /\ \A h \in Restorer \ {g} : Running(h) => h \in disturbed
        BY <1>1, WorkingRestorer
    <2>2. \A h \in Restorer : Running(h)' => Running(h)
        BY <1>1, <1>2 DEF Moves, Running, Goroutine
    <2>3. \A h \in Restorer : (Running(h)' /\ h \notin disturbed) => h = g
        BY <2>1, <2>2
    <2>4. g \notin disturbed => \A d \in Datum \ task'[g].todo : datum'[d] = g
        BY <1>1, <1>2, <1>3 DEF RestorerAlone, Moves, TypeOK
    <2> QED BY <2>1, <2>2, <2>3, <2>4, <1>1, <1>3 DEF RestorerAlone, RestoreStands
<1>7. BackupSame
    BY <1>1, <1>2, <1>3, BackupsUnmoved
<1> QED BY <1>4, <1>5, <1>6, <1>7, BackupFrame DEF Distinct
(* Who passes over an entry is disturbed from then on. *)
LEMMA PassesOverStep ==
    ASSUME IInv, NEW g \in Goroutine, NEW f \in Datum, ExtractPassesOver(g, f) PROVE IInv'
<1> USE DEF IInv
<1>1. g \in Restorer /\ Running(g)
    BY DEF ExtractPassesOver, At, Running
<1>2. Moves(g, "check", task[g].todo \ {f}, task[g].target, task[g].file)
    BY TodoMoves DEF ExtractPassesOver
<1>3. /\ datum' \in {datum, [datum EXCEPT ![f] = "torn"]} /\ disturbed' = disturbed \cup {g}
      /\ UNCHANGED <<online, stage, cancelOf, inode, written, claim>>
    BY DEF ExtractPassesOver
<1>4. TypeOK'
    BY <1>1, <1>2, <1>3 DEF Moves, TypeOK
<1>5. PcTellsKind'
    BY <1>2, KindKept
<1>6. RestorerAlone' /\ RestoreStands'
    <2>1. claim["restore"] = Nobody /\ \A h \in Restorer \ {g} : Running(h) => h \in disturbed
        BY <1>1, WorkingRestorer
    <2>2. \A h \in Restorer : Running(h)' => Running(h)
        BY <1>1, <1>2 DEF Moves, Running, Goroutine
    <2>3. \A h \in Restorer : Running(h)' => h \in disturbed'
        BY <2>1, <2>2, <1>3
    <2> QED BY <2>1, <2>3, <1>3 DEF RestorerAlone, RestoreStands
<1>7. BackupSame
    BY <1>1, <1>2, <1>3, BackupsUnmoved
<1> QED BY <1>4, <1>5, <1>6, <1>7, BackupFrame DEF Distinct
-----------------------------------------------------------------------------
(* Archivers. *)

(* An archiver past the creation of its file moves on, or ends, without     *)
(* touching a path or a file.                                               *)
LEMMA ArchiverMoves ==
    ASSUME IInv, NEW g \in Archiver, Running(g), NEW p \in {"check", "close", "copy", "done"}, NEW T, NEW i,
           Moves(g, p, T, task[g].target, i),
           p # "done" => i = task[g].file /\ ~At(g, "create") /\ (T = task[g].todo \/ g \in disturbed'),
           UNCHANGED <<inode, written>>, disturbed \subseteq disturbed',
           \/ claim'["backup"] \in {claim["backup"], Nobody}
           \/ claim'["backup"] = g /\ p = "done" /\ At(g, "close") /\ g \notin disturbed
    PROVE  FilesOfTheirPath' /\ ArchiverAlone' /\ BackupStands'
<1> USE DEF IInv
<1>1. g \in Goroutine /\ ~At(g, "idle") /\ task[g].target \in Target
    BY DEF Goroutine, FilesOfTheirPath, Running, At
<1>2. \A h \in Archiver : /\ task'[h].target = task[h].target
                          /\ Running(h)' => Running(h)
                          /\ task[h].pc # "idle" => task'[h].pc # "idle"
                          /\ ~At(h, "create")' /\ Running(h)' => ~At(h, "create")
                          /\ At(h, "done") => At(h, "done")'
                          /\ Running(h)' => task'[h].file = task[h].file
    BY DEF Moves, Running, At, Goroutine
<1>3. \A t \in Target : inode[t] \in Archiver \cup {Nobody}
    BY DEF TypeOK
<1>4. FilesOfTheirPath'
    BY <1>2, <1>3 DEF FilesOfTheirPath
<1>5. ArchiverAlone'
    <2> SUFFICES ASSUME NEW h \in Archiver \ disturbed', Running(h)'
                 PROVE  /\ \A k \in Archiver : ~SharesPath(h, k)'
                        /\ ~At(h, "create")' =>
                             /\ inode[task[h].target] = task[h].file
                             /\ written[task[h].file] = Datum \ task'[h].todo
        BY <1>2 DEF ArchiverAlone
    <2>1. \A k \in Archiver : SharesPath(h, k)' => SharesPath(h, k)
        BY <1>2 DEF SharesPath
    <2>2. task'[h].todo = task[h].todo
        BY DEF Moves, Running, Goroutine
    <2> QED BY <2>1, <2>2, <1>2 DEF ArchiverAlone
<1>6. BackupStands'
    <2> SUFFICES ASSUME NEW h \in Archiver, claim'["backup"] = h
                 PROVE  /\ At(h, "done")' /\ task[h].target \in Target
                        /\ \A k \in Archiver : ~SharesPath(h, k)'
                        /\ inode[task[h].target] # Nobody
                        /\ written[inode[task[h].target]] = Datum
        BY <1>2 DEF BackupStands
    <2>1. \A k \in Archiver : SharesPath(h, k)' => SharesPath(h, k)
        BY <1>2 DEF SharesPath
    <2>2. CASE claim["backup"] = h
        BY <2>1, <2>2, <1>2 DEF BackupStands
    <2>3. CASE h = g /\ p = "done" /\ At(g, "close") /\ g \notin disturbed
        <3>1. task[g].todo = {} /\ ~At(g, "create")
            BY <2>3, <1>1 DEF PcTellsKind, At
        <3>2. inode[task[g].target] = task[g].file /\ written[task[g].file] = Datum
            BY <2>3, <3>1 DEF ArchiverAlone
        <3>3. task[g].file # Nobody
            BY <3>1 DEF FilesOfTheirPath, Distinct
        <3>4. \A k \in Archiver : ~SharesPath(g, k)
            BY <2>3 DEF ArchiverAlone
        <3>5. At(g, "done")'
            BY <2>3, <1>1 DEF Moves, At
        <3> QED BY <2>1, <2>3, <3>2, <3>3, <3>4, <3>5, <1>1
    <2> QED BY <2>2, <2>3 DEF Distinct
<1> QED BY <1>4, <1>5, <1>6

(* Through with connecting, or between two pieces: only the place changes. *)
LEMMA PlaceStep ==
    ASSUME IInv, NEW g \in Goroutine, Connected(g) \/ NotCancelled(g) PROVE IInv'
<1> USE DEF IInv
<1>1. PICK p \in {"check", "close", "copy"} :
          Moves(g, p, task[g].todo, task[g].target, task[g].file) /\ (p = "close" => task[g].todo = {})
    BY GotoMoves DEF Connected, NotCancelled, Pc
<1>2. UNCHANGED <<datum, online, stage, cancelOf, inode, written, claim, disturbed>>
    BY DEF Connected, NotCancelled
<1>3. Running(g) /\ (At(g, "connect") \/ At(g, "check"))
    BY DEF Connected, NotCancelled, At, Running
<1>4. TypeOK'
    BY <1>1, <1>2 DEF Moves, TypeOK
<1>5. PcTellsKind'
    BY <1>1, KindKept
<1>6. RestoreSame
    BY <1>1, <1>2, <1>3 DEF RestoreSame, Moves, Goroutine, Running
<1>7. RestorerAlone' /\ RestoreStands'
    BY <1>6, RestoreFrame
<1>8. CASE g \in Restorer
    <2>1. BackupSame
        BY <1>1, <1>2, <1>8, BackupsUnmoved
    <2> QED BY <1>4, <1>5, <1>7, <2>1, BackupFrame DEF Distinct
<1>9. CASE g \notin Restorer
    <2>1. g \in Archiver /\ At(g, "check")
        BY <1>3, <1>9 DEF PcTellsKind, Goroutine
    <2>2. FilesOfTheirPath' /\ ArchiverAlone' /\ BackupStands'
        <3>1. ~At(g, "create") /\ claim'["backup"] = claim["backup"]
            BY <2>1, <1>2 DEF At
        <3> QED BY <2>1, <3>1, <1>1, <1>2, <1>3, ArchiverMoves
    <2> QED BY <1>4, <1>5, <1>7, <2>2 DEF Distinct
<1> QED BY <1>8, <1>9

LEMMA SkipUnreadableStep ==
    ASSUME IInv, NEW g \in Goroutine, NEW f \in Datum, SkipUnreadable(g, f) PROVE IInv'
<1> USE DEF IInv
<1>1. g \in Archiver /\ Running(g) /\ ~At(g, "create")
    BY DEF SkipUnreadable, At, Running
<1>2. Moves(g, "check", task[g].todo \ {f}, task[g].target, task[g].file)
    BY TodoMoves DEF SkipUnreadable
<1>3. /\ disturbed' = disturbed \cup {g}
      /\ UNCHANGED <<datum, online, stage, cancelOf, inode, written, claim>>
    BY DEF SkipUnreadable
<1>4. TypeOK'
    BY <1>2, <1>3 DEF Moves, TypeOK
<1>5. PcTellsKind'
    BY <1>2, KindKept
<1>6. RestorerAlone' /\ RestoreStands'
    BY <1>1, <1>2, <1>3, RestoresUnmoved, RestoreFrame
<1>7. FilesOfTheirPath' /\ ArchiverAlone' /\ BackupStands'
    BY <1>1, <1>2, <1>3, ArchiverMoves
<1> QED BY <1>4, <1>5, <1>6, <1>7 DEF Distinct

LEMMA BackupEnds ==
    ASSUME IInv, NEW g \in Goroutine, BackupFails(g) \/ BackupComplete(g) PROVE IInv'
<1> USE DEF IInv
<1>1. g \in Archiver /\ Running(g) /\ KindOf(g) = "backup"
    BY DEF BackupFails, BackupComplete, At, Running, KindOf, Distinct
<1>2. /\ Moves(g, "done", {}, task[g].target, Nobody)
      /\ stage' \in [Kind -> {"idle", "active", "complete", "error", "cancelled"}]
    BY EndMoves, KindOfType DEF BackupFails, BackupComplete, TypeOK
<1>3. UNCHANGED <<datum, online, cancelOf, inode, written>>
    BY DEF BackupFails, BackupComplete
<1>4. /\ disturbed' \in {disturbed, disturbed \cup {g}}
      /\ \/ claim' = claim
         \/ At(g, "close") /\ claim' = [claim EXCEPT !["backup"] = IF g \in disturbed THEN Nobody ELSE g]
         \/ claim' = [claim EXCEPT !["backup"] = Nobody]
    BY <1>1 DEF BackupFails, BackupComplete, Claimed
<1>5. /\ claim' \in [Kind -> Goroutine \cup {Nobody}] /\ claim'["restore"] = claim["restore"]
      /\ \/ claim'["backup"] \in {claim["backup"], Nobody}
         \/ claim'["backup"] = g /\ At(g, "close") /\ g \notin disturbed
    BY <1>4 DEF TypeOK, Kind
<1>6. TypeOK'
    BY <1>2, <1>3, <1>4, <1>5 DEF Moves, TypeOK
<1>7. PcTellsKind'
    BY <1>2, KindKept
<1>8. RestorerAlone' /\ RestoreStands'
    BY <1>1, <1>2, <1>3, <1>4, <1>5, RestoresUnmoved, RestoreFrame
<1>9. FilesOfTheirPath' /\ ArchiverAlone' /\ BackupStands'
    BY <1>1, <1>2, <1>3, <1>4, <1>5, ArchiverMoves
<1> QED BY <1>6, <1>7, <1>8, <1>9 DEF Distinct

LEMMA CreateDataBackupStep ==
    ASSUME IInv, NEW g \in Goroutine, NEW t \in Target, CreateDataBackup(g, t) PROVE IInv'
<1> USE DEF IInv
<1>1. g \in Archiver /\ At(g, "idle") /\ ~Running(g) /\ KindOf(g) = "backup"
    BY DEF CreateDataBackup, At, Running, KindOf, Distinct
<1> DEFINE others == {h \in Archiver \ {g} : Running(h) /\ task[h].target = t}
<1>2. Register(g, "create", t) /\ UNCHANGED <<datum, online, inode, written>>
      /\ disturbed' = disturbed \cup others \cup (IF others # {} THEN {g} ELSE {})
    BY DEF CreateDataBackup
<1>3. /\ Moves(g, "create", Datum, t, task[g].file)
      /\ stage' = [stage EXCEPT !["backup"] = "active"]
      /\ cancelOf' = [cancelOf EXCEPT !["backup"] = g]
      /\ claim' = [claim EXCEPT !["backup"] = Nobody]
    BY <1>1, <1>2, RegisterMoves DEF Pc
<1>4. claim'["backup"] = Nobody /\ claim'["restore"] = claim["restore"]
    BY <1>3 DEF TypeOK, Kind
<1>5. TypeOK'
    <2>1. /\ claim' \in [Kind -> Goroutine \cup {Nobody}]
          /\ stage' \in [Kind -> {"idle", "active", "complete", "error", "cancelled"}]
          /\ cancelOf' \in [Kind -> Goroutine \cup {Nobody}]
        BY <1>3 DEF TypeOK, Kind
    <2>2. disturbed' \subseteq Goroutine
        BY <1>2 DEF TypeOK, Goroutine
    <2> QED BY <1>2, <1>3, <2>1, <2>2 DEF Moves, TypeOK
<1>6. PcTellsKind'
    BY <1>1, <1>3, KindKept
<1>7. RestorerAlone' /\ RestoreStands'
    BY <1>1, <1>2, <1>3, <1>4, RestoresUnmoved, RestoreFrame
<1>8. \A h \in Archiver \ {g} : task'[h] = task[h]
    BY <1>3 DEF Moves, Goroutine
<1>9. task'[g].target = t /\ At(g, "create")' /\ Running(g)'
    BY <1>3 DEF Moves, At, Running
<1>10. FilesOfTheirPath'
    <2>1. \A u \in Target : inode[u] # Nobody => inode[u] \in Archiver \ {g}
        BY <1>1 DEF FilesOfTheirPath, TypeOK, At
    <2>2. \A u \in Target : inode[u] # Nobody => task'[inode[u]].pc # "idle" /\ task'[inode[u]].target = u
        BY <2>1, <1>8 DEF FilesOfTheirPath, At
    <2>3. \A h \in Archiver : Running(h)' => task'[h].target \in Target
        BY <1>8, <1>9 DEF FilesOfTheirPath, Running
    <2>4. ASSUME NEW h \in Archiver, Running(h)', ~At(h, "create")'
          PROVE  task'[h].file \in Archiver /\ task'[task'[h].file].target = task'[h].target
                 /\ task'[task'[h].file].pc # "idle"
        <3>1. h # g /\ task'[h] = task[h]
            BY <2>4, <1>8, <1>9
        <3>2. Running(h) /\ ~At(h, "create")
            BY <2>4, <3>1 DEF Running, At
        <3>3. /\ task[h].file \in Archiver /\ task[task[h].file].target = task[h].target
              /\ task[task[h].file].pc # "idle"
            BY <3>2 DEF FilesOfTheirPath
        <3>4. task[h].file # g
            BY <3>3, <1>1 DEF At
        <3> QED BY <3>1, <3>3, <3>4, <1>8
    <2> QED BY <2>2, <2>3, <2>4, <1>2 DEF FilesOfTheirPath
<1>11. ArchiverAlone'
    <2> SUFFICES ASSUME NEW h \in Archiver \ disturbed', Running(h)'
                 PROVE  /\ \A k \in Archiver : ~SharesPath(h, k)'
                        /\ ~At(h, "create")' =>
                             /\ inode[task'[h].target] = task'[h].file
                             /\ written[task'[h].file] = Datum \ task'[h].todo
        BY <1>2 DEF ArchiverAlone
    <2>1. CASE h = g
        <3>1. others = {}
            BY <2>1, <1>2
        <3>2. \A k \in Archiver : ~SharesPath(g, k)'
            BY <3>1, <1>8, <1>9 DEF SharesPath, Running
        <3> QED BY <2>1, <3>2, <1>9
    <2>2. CASE h # g
        <3>1. task'[h] = task[h] /\ Running(h) /\ h \notin disturbed /\ h \notin others
            BY <2>2, <1>2, <1>8 DEF Running
        <3>2. task[h].target # t
            BY <2>2, <3>1
        <3>3. \A k \in Archiver : SharesPath(h, k)' => SharesPath(h, k)
            BY <3>1, <3>2, <1>8, <1>9 DEF SharesPath, Running
        <3> QED BY <3>1, <3>3 DEF ArchiverAlone, At
    <2> QED BY <2>1, <2>2
<1>12. BackupStands'
    BY <1>4 DEF BackupStands, Distinct
<1> QED BY <1>5, <1>6, <1>7, <1>10, <1>11, <1>12 DEF Distinct

(* A running archiver's path is not that of a claim, nor of an archiver     *)
(* that is alone; neither is the file behind it.                            *)
LEMMA OthersElsewhere ==
    ASSUME IInv, NEW g \in Archiver, Running(g), NEW h \in Archiver, h # g,
           (Running(h) /\ h \notin disturbed) \/ claim["backup"] = h
    PROVE  /\ task[h].target \in Target /\ task[h].target # task[g].target
           /\ Running(h) /\ ~At(h, "create") => task[task[h].file].target # task[g].target
           /\ inode[task[h].target] # Nobody => task[inode[task[h].target]].target # task[g].target
<1> USE DEF IInv
<1>1. ~SharesPath(h, g)
    BY DEF ArchiverAlone, BackupStands
<1>2. task[h].target \in Target
    BY DEF FilesOfTheirPath, BackupStands
<1>3. task[h].target # task[g].target
    BY <1>1 DEF SharesPath
<1> QED BY <1>2, <1>3 DEF FilesOfTheirPath

LEMMA CreateArchiveStep ==
    ASSUME IInv, NEW g \in Goroutine, CreateArchive(g) PROVE IInv'
<1> USE DEF IInv
<1> DEFINE t == task[g].target
           i == IF inode[t] = Nobody THEN g ELSE inode[t]
           r == [task[g] EXCEPT !.file = i, !.pc = "check"]
<1>1. g \in Archiver /\ At(g, "create") /\ Running(g) /\ task[g].todo = Datum /\ t \in Target
    BY DEF CreateArchive, PcTellsKind, FilesOfTheirPath, At, Running
<1>2. /\ inode' = [inode EXCEPT ![t] = i] /\ written' = [written EXCEPT ![i] = {}]
      /\ task' = [task EXCEPT ![g].file = i, ![g].pc = "check"]
      /\ UNCHANGED <<datum, online, stage, cancelOf, claim, disturbed>>
    BY DEF CreateArchive
<1>3. i \in Archiver /\ i # Nobody
    BY <1>1 DEF TypeOK, Distinct
<1>4. task[i].target = t /\ task[i].pc # "idle"
    BY <1>1 DEF FilesOfTheirPath, At
<1> HIDE DEF i
<1>5. r \in Task /\ r.pc = "check" /\ r.todo = Datum /\ r.target = t /\ r.file = i
    <2>1. task[g] \in Task
        BY DEF TypeOK
    <2> QED BY <2>1, <1>1, <1>3 DEF Task
<1>6. task' = [task EXCEPT ![g] = r]
    BY <1>2 DEF TypeOK
<1> HIDE DEF r
<1>7. Moves(g, "check", Datum, t, i)
    BY <1>5, <1>6 DEF TypeOK, Moves
<1>8. /\ inode'[t] = i /\ \A u \in Target \ {t} : inode'[u] = inode[u]
      /\ written'[i] = {} /\ \A j \in Archiver \ {i} : written'[j] = written[j]
    BY <1>1, <1>2, <1>3 DEF TypeOK
<1>9. TypeOK'
    BY <1>2, <1>3, <1>7 DEF Moves, TypeOK
<1>10. PcTellsKind'
    BY <1>7, KindKept
<1>11. RestorerAlone' /\ RestoreStands'
    BY <1>1, <1>2, <1>7, RestoresUnmoved, RestoreFrame
<1>12. \A h \in Archiver : /\ task'[h].target = task[h].target
                           /\ Running(h)' = Running(h)
                           /\ task[h].pc # "idle" => task'[h].pc # "idle"
                           /\ h # g => task'[h] = task[h] /\ At(h, "create")' = At(h, "create")
                           /\ At(h, "done") => At(h, "done")'
    BY <1>1, <1>7 DEF Moves, Running, At, Goroutine
<1>13. \A h, k \in Archiver : SharesPath(h, k)' = SharesPath(h, k)
    BY <1>12 DEF SharesPath
<1>14. FilesOfTheirPath'
    <2>1. ASSUME NEW u \in Target, inode'[u] # Nobody
          PROVE  task'[inode'[u]].pc # "idle" /\ task'[inode'[u]].target = u
        <3>1. CASE u = t
            BY <3>1, <1>3, <1>4, <1>8, <1>12
        <3>2. CASE u # t
            <4>1. inode'[u] = inode[u] /\ inode[u] \in Archiver
                BY <2>1, <3>2, <1>8 DEF TypeOK
            <4> QED BY <4>1, <2>1, <1>12 DEF FilesOfTheirPath
        <3> QED BY <3>1, <3>2
    <2>2. \A h \in Archiver : Running(h)' => task'[h].target \in Target
        BY <1>12 DEF FilesOfTheirPath
    <2>3. ASSUME NEW h \in Archiver, Running(h)', ~At(h, "create")'
          PROVE  task'[h].file \in Archiver /\ task'[task'[h].file].target = task'[h].target
                 /\ task'[task'[h].file].pc # "idle"
        <3>1. CASE h = g
            BY <3>1, <1>3, <1>4, <1>7, <1>12 DEF Moves
        <3>2. CASE h # g
            BY <3>2, <2>3, <1>12 DEF FilesOfTheirPath
        <3> QED BY <3>1, <3>2
    <2> QED BY <2>1, <2>2, <2>3 DEF FilesOfTheirPath
<1>15. ArchiverAlone'
    <2> SUFFICES ASSUME NEW h \in Archiver \ disturbed, Running(h)
                 PROVE  /\ \A k \in Archiver : ~SharesPath(h, k)'
                        /\ ~At(h, "create")' =>
                             /\ inode'[task'[h].target] = task'[h].file
                             /\ written'[task'[h].file] = Datum \ task'[h].todo
        BY <1>2, <1>12 DEF ArchiverAlone
    <2>1. \A k \in Archiver : ~SharesPath(h, k)'
        BY <1>13 DEF ArchiverAlone
    <2>2. CASE h = g
        BY <2>1, <2>2, <1>7, <1>8 DEF Moves
    <2>3. CASE h # g
        <3>1. task[h].target \in Target \ {t}
              /\ (~At(h, "create") => task[h].file \in Archiver \ {i})
            BY <2>3, <1>1, <1>4, OthersElsewhere DEF FilesOfTheirPath
        <3> QED BY <2>1, <2>3, <3>1, <1>8, <1>12 DEF ArchiverAlone
    <2> QED BY <2>2, <2>3
<1>16. BackupStands'
    <2> SUFFICES ASSUME NEW h \in Archiver, claim["backup"] = h
                 PROVE  /\ At(h, "done")' /\ task'[h].target \in Target
                        /\ \A k \in Archiver : ~SharesPath(h, k)'
                        /\ inode'[task'[h].target] # Nobody
                        /\ written'[inode'[task'[h].target]] = Datum
        BY <1>2 DEF BackupStands
    <2>1. h # g
        BY <1>1 DEF BackupStands, At
    <2>2. inode[task[h].target] # Nobody /\ task[h].target \in Target
        BY DEF BackupStands
    <2>3. task[h].target \in Target \ {t} /\ inode[task[h].target] \in Archiver \ {i}
        BY <2>1, <2>2, <1>1, <1>4, OthersElsewhere DEF TypeOK
    <2> QED BY <2>1, <2>2, <2>3, <1>8, <1>12, <1>13 DEF BackupStands
<1> QED BY <1>9, <1>10, <1>11, <1>14, <1>15, <1>16 DEF Distinct

LEMMA ArchiveStep ==
    ASSUME IInv, NEW g \in Goroutine, NEW f \in Datum, Archive(g, f) PROVE IInv'
<1> USE DEF IInv
<1> DEFINE i == task[g].file
<1>1. g \in Archiver /\ At(g, "copy") /\ Running(g) /\ ~At(g, "create")
    BY DEF Archive, At, Running
<1>2. Moves(g, "check", task[g].todo \ {f}, task[g].target, i)
    BY TodoMoves DEF Archive
<1>3. /\ written' = [written EXCEPT ![i] = @ \cup {f}]
      /\ UNCHANGED <<datum, online, stage, cancelOf, inode, claim, disturbed>>
    BY DEF Archive
<1>4. i \in Archiver /\ task[i].target = task[g].target
    BY <1>1 DEF FilesOfTheirPath
<1>5. written'[i] = written[i] \cup {f} /\ \A j \in Archiver \ {i} : written'[j] = written[j]
    BY <1>3, <1>4 DEF TypeOK
<1>6. TypeOK'
    BY <1>2, <1>3, <1>4 DEF Moves, TypeOK
<1>7. PcTellsKind'
    BY <1>2, KindKept
<1>8. RestorerAlone' /\ RestoreStands'
    BY <1>1, <1>2, <1>3, RestoresUnmoved, RestoreFrame
<1>9. \A h \in Archiver : /\ task'[h].target = task[h].target /\ task'[h].file = task[h].file
                          /\ Running(h)' = Running(h)
                          /\ task[h].pc # "idle" => task'[h].pc # "idle"
                          /\ At(h, "create")' = At(h, "create")
                          /\ h # g => task'[h] = task[h]
                          /\ At(h, "done") => At(h, "done")'
    BY <1>1, <1>2 DEF Moves, Running, At, Goroutine
<1>10. \A h, k \in Archiver : SharesPath(h, k)' = SharesPath(h, k)
    BY <1>9 DEF SharesPath
<1>11. FilesOfTheirPath'
    <2>1. \A u \in Target : inode[u] \in Archiver \cup {Nobody}
        BY DEF TypeOK
    <2> QED BY <2>1, <1>3, <1>9 DEF FilesOfTheirPath
<1>12. ArchiverAlone'
    <2> SUFFICES ASSUME NEW h \in Archiver \ disturbed, Running(h)
                 PROVE  /\ \A k \in Archiver : ~SharesPath(h, k)
                        /\ ~At(h, "create") =>
                             /\ inode[task[h].target] = task[h].file
                             /\ written'[task[h].file] = Datum \ task'[h].todo
        BY <1>3, <1>9, <1>10 DEF ArchiverAlone
    <2>1. CASE h = g
        <3>1. written[i] = Datum \ task[g].todo /\ task'[g].todo = task[g].todo \ {f}
            BY <2>1, <1>1, <1>2 DEF ArchiverAlone, Moves
        <3>2. written'[i] = Datum \ task'[g].todo
            BY <3>1, <1>5 DEF Archive
        <3> QED BY <2>1, <3>2, <1>1 DEF ArchiverAlone
    <2>2. CASE h # g
        <3>1. ~At(h, "create") => task[h].file \in Archiver \ {i}
            BY <2>2, <1>1, <1>4, OthersElsewhere DEF FilesOfTheirPath
        <3> QED BY <2>2, <3>1, <1>5, <1>9 DEF ArchiverAlone
    <2> QED BY <2>1, <2>2
<1>13. BackupStands'
    <2> SUFFICES ASSUME NEW h \in Archiver, claim["backup"] = h
                 PROVE  /\ At(h, "done")' /\ task[h].target \in Target
                        /\ \A k \in Archiver : ~SharesPath(h, k)
                        /\ inode[task[h].target] # Nobody
                        /\ written'[inode[task[h].target]] = Datum
        BY <1>3, <1>9, <1>10 DEF BackupStands
    <2>1. h # g
        BY <1>1 DEF BackupStands, At
    <2>2. inode[task[h].target] # Nobody /\ task[h].target \in Target
        BY DEF BackupStands
    <2>3. inode[task[h].target] \in Archiver \ {i}
        BY <2>1, <2>2, <1>1, <1>4, OthersElsewhere DEF TypeOK
    <2> QED BY <2>1, <2>2, <2>3, <1>5, <1>9 DEF BackupStands
<1> QED BY <1>6, <1>7, <1>8, <1>11, <1>12, <1>13 DEF Distinct

LEMMA BackupCancelledStep ==
    ASSUME IInv, NEW g \in Goroutine, BackupCancelled(g) PROVE IInv'
<1> USE DEF IInv
<1> DEFINE t == task[g].target
<1>1. g \in Archiver /\ Running(g) /\ ~At(g, "done") /\ KindOf(g) = "backup" /\ t \in Target
    BY DEF BackupCancelled, At, Running, KindOf, Distinct, FilesOfTheirPath
<1>2. /\ Moves(g, "done", {}, t, Nobody)
      /\ stage' \in [Kind -> {"idle", "active", "complete", "error", "cancelled"}]
    BY EndMoves, KindOfType DEF BackupCancelled, TypeOK
<1>3. /\ inode' = [inode EXCEPT ![t] = Nobody]
      /\ UNCHANGED <<datum, online, cancelOf, written, claim, disturbed>>
    BY DEF BackupCancelled
<1>4. inode'[t] = Nobody /\ \A u \in Target \ {t} : inode'[u] = inode[u]
    BY <1>1, <1>3 DEF TypeOK
<1>5. TypeOK'
    BY <1>2, <1>3 DEF Moves, TypeOK
<1>6. PcTellsKind'
    BY <1>2, KindKept
<1>7. RestorerAlone' /\ RestoreStands'
    BY <1>1, <1>2, <1>3, RestoresUnmoved, RestoreFrame
<1>8. \A h \in Archiver : /\ task'[h].target = task[h].target
                          /\ Running(h)' => h # g /\ Running(h)
                          /\ task[h].pc # "idle" => task'[h].pc # "idle"
                          /\ h # g => task'[h] = task[h] /\ At(h, "create")' = At(h, "create")
                          /\ At(h, "done") => At(h, "done")'
    BY <1>1, <1>2 DEF Moves, Running, At, Goroutine
<1>9. \A h, k \in Archiver : SharesPath(h, k)' => SharesPath(h, k)
    BY <1>8 DEF SharesPath
<1>10. FilesOfTheirPath'
    <2>1. \A u \in Target : inode[u] \in Archiver \cup {Nobody}
        BY DEF TypeOK
    <2> QED BY <2>1, <1>4, <1>8 DEF FilesOfTheirPath
<1>11. ArchiverAlone'
    <2> SUFFICES ASSUME NEW h \in Archiver \ disturbed, Running(h), h # g
                 PROVE  /\ \A k \in Archiver : ~SharesPath(h, k)'
                        /\ ~At(h, "create") =>
                             /\ inode'[task[h].target] = task[h].file
                             /\ written[task[h].file] = Datum \ task[h].todo
        BY <1>3, <1>8 DEF ArchiverAlone
    <2>1. task[h].target \in Target \ {t}
        BY <1>1, OthersElsewhere
    <2> QED BY <2>1, <1>4, <1>9 DEF ArchiverAlone
<1>12. BackupStands'
    <2> SUFFICES ASSUME NEW h \in Archiver, claim["backup"] = h
                 PROVE  /\ At(h, "done")' /\ task[h].target \in Target
                        /\ \A k \in Archiver : ~SharesPath(h, k)'
                        /\ inode'[task[h].target] # Nobody
                        /\ written[inode'[task[h].target]] = Datum
        BY <1>3, <1>8 DEF BackupStands
    <2>1. h # g
        BY <1>1 DEF BackupStands, At
    <2>2. task[h].target \in Target \ {t}
        BY <2>1, <1>1, OthersElsewhere
    <2> QED BY <2>1, <2>2, <1>4, <1>8, <1>9 DEF BackupStands
<1> QED BY <1>5, <1>6, <1>7, <1>10, <1>11, <1>12 DEF Distinct
-----------------------------------------------------------------------------
(* Requests and the engine. *)

LEMMA CancelStep ==
    ASSUME IInv, NEW k \in Kind, Cancel(k) PROVE IInv'
<1> USE DEF IInv
<1>1. /\ task' = [g \in Goroutine |-> IF g = cancelOf[k] THEN [task[g] EXCEPT !.cancelled = TRUE]
                                      ELSE task[g]]
      /\ UNCHANGED <<datum, online, inode, written, disturbed>>
    BY DEF Cancel
<1>2. /\ task' \in [Goroutine -> Task]
      /\ \A g \in Goroutine : /\ task'[g].pc = task[g].pc /\ task'[g].todo = task[g].todo
                              /\ task'[g].target = task[g].target /\ task'[g].file = task[g].file
    <2> SUFFICES ASSUME NEW g \in Goroutine
                 PROVE  /\ task'[g] \in Task
                        /\ task'[g].pc = task[g].pc /\ task'[g].todo = task[g].todo
                        /\ task'[g].target = task[g].target /\ task'[g].file = task[g].file
        BY <1>1
    <2>1. task[g] \in Task
        BY DEF TypeOK
    <2>2. task'[g] \in {task[g], [task[g] EXCEPT !.cancelled = TRUE]}
        BY <1>1
    <2> QED BY <2>1, <2>2 DEF Task
<1>3. /\ claim' \in [Kind -> Goroutine \cup {Nobody}] /\ cancelOf' \in [Kind -> Goroutine \cup {Nobody}]
      /\ stage' \in [Kind -> {"idle", "active", "complete", "error", "cancelled"}]
      /\ \A j \in Kind : claim'[j] \in {claim[j], Nobody}
    BY DEF Cancel, TypeOK
<1>4. TypeOK'
    BY <1>1, <1>2, <1>3 DEF TypeOK
<1>5. PcTellsKind'
    BY <1>2 DEF PcTellsKind, At
<1>6. RestoreSame /\ BackupSame
    BY <1>1, <1>2, <1>3 DEF RestoreSame, BackupSame, Kind, Goroutine, Running
<1> QED BY <1>4, <1>5, <1>6, RestoreFrame, BackupFrame DEF Distinct

LEMMA EngineStep ==
    ASSUME IInv, EngineStarts \/ EngineStops \/ \E f \in Datum : EngineWrites(f) PROVE IInv'
<1> USE DEF IInv
<1>1. UNCHANGED <<task, stage, cancelOf, inode, written>>
    BY DEF EngineStarts, EngineStops, EngineWrites
<1>2. TypeOK'
    BY DEF EngineStarts, EngineStops, EngineWrites, TypeOK, Goroutine, Kind
<1>3. PcTellsKind'
    BY <1>1 DEF PcTellsKind, At
<1>4. BackupSame
    <2>1. claim'["backup"] = claim["backup"] /\ disturbed \subseteq disturbed'
        BY DEF EngineStarts, EngineStops, EngineWrites, TypeOK, Kind
    <2> QED BY <2>1, <1>1 DEF BackupSame
<1>5. RestorerAlone' /\ RestoreStands'
    <2>1. CASE EngineStarts
        <3>1. claim'["restore"] = Nobody /\ disturbed' = disturbed \cup {g \in Restorer : Running(g)}
            BY <2>1 DEF EngineStarts, TypeOK, Kind
        <3>2. \A h \in Restorer : Running(h)' = Running(h)
            BY <1>1 DEF Running
        <3> QED BY <3>1, <3>2 DEF RestorerAlone, RestoreStands
    <2>2. CASE EngineStops
        <3>1. RestoreSame
            BY <2>2, <1>1 DEF EngineStops, RestoreSame, Running
        <3> QED BY <3>1, RestoreFrame
    <2>3. ASSUME NEW f \in Datum, EngineWrites(f) PROVE RestorerAlone' /\ RestoreStands'
        <3>1. online /\ UNCHANGED <<online, task, claim, disturbed>>
            BY <2>3 DEF EngineWrites
        <3> QED BY <3>1 DEF RestorerAlone, RestoreStands, Running
    <2> QED BY <2>1, <2>2, <2>3
<1> QED BY <1>2, <1>3, <1>4, <1>5, BackupFrame DEF Distinct
-----------------------------------------------------------------------------
LEMMA StepIInv == IInv /\ [Next]_vars => IInv'
<1> SUFFICES ASSUME IInv, [Next]_vars PROVE IInv'
    OBVIOUS
<1>1. ASSUME NEW g \in Goroutine,
             \/ StopForRestore(g) \/ BeginRestore(g) \/ Connected(g) \/ ConnectFails(g)
             \/ NotCancelled(g) \/ RestoreCancelled(g) \/ RestoreFails(g) \/ RestoreComplete(g)
             \/ CreateArchive(g) \/ BackupFails(g) \/ BackupCancelled(g) \/ BackupComplete(g)
             \/ \E t \in Target : CreateDataBackup(g, t)
             \/ \E f \in Datum : Extract(g, f) \/ ExtractPassesOver(g, f) \/ ExtractFails(g, f)
                                 \/ Archive(g, f) \/ SkipUnreadable(g, f)
      PROVE  IInv'
    BY <1>1, StopForRestoreStep, BeginRestoreStep, PlaceStep, RestorerEnds, RestoreCompleteStep,
       ExtractStep, PassesOverStep, CreateArchiveStep, BackupEnds, BackupCancelledStep, CreateDataBackupStep,
       ArchiveStep, SkipUnreadableStep
<1>2. CASE UNCHANGED vars
    <2>1. RestoreSame /\ BackupSame
        BY <1>2 DEF vars, RestoreSame, BackupSame, Running
    <2>2. TypeOK' /\ PcTellsKind'
        BY <1>2 DEF vars, IInv, TypeOK, PcTellsKind, At
    <2> QED BY <2>1, <2>2, RestoreFrame, BackupFrame DEF IInv, Distinct
<1> QED BY <1>1, <1>2, CancelStep, EngineStep DEF Next

(* Every variable of the restores and backups stays in its range.           *)
THEOREM TypeCorrect == Distinct /\ Spec => []TypeOK
<1>1. IInv => TypeOK
    BY DEF IInv
<1> QED BY <1>1, InitIInv, StepIInv, PTL DEF Spec

(* For any number of overlapping restores, backups and cancels: "complete"  *)
(* is true of a goroutine that was alone and passed over no entry, file or  *)
(* Close error (supervisor.go 1861-2660).                                   *)
THEOREM CompleteIsTrue == Distinct /\ Spec => []CompleteIsWhole
<1>1. IInv => CompleteIsWhole
    BY DEF IInv, RestoreStands, BackupStands, CompleteIsWhole
<1> QED BY <1>1, InitIInv, StepIInv, PTL DEF Spec
=============================================================================
