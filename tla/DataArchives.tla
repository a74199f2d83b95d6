----------------------------- MODULE DataArchives -----------------------------
(***************************************************************************)
(* The supervisor's own restoration of a snapshot into the data directory  *)
(* and its backup of that directory into an archive                        *)
(* (pkg/supervisor/supervisor.go, 1861-2660).  Both answer at once and go  *)
(* on in a goroutine; both keep one status and one cancel function,        *)
(* whichever goroutine set them last.  A restoration asks nobody whether   *)
(* it may start, a backup asks the status.                                 *)
(***************************************************************************)
EXTENDS FiniteSets

CONSTANTS
    Restorer,     \* goroutines that restore, each of them once
    Archiver,     \* goroutines that back up, each of them once
    Datum,        \* files of the data directory, and of every snapshot
    Target,       \* archive paths a request may name
    Nobody

VARIABLES
    datum,        \* who wrote each file: a restorer, "chain", or "torn"
    online,       \* the engine runs
    task,         \* each goroutine: where it is and its local variables
    stage,        \* the two statuses
    cancelOf,     \* the two cancel functions: whose context they cancel
    inode,        \* what each archive path leads to: the file a goroutine made
    written,      \* the data in each of these files
    claim,        \* history: who completed last, if nobody else has touched it
    disturbed     \* history: who skipped a file, ignored an error or was not alone

vars == <<datum, online, task, stage, cancelOf, inode, written, claim, disturbed>>
-----------------------------------------------------------------------------
Goroutine == Restorer \cup Archiver
Kind == {"restore", "backup"}
KindOf(g) == IF g \in Restorer THEN "restore" ELSE "backup"

Task == [pc : {"idle", "stopped", "connect", "create", "check", "copy", "close", "done"},
         todo : SUBSET Datum,               \* what is left of the archive, or of fileList
         target : Target \cup {Nobody},     \* targetFilePath
         file : Archiver \cup {Nobody},     \* outFile
         cancelled : BOOLEAN]               \* ctx
Fresh == [pc |-> "idle", todo |-> {}, target |-> Nobody, file |-> Nobody, cancelled |-> FALSE]

Init ==
    /\ datum = [f \in Datum |-> "chain"]
    /\ online \in BOOLEAN
    /\ task = [g \in Goroutine |-> Fresh]
    /\ stage = [k \in Kind |-> "idle"]
    /\ cancelOf = [k \in Kind |-> Nobody]
    /\ inode = [t \in Target |-> Nobody]
    /\ written = [g \in Archiver |-> {}]
    /\ claim = [k \in Kind |-> Nobody]
    /\ disturbed = {}

At(g, pc) == task[g].pc = pc
Running(g) == task[g].pc \notin {"idle", "stopped", "done"}

Goto(g, pc) == task' = [task EXCEPT ![g].pc = pc]

(* setSnapshotError, setSnapshotCancelled and their likes: the status may  *)
(* be another goroutine's by now.                                          *)
End(g, how) ==
    /\ task' = [task EXCEPT ![g] = [Fresh EXCEPT !.pc = "done", !.target = task[g].target]]
    /\ stage' = [stage EXCEPT ![KindOf(g)] = how]

Register(g, pc, t) ==
    /\ task' = [task EXCEPT ![g].pc = pc, ![g].todo = Datum, ![g].target = t]
    /\ stage' = [stage EXCEPT ![KindOf(g)] = "active"]
    /\ cancelOf' = [cancelOf EXCEPT ![KindOf(g)] = g]
    /\ claim' = [claim EXCEPT ![KindOf(g)] = Nobody]
-----------------------------------------------------------------------------
(* Restoration, of a download or of a local archive. *)

(* The node is stopped, as well as it can be. *)
StopForRestore(g) ==
    /\ At(g, "idle") /\ g \in Restorer
    /\ online' \in {online, FALSE}
    /\ Goto(g, "stopped")
    /\ UNCHANGED <<datum, stage, cancelOf, inode, written, claim, disturbed>>

(* Whoever restores at the same time, or a node that runs, is in the way. *)
Disturbing(g) == {h \in Restorer : h # g /\ Running(h)}

BeginRestore(g) ==
    /\ At(g, "stopped")
    /\ \E pc \in {"connect", "check"} : Register(g, pc, Nobody)
    /\ disturbed' = disturbed \cup Disturbing(g)
                    \cup (IF online \/ Disturbing(g) # {} THEN {g} ELSE {})
    /\ UNCHANGED <<datum, online, inode, written>>

Connected(g) ==
    /\ At(g, "connect") /\ ~task[g].cancelled
    /\ Goto(g, "check")
    /\ UNCHANGED <<datum, online, stage, cancelOf, inode, written, claim, disturbed>>

ConnectFails(g) ==
    /\ At(g, "connect")
    /\ End(g, IF task[g].cancelled THEN "cancelled" ELSE "error")
    /\ UNCHANGED <<datum, online, cancelOf, inode, written, claim, disturbed>>

(* The context is looked at before each piece. *)
NotCancelled(g) ==
    /\ At(g, "check") /\ ~task[g].cancelled
    /\ Goto(g, IF task[g].todo = {} THEN "close" ELSE "copy")
    /\ UNCHANGED <<datum, online, stage, cancelOf, inode, written, claim, disturbed>>

Extract(g, f) ==
    /\ At(g, "copy") /\ g \in Restorer /\ f \in task[g].todo
    /\ datum' = [datum EXCEPT ![f] = g]
    /\ task' = [task EXCEPT ![g].todo = @ \ {f}, ![g].pc = "check"]
    /\ UNCHANGED <<online, stage, cancelOf, inode, written, claim, disturbed>>

(* An entry with an absolute path, with ".." or of another kind than file   *)
(* or directory is not extracted, a directory may not be made and a file's  *)
(* Close may fail: nobody says so.                                          *)
ExtractPassesOver(g, f) ==
    /\ At(g, "copy") /\ g \in Restorer /\ f \in task[g].todo
    /\ datum' \in {datum, [datum EXCEPT ![f] = "torn"]}
    /\ task' = [task EXCEPT ![g].todo = @ \ {f}, ![g].pc = "check"]
    /\ disturbed' = disturbed \cup {g}
    /\ UNCHANGED <<online, stage, cancelOf, inode, written, claim>>

(* Mutant: the error of the write is not looked at. *)
ExtractFailsUnseen(g, f) ==
    /\ At(g, "copy") /\ g \in Restorer /\ f \in task[g].todo
    /\ datum' \in {datum, [datum EXCEPT ![f] = "torn"]}
    /\ task' = [task EXCEPT ![g].todo = @ \ {f}, ![g].pc = "check"]
    /\ UNCHANGED <<online, stage, cancelOf, inode, written, claim, disturbed>>

(* A cancel kills the tar of a download: that is an error of the write. *)
ExtractFails(g, f) ==
    /\ At(g, "copy") /\ g \in Restorer /\ f \in task[g].todo
    /\ datum' \in {datum, [datum EXCEPT ![f] = "torn"]}
    /\ End(g, "error")
    /\ UNCHANGED <<online, cancelOf, inode, written, claim, disturbed>>

RestoreCancelled(g) ==
    /\ g \in Restorer /\ task[g].cancelled
    /\ At(g, "check") \/ At(g, "close")
    /\ End(g, "cancelled")
    /\ UNCHANGED <<datum, online, cancelOf, inode, written, claim, disturbed>>

RestoreFails(g) ==
    /\ At(g, "close") /\ g \in Restorer
    /\ End(g, "error")
    /\ UNCHANGED <<datum, online, cancelOf, inode, written, claim, disturbed>>

Claimed(g) == claim' = [claim EXCEPT ![KindOf(g)] = IF g \in disturbed THEN Nobody ELSE g]

RestoreComplete(g) ==
    /\ At(g, "close") /\ g \in Restorer
    /\ End(g, "complete") /\ Claimed(g)
    /\ UNCHANGED <<datum, online, cancelOf, inode, written, disturbed>>
-----------------------------------------------------------------------------
(* Backup. *)

CreateDataBackup(g, t) ==
    /\ At(g, "idle") /\ g \in Archiver /\ stage["backup"] # "active"
    /\ Register(g, "create", t)
    /\ LET others == {h \in Archiver \ {g} : Running(h) /\ task[h].target = t}
       IN  disturbed' = disturbed \cup others \cup (IF others # {} THEN {g} ELSE {})
    /\ UNCHANGED <<datum, online, inode, written>>

(* A path that exists is truncated, under whoever writes it. *)
CreateArchive(g) ==
    /\ At(g, "create")
    /\ LET t == task[g].target
           i == IF inode[t] = Nobody THEN g ELSE inode[t]
       IN  /\ inode' = [inode EXCEPT ![t] = i]
           /\ written' = [written EXCEPT ![i] = {}]
           /\ task' = [task EXCEPT ![g].file = i, ![g].pc = "check"]
    /\ UNCHANGED <<datum, online, stage, cancelOf, claim, disturbed>>

Archive(g, f) ==
    /\ At(g, "copy") /\ g \in Archiver /\ f \in task[g].todo
    /\ written' = [written EXCEPT ![task[g].file] = @ \cup {f}]
    /\ task' = [task EXCEPT ![g].todo = @ \ {f}, ![g].pc = "check"]
    /\ UNCHANGED <<datum, online, stage, cancelOf, inode, claim, disturbed>>

(* A file that the walk passes over, or that cannot be opened, is not in    *)
(* the archive, and nobody says so.                                         *)
SkipUnreadable(g, f) ==
    /\ At(g, "copy") /\ g \in Archiver /\ f \in task[g].todo
    /\ task' = [task EXCEPT ![g].todo = @ \ {f}, ![g].pc = "check"]
    /\ disturbed' = disturbed \cup {g}
    /\ UNCHANGED <<datum, online, stage, cancelOf, inode, written, claim>>

BackupFails(g) ==
    /\ g \in Archiver
    /\ At(g, "create") \/ At(g, "copy")
    /\ End(g, "error")
    /\ UNCHANGED <<datum, online, cancelOf, inode, written, claim, disturbed>>

(* The path is removed, whoever's archive it leads to. *)
BackupCancelled(g) ==
    /\ g \in Archiver /\ task[g].cancelled
    /\ At(g, "check") \/ At(g, "copy")
    /\ inode' = [inode EXCEPT ![task[g].target] = Nobody]
    /\ End(g, "cancelled")
    /\ UNCHANGED <<datum, online, cancelOf, written, claim, disturbed>>

(* The errors of the three Close calls are ignored. *)
BackupComplete(g) ==
    /\ At(g, "close") /\ g \in Archiver
    /\ End(g, "complete")
    /\ \/ Claimed(g) /\ UNCHANGED disturbed
       \/ claim' = [claim EXCEPT !["backup"] = Nobody] /\ disturbed' = disturbed \cup {g}
    /\ UNCHANGED <<datum, online, cancelOf, inode, written>>
-----------------------------------------------------------------------------
(* Requests, and the engine. *)

(* CancelSnapshot and CancelDataBackup: the status is cancelled at once,   *)
(* even if nothing runs.                                                   *)
Cancel(k) ==
    /\ task' = [g \in Goroutine |-> IF g = cancelOf[k] THEN [task[g] EXCEPT !.cancelled = TRUE]
                                    ELSE task[g]]
    /\ cancelOf' = [cancelOf EXCEPT ![k] = Nobody]
    /\ stage' = [stage EXCEPT ![k] = "cancelled"]
    /\ claim' = [claim EXCEPT ![k] = Nobody]
    /\ UNCHANGED <<datum, online, inode, written, disturbed>>

(* Nothing keeps the node from being started. *)
EngineStarts ==
    /\ ~online /\ online' = TRUE
    /\ disturbed' = disturbed \cup {g \in Restorer : Running(g)}
    /\ claim' = [claim EXCEPT !["restore"] = Nobody]
    /\ UNCHANGED <<datum, task, stage, cancelOf, inode, written>>

EngineStops ==
    /\ online /\ online' = FALSE
    /\ UNCHANGED <<datum, task, stage, cancelOf, inode, written, claim, disturbed>>

EngineWrites(f) ==
    /\ online
    /\ datum' = [datum EXCEPT ![f] = "chain"]
    /\ UNCHANGED <<online, task, stage, cancelOf, inode, written, claim, disturbed>>

Next ==
    \/ \E g \in Goroutine :
         \/ StopForRestore(g) \/ BeginRestore(g) \/ Connected(g) \/ ConnectFails(g)
         \/ NotCancelled(g) \/ RestoreCancelled(g) \/ RestoreFails(g) \/ RestoreComplete(g)
         \/ CreateArchive(g) \/ BackupFails(g) \/ BackupCancelled(g) \/ BackupComplete(g)
         \/ \E t \in Target : CreateDataBackup(g, t)
         \/ \E f \in Datum : Extract(g, f) \/ ExtractPassesOver(g, f) \/ ExtractFails(g, f)
                             \/ Archive(g, f) \/ SkipUnreadable(g, f)
    \/ \E k \in Kind : Cancel(k)
    \/ EngineStarts \/ EngineStops
    \/ \E f \in Datum : EngineWrites(f)

Spec == Init /\ [][Next]_vars
-----------------------------------------------------------------------------
TypeOK ==
    /\ datum \in [Datum -> Restorer \cup {"chain", "torn"}]
    /\ online \in BOOLEAN
    /\ task \in [Goroutine -> Task]
    /\ stage \in [Kind -> {"idle", "active", "complete", "error", "cancelled"}]
    /\ cancelOf \in [Kind -> Goroutine \cup {Nobody}]
    /\ inode \in [Target -> Archiver \cup {Nobody}]
    /\ written \in [Archiver -> SUBSET Datum]
    /\ claim \in [Kind -> Goroutine \cup {Nobody}]
    /\ disturbed \subseteq Goroutine

(* A status that says complete is true, of a goroutine that was alone and   *)
(* passed over nothing (supervisor.go:2228-2268, 2570-2601: entries that    *)
(* are not extracted, files that are not archived, Close errors): every     *)
(* file of the snapshot is in the data directory, or the archive at its     *)
(* path has every file of the directory, whatever was cancelled, failed or  *)
(* started in between.                                                      *)
CompleteIsWhole ==
    /\ claim["restore"] # Nobody => \A f \in Datum : datum[f] = claim["restore"]
    /\ \A g \in Archiver : claim["backup"] = g =>
         LET i == inode[task[g].target] IN i # Nobody /\ written[i] = Datum
=============================================================================
