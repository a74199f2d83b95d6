---------------------------- MODULE SnapshotManager ----------------------------
(***************************************************************************)
(* pkg/snapshot/manager.go: creating a snapshot of the data directory and  *)
(* restoring it from a local archive or from a signed remote one.          *)
(*                                                                         *)
(* Every operation is a goroutine; status and cancelFunc are all that they *)
(* share, besides the node and the data directory.  The busy check looks   *)
(* at the stage, so that more than one operation can be under way: history *)
(* variable lapses says when that has happened, and when somebody started  *)
(* the node under an operation.                                            *)
(***************************************************************************)
EXTENDS Integers, FiniteSets

CONSTANTS
    Ops,         \* the operations, in any order; a bound on their number
    Kinds,       \* of {"create", "local", "remote"}
    Formats,     \* of {"tar", "xz"}: unpacked by archive/tar or by the tar command
    Files,       \* of the data directory
    Archive,     \* those that the archives hold
    None

ASSUME KindsAssumption == Kinds \subseteq {"create", "local", "remote"}
ASSUME FormatsAssumption == Formats \subseteq {"tar", "xz"}
ASSUME FilesAssumption == Archive \subseteq Files /\ Archive # {}
ASSUME NoneAssumption ==
    None \notin Ops \cup Files \cup Kinds \cup Formats \cup {"completed", "error", "cancelled"}

VARIABLES
    stage,       \* status.Stage
    cancelFunc,  \* the operation whose context it cancels
    op,          \* the goroutines
    running,     \* what NodeController.IsRunning says
    dir,         \* where each file of the data directory comes from
    lapses,      \* history: "overlap" and "node"
    passed       \* history: the files that the last operation, alone, passed over

vars == <<stage, cancelFunc, op, running, dir, lapses, passed>>

-----------------------------------------------------------------------------
Busy     == {"archiving", "downloading", "extracting"}
Outcomes == {"completed", "error", "cancelled"}
Stages   == {"idle", "fetching_manifest", "verifying_signature", "verifying_checksum"}
                \cup Busy \cup Outcomes

Network == {"manifest", "verify", "connect", "extract", "copy"}
Work    == {"open", "connect", "extract", "copy", "checksum", "archive"}
Before  == {"manifest", "verify", "check", "stop"}
Steps   == {"none", "resume", "done"} \cup Before \cup Work

(* todo and created are the files to come and those of createdPaths; out   *)
(* and archived are the archive that a create writes.                      *)
Op == [pc : Steps, kind : Kinds \cup {None}, format : Formats \cup {None},
       cancelled : BOOLEAN, wasRunning : BOOLEAN,
       todo : SUBSET Files, file : Files \cup {None}, created : SUBSET Files,
       out : {"none", "there", "left"}, archived : SUBSET Files, outcome : Outcomes \cup {None}]

(* A file is the one that was there before, or of an operation's archive;  *)
(* it is only a part of it as long as it is being copied, and "left" when  *)
(* it should have been removed and could not be.                           *)
Content == [from : Ops \cup {None}, is : {"whole", "part", "left", "removed"}]

Active(o)  == op[o].pc \notin {"none", "resume", "done"}
Working(o) == op[o].pc \in Work

Fresh == [pc |-> "none", kind |-> None, format |-> None, cancelled |-> FALSE,
          wasRunning |-> FALSE, todo |-> {}, file |-> None, created |-> {},
          out |-> "none", archived |-> {}, outcome |-> None]

Init ==
    /\ stage = "idle" /\ cancelFunc = None
    /\ op = [o \in Ops |-> Fresh]
    /\ running \in BOOLEAN
    /\ dir = [f \in Files |-> [from |-> None, is |-> "whole"]]
    /\ lapses = {} /\ passed = {}

GoTo(o, pc) == op' = [op EXCEPT ![o].pc = pc]

(* The code ignores many an error: files are left out of an archive, not   *)
(* extracted from it, or not properly closed, without a word.              *)
PassOver(files) ==
    passed' = IF "overlap" \in lapses THEN passed ELSE passed \cup files

-----------------------------------------------------------------------------
(* The calls of the API.                                                   *)

busy == stage \in Busy

FirstStage(k) == CASE k = "create" -> "archiving"
                   [] k = "local"  -> "extracting"
                   [] k = "remote" -> "fetching_manifest"

FirstStep(k) == IF k = "remote" THEN "manifest" ELSE "check"

Start(o, k, format) ==
    /\ op[o].pc = "none" /\ ~busy
    /\ stage' = FirstStage(k)
    /\ cancelFunc' = o
    /\ op' = [op EXCEPT ![o] = [Fresh EXCEPT !.pc = FirstStep(k), !.kind = k,
                                             !.format = format]]
    /\ lapses' = lapses \cup (IF \E p \in Ops : op[p].pc \notin {"none", "done"}
                              THEN {"overlap"} ELSE {})
    /\ passed' = {}
    /\ UNCHANGED <<running, dir>>

Cancel ==
    /\ cancelFunc # None
    /\ op' = [op EXCEPT ![cancelFunc].cancelled = TRUE]
    /\ stage' = "cancelled"
    /\ UNCHANGED <<cancelFunc, running, dir, lapses, passed>>

Reset ==
    /\ stage \notin Busy
    /\ stage' = "idle"
    /\ UNCHANGED <<cancelFunc, op, running, dir, lapses, passed>>

(* The node, as others start and stop it. *)
NodeStart ==
    /\ ~running
    /\ running' = TRUE
    /\ lapses' = lapses \cup (IF \E o \in Ops : Working(o) THEN {"node"} ELSE {})
    /\ UNCHANGED <<stage, cancelFunc, op, dir, passed>>

NodeStop == running /\ running' = FALSE /\ UNCHANGED <<stage, cancelFunc, op, dir, lapses, passed>>

-----------------------------------------------------------------------------
(* What the goroutines have in common.                                     *)

(* The last word of a goroutine, which leaves its context cancelled.  A    *)
(* create starts the node again if it has stopped it.  Mutant: only when   *)
(* it is completed.                                                        *)
resumeIfCompleted(o, s) == op[o].wasRunning /\ s = "completed"
resumes(o, s) == op[o].wasRunning

Finish(o, s, out, archived) ==
    /\ op' = [op EXCEPT ![o].pc = IF resumes(o, s) THEN "resume" ELSE "done",
                        ![o].outcome = s, ![o].todo = {}, ![o].file = None,
                        ![o].created = {}, ![o].cancelled = TRUE,
                        ![o].out = out, ![o].archived = archived]
    /\ UNCHANGED <<cancelFunc, running, lapses>>

Complete(o, archived) == stage' = "completed" /\ Finish(o, "completed", op[o].out, archived)

Fail(o, s, out) == stage' = s /\ Finish(o, s, out, {}) /\ UNCHANGED passed

(* Mutant: only the message is set. *)
setMessage(o) == Finish(o, "error", op[o].out, {}) /\ UNCHANGED <<stage, passed>>
setError(o) == Fail(o, "error", op[o].out)

(* An error is called a cancellation when the context was cancelled. *)
EndFailed(o) == Fail(o, IF op[o].cancelled THEN "cancelled" ELSE "error", op[o].out)

WorkStep(o) == CASE op[o].kind = "create" -> "archive"
                 [] op[o].kind = "local"  -> "open"
                 [] op[o].kind = "remote" -> "connect"

(* Mutant: a running node is left alone. *)
neverStop(o) == WorkStep(o)
afterCheck(o) == IF running THEN "stop" ELSE WorkStep(o)

(* What a goroutine does when the node is out of its way. *)
Begin(o) ==
    /\ stage' = IF op[o].kind = "remote" THEN "downloading" ELSE stage
    /\ UNCHANGED <<cancelFunc, dir, lapses, passed>>

CheckNode(o) ==
    /\ op[o].pc = "check"
    /\ op' = [op EXCEPT ![o].pc = afterCheck(o),
                        ![o].wasRunning = running /\ op[o].kind = "create",
                        ![o].todo = IF op[o].kind = "create" THEN Files ELSE Archive]
    /\ IF op'[o].pc = "stop" THEN UNCHANGED <<stage, cancelFunc, dir, lapses, passed>> ELSE Begin(o)
    /\ UNCHANGED running

StopNode(o) ==
    /\ op[o].pc = "stop"
    /\ running' = FALSE
    /\ GoTo(o, WorkStep(o))
    /\ Begin(o)

-----------------------------------------------------------------------------
(* CreateLocalSnapshot.                                                    *)

(* A file goes to the archive. *)
ArchiveFile(o) ==
    /\ op[o].pc = "archive" /\ op[o].todo # {} /\ ~op[o].cancelled
    /\ \E f \in op[o].todo :
          op' = [op EXCEPT ![o].todo = @ \ {f}, ![o].archived = @ \cup {f}, ![o].out = "there"]
    /\ UNCHANGED <<stage, cancelFunc, running, dir, lapses, passed>>

(* The walk does not list a file, or it cannot be read: it is passed over. *)
SkipFile(o) ==
    /\ op[o].pc = "archive" /\ op[o].todo # {} /\ ~op[o].cancelled
    /\ \E f \in op[o].todo :
          /\ op' = [op EXCEPT ![o].todo = @ \ {f}, ![o].out = "there"]
          /\ PassOver({f})
    /\ UNCHANGED <<stage, cancelFunc, running, dir, lapses>>

(* The archive file cannot be created, or a write to it fails. *)

ArchiveFails(o) ==
    /\ op[o].pc = "archive"
    /\ setError(o)
    /\ UNCHANGED dir

(* The archive is removed, as far as os.Remove does it. *)
ArchiveCancelled(o) ==
    /\ op[o].pc = "archive" /\ op[o].todo # {} /\ op[o].cancelled
    /\ \E out \in {"none", "left"} : Fail(o, "cancelled", out)
    /\ UNCHANGED dir

(* The errors of the Close calls are ignored: what they should have        *)
(* written out may be lost.                                                *)
ArchiveDone(o) ==
    /\ op[o].pc = "archive" /\ op[o].todo = {}
    /\ \E lost \in SUBSET op[o].archived :
          Complete(o, op[o].archived \ lost) /\ PassOver(lost)
    /\ UNCHANGED dir

(* The deferred StartNode. *)
ResumeNode(o) ==
    /\ op[o].pc = "resume"
    /\ running' = TRUE
    /\ op' = [op EXCEPT ![o].pc = "done", ![o].wasRunning = FALSE]
    /\ lapses' = lapses \cup (IF \E p \in Ops : Working(p) THEN {"node"} ELSE {})
    /\ UNCHANGED <<stage, cancelFunc, dir, passed>>

-----------------------------------------------------------------------------
(* RestoreRemoteSnapshot: the steps before the download.                   *)

FetchManifest(o) ==
    /\ op[o].pc = "manifest"
    /\ \/ /\ ~op[o].cancelled
          /\ stage' = "verifying_signature"
          /\ GoTo(o, "verify")
          /\ UNCHANGED <<cancelFunc, running, lapses, passed>>
       \/ setError(o)
    /\ UNCHANGED dir

(* SHA256SUMS and its signature are fetched, and compared to the manifest. *)
VerifySignature(o) ==
    /\ op[o].pc = "verify"
    /\ \/ /\ ~op[o].cancelled
          /\ GoTo(o, "check")
          /\ UNCHANGED <<stage, cancelFunc, running, lapses, passed>>
       \/ setError(o)
    /\ UNCHANGED dir

Connect(o) ==
    /\ op[o].pc = "connect"
    /\ \/ /\ ~op[o].cancelled
          /\ GoTo(o, "extract")
          /\ UNCHANGED <<stage, cancelFunc, running, lapses, passed>>
       \/ EndFailed(o)
       \/ setError(o)
    /\ UNCHANGED dir

(* RestoreLocalSnapshot: the archive is opened. *)
OpenArchive(o) ==
    /\ op[o].pc = "open"
    /\ \/ /\ GoTo(o, "extract")
          /\ UNCHANGED <<stage, cancelFunc, running, lapses, passed>>
       \/ setError(o)
    /\ UNCHANGED dir

-----------------------------------------------------------------------------
(* extractArchiveStream.                                                   *)

(* Files are removed, as far as os.Remove and os.RemoveAll do it. *)
Removed(files, left) ==
    [f \in Files |-> IF f \in files \ left
                     THEN [from |-> None, is |-> "removed"]
                     ELSE IF f \in files /\ dir[f].from # None
                          THEN [dir[f] EXCEPT !.is = "left"] ELSE dir[f]]

Remove(files) ==
    \E left \in SUBSET {f \in files : dir[f].is # "removed"} : dir' = Removed(files, left)

(* createdPaths has the files opened so far, but none of those that the    *)
(* tar command writes.  Mutant: it has those that were not there before.   *)
opensNew(o, f) == IF op[o].format = "tar" /\ dir[f].is = "removed" THEN {f} ELSE {}
opens(o, f) == IF op[o].format = "tar" THEN {f} ELSE {}

ExtractFile(o) ==
    /\ op[o].pc = "extract" /\ op[o].todo # {} /\ ~op[o].cancelled
    /\ \E f \in op[o].todo :
          /\ op' = [op EXCEPT ![o].pc = "copy", ![o].file = f, ![o].todo = @ \ {f},
                              ![o].created = @ \cup opens(o, f)]
          /\ dir' = [dir EXCEPT ![f] = [from |-> o, is |-> "part"]]
    /\ UNCHANGED <<stage, cancelFunc, running, lapses, passed>>

(* An entry with a path that leads out of the directory, or that is        *)
(* neither a file nor a directory, is skipped.                             *)
SkipEntry(o) ==
    /\ op[o].pc = "extract" /\ op[o].todo # {} /\ ~op[o].cancelled
    /\ op[o].format = "tar"
    /\ \E f \in op[o].todo :
          op' = [op EXCEPT ![o].todo = @ \ {f}] /\ PassOver({f})
    /\ UNCHANGED <<stage, cancelFunc, running, dir, lapses>>

(* Mutant: the file is not closed. *)
leaveOpen(o) == op' = [op EXCEPT ![o].pc = "extract"]
closeFile(o) == op' = [op EXCEPT ![o].pc = "extract", ![o].file = None]

CopyFile(o) ==
    /\ op[o].pc = "copy"
    /\ dir' = [dir EXCEPT ![op[o].file] = [from |-> o, is |-> "whole"]]
    /\ closeFile(o)
    /\ UNCHANGED <<stage, cancelFunc, running, lapses, passed>>

(* All is written but the Close fails, and the code goes on; the tar       *)
(* command reports it.                                                     *)
CloseFails(o) ==
    /\ op[o].pc = "copy" /\ op[o].format = "tar"
    /\ closeFile(o)
    /\ PassOver({op[o].file})
    /\ UNCHANGED <<stage, cancelFunc, running, dir, lapses>>

(* The archive ends early or is too large, a write fails, or the context   *)
(* is cancelled: what was created is removed.                              *)
ExtractFails(o) ==
    /\ op[o].pc \in {"extract", "copy"}
    /\ EndFailed(o)
    /\ Remove(op[o].created)

(* Mutant: a local restore is completed when the archive is exhausted or   *)
(* cancelled.                                                              *)
exhaustedOrCancelled(o) == op[o].todo = {} \/ op[o].cancelled
exhausted(o) == op[o].todo = {}

Extracted(o) ==
    /\ op[o].pc = "extract" /\ exhausted(o)
    /\ \/ op[o].kind = "local" /\ Complete(o, {}) /\ UNCHANGED passed
       \/ /\ op[o].kind = "remote"
          /\ stage' = "verifying_checksum"
          /\ GoTo(o, "checksum")
          /\ UNCHANGED <<cancelFunc, running, lapses, passed>>
    /\ UNCHANGED dir

VerifyChecksum(o) ==
    /\ op[o].pc = "checksum"
    /\ \/ Complete(o, {}) /\ UNCHANGED passed /\ UNCHANGED dir
       \/ setError(o) /\ Remove(Files)

-----------------------------------------------------------------------------
Goroutine(o) ==
    \/ CheckNode(o) \/ StopNode(o)
    \/ ArchiveFile(o) \/ SkipFile(o)
    \/ ArchiveFails(o) \/ ArchiveCancelled(o) \/ ArchiveDone(o)
    \/ ResumeNode(o)
    \/ FetchManifest(o) \/ VerifySignature(o) \/ Connect(o) \/ OpenArchive(o)
    \/ ExtractFile(o) \/ SkipEntry(o) \/ CopyFile(o) \/ CloseFails(o)
    \/ ExtractFails(o) \/ Extracted(o) \/ VerifyChecksum(o)

Next ==
    \/ \E o \in Ops, k \in Kinds :
          \E format \in IF k = "create" THEN {None} ELSE Formats : Start(o, k, format)
    \/ Cancel \/ Reset \/ NodeStart \/ NodeStop
    \/ \E o \in Ops : Goroutine(o)

Spec == Init /\ [][Next]_vars

(* The client has no timeout: a goroutine may wait for the network for     *)
(* ever, unless its context is cancelled.                                  *)
(* Mutant: a request is made without the context.                          *)
AnsweredWithoutContext(o) == Goroutine(o) /\ op[o].pc \notin Network
Answered(o) == Goroutine(o) /\ (op[o].pc \in Network => op[o].cancelled)

FairSpec == Spec /\ \A o \in Ops : WF_vars(Answered(o))

-----------------------------------------------------------------------------
TypeOK ==
    /\ stage \in Stages
    /\ cancelFunc \in Ops \cup {None}
    /\ op \in [Ops -> Op]
    /\ running \in BOOLEAN
    /\ dir \in [Files -> Content]
    /\ lapses \subseteq {"overlap", "node"}
    /\ passed \subseteq Files
    /\ \A o \in Ops : /\ op[o].pc = "copy" <=> op[o].file # None
                      /\ op[o].pc # "none" => op[o].kind # None

(* The manager is never left busy by goroutines that are gone, in whatever *)
(* order they overwrite each other's stage.                                *)
BusyMeansActive == stage \in Busy => \E o \in Ops : Active(o)

(* The stage "completed" is the outcome of the last operation.  What it    *)
(* did not pass over in silence is in its place, whole: every file of the  *)
(* directory in the new archive, or every file of the archive in the       *)
(* directory, unless operations have overlapped.                           *)
CompletedMeansRestored ==
    stage = "completed" /\ "overlap" \notin lapses =>
        LET last == op[cancelFunc] IN
        /\ last.outcome = "completed"
        /\ last.kind = "create" => Files \ passed \subseteq last.archived
        /\ last.kind # "create" =>
              \A f \in Archive \ passed :
                  dir[f] = [from |-> cancelFunc, is |-> "whole"]

(* A restore that failed or was cancelled leaves no file of its archive    *)
(* behind, whole or in part, unless the tar command did the work or        *)
(* os.Remove could not, and a cancelled create no archive; not even when   *)
(* operations overlap.                                                     *)
FailedLeavesNothing ==
    \A o \in Ops : op[o].outcome \in {"error", "cancelled"} =>
        /\ op[o].format = "tar" => \A f \in Files : dir[f].from = o => dir[f].is = "left"
        /\ op[o].outcome = "cancelled" => op[o].out # "there"

(* The data directory is read and written beside a running node only if    *)
(* somebody started it meanwhile.                                          *)
NodeOutOfTheWay ==
    running /\ (\E o \in Ops : Working(o)) => lapses # {}

(* The inductive invariant. *)

(* An operation that is not over is the last one that was started. *)
LastIsAlone ==
    "overlap" \notin lapses =>
        \A o \in Ops : op[o].pc \notin {"none", "done"} => o = cancelFunc

(* Where a goroutine is says what it does and whether it is over. *)
PcTellsTask(o) ==
    /\ op[o].pc = "archive" => op[o].kind = "create"
    /\ op[o].pc \in {"open", "connect", "extract", "copy", "checksum"} =>
          op[o].kind # "create"
    /\ op[o].pc = "stop" /\ op[o].kind # "create" => op[o].todo = Archive
    /\ op[o].pc \in {"open", "connect"} => op[o].todo = Archive
    /\ op[o].pc = "checksum" => op[o].todo = {}
    /\ op[o].outcome # None <=> op[o].pc \in {"resume", "done"}
    /\ op[o].outcome # None => op[o].created = {}
    /\ op[o].outcome = "cancelled" => op[o].out # "there"
    /\ op[o].kind # "create" => op[o].out = "none"

(* A file of an archive is known to the goroutine that wrote it, or stays. *)
FilesAreKnown(o) ==
    /\ \A f \in Files : dir[f].from = o =>
          /\ op[o].pc \in {"extract", "copy", "checksum", "resume", "done"}
          /\ op[o].format = "tar" => \/ f \in op[o].created
                                     \/ op[o].outcome = "completed"
                                     \/ op[o].outcome # None /\ dir[f].is = "left"
    /\ op[o].pc = "copy" /\ op[o].format = "tar" => op[o].file \in op[o].created

(* What an operation has behind it, and did not pass over, is in the       *)
(* directory or in the archive.                                            *)
RestoredSoFar(o) ==
    /\ "overlap" \notin lapses /\ op[o].pc \in {"extract", "copy", "checksum"} =>
          \A f \in Archive \ (op[o].todo \cup {op[o].file} \cup passed) :
              dir[f] = [from |-> o, is |-> "whole"]
    /\ "overlap" \notin lapses /\ op[o].pc = "archive" =>
          Files \ (op[o].todo \cup passed) \subseteq op[o].archived
    /\ op[o].pc = "stop" /\ op[o].kind = "create" => op[o].todo = Files

Inv ==
    /\ TypeOK
    /\ BusyMeansActive /\ NodeOutOfTheWay
    /\ CompletedMeansRestored /\ FailedLeavesNothing
    /\ LastIsAlone
    /\ \A o \in Ops : PcTellsTask(o) /\ FilesAreKnown(o) /\ RestoredSoFar(o)

(* A cancelled operation ends, also one that waits for the network. *)
CancelledEnds == \A o \in Ops : op[o].cancelled ~> ~Active(o)

(* A create that has stopped the node starts it again, however it ends. *)
PausedNodeReturns == \A o \in Ops : op[o].wasRunning /\ Working(o) ~> running

(* pkg/snapshot/types.go:12: an operation is refused because "another      *)
(* snapshot operation is currently in progress".                           *)
OneAtATime == Cardinality({o \in Ops : Active(o)}) <= 1
=============================================================================
