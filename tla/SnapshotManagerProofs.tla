------------------------- MODULE SnapshotManagerProofs -------------------------
(***************************************************************************)
(* Proofs about SnapshotManager, for any number of operations, any files   *)
(* of the data directory and any part of them in the archives.             *)
(***************************************************************************)
EXTENDS SnapshotManager, TLAPS

-----------------------------------------------------------------------------
(* Type correctness. *)

(* The record of one operation may change to another record. *)
LEMMA OpUpdate ==
    ASSUME NEW o \in Ops, NEW r, op \in [Ops -> Op], r \in Op,
           op' = [op EXCEPT ![o] = r]
    PROVE  op' \in [Ops -> Op] /\ op'[o] = r /\ \A p \in Ops \ {o} : op'[p] = op[p]
  OBVIOUS

(* A fresh operation is an operation. *)
LEMMA FreshIsOp == Fresh \in Op
  BY DEF Fresh, Op, Steps, Before, Work

(* Going on with another step changes nothing else of an operation. *)
LEMMA GoToOp ==
    ASSUME NEW o \in Ops, NEW pc \in Steps, op \in [Ops -> Op], GoTo(o, pc)
    PROVE  /\ op' \in [Ops -> Op]
           /\ op'[o] = [op[o] EXCEPT !.pc = pc]
           /\ \A p \in Ops \ {o} : op'[p] = op[p]
  BY DEF GoTo, Op

(* What the end of an operation leaves of it. *)
LEMMA FinishOp ==
    ASSUME NEW o \in Ops, NEW s \in Outcomes, NEW out \in {"none", "there", "left"},
           NEW archived \in SUBSET Files,
           op \in [Ops -> Op], Finish(o, s, out, archived)
    PROVE  /\ op' \in [Ops -> Op]
           /\ op'[o].pc \in {"resume", "done"} /\ op'[o].outcome = s
           /\ op'[o].kind = op[o].kind /\ op'[o].format = op[o].format
           /\ op'[o].file = None /\ op'[o].created = {}
           /\ op'[o].out = out /\ op'[o].archived = archived
           /\ \A p \in Ops \ {o} : op'[p] = op[p]
           /\ UNCHANGED <<cancelFunc, running, lapses>>
<1> DEFINE pc == IF resumes(o, s) THEN "resume" ELSE "done"
<1>1. op[o] \in Op
      OBVIOUS
<1>2. pc \in {"resume", "done"}
      OBVIOUS
<1>3. /\ op' = [op EXCEPT ![o].pc = pc, ![o].outcome = s, ![o].todo = {},
                          ![o].file = None, ![o].created = {},
                          ![o].cancelled = TRUE, ![o].out = out, ![o].archived = archived]
      /\ UNCHANGED <<cancelFunc, running, lapses>>
      BY DEF Finish
<1> HIDE DEF pc
<1>4. op' = [op EXCEPT ![o] = [op[o] EXCEPT !.pc = pc, !.outcome = s, !.todo = {},
                                            !.file = None, !.created = {},
                                            !.cancelled = TRUE, !.out = out,
                                            !.archived = archived]]
      BY <1>3
<1> QED BY <1>1, <1>2, <1>3, <1>4 DEF Op, Steps

(* An operation that ends: it is known how, and what is left of it. *)
Ends(o, s) ==
    /\ stage' = s
    /\ op' \in [Ops -> Op] /\ \A p \in Ops \ {o} : op'[p] = op[p]
    /\ op'[o].pc \in {"resume", "done"} /\ op'[o].outcome = s
    /\ op'[o].kind = op[o].kind /\ op'[o].format = op[o].format
    /\ op'[o].file = None /\ op'[o].created = {}
    /\ UNCHANGED <<cancelFunc, running, lapses>>

(* The same, under the names that the steps use. *)
LEMMA FailOp ==
    ASSUME NEW o \in Ops, NEW s \in {"error", "cancelled"},
           NEW out \in {"none", "there", "left"}, op \in [Ops -> Op], Fail(o, s, out)
    PROVE  Ends(o, s) /\ op'[o].out = out /\ passed' = passed
<1>1. {} \in SUBSET Files /\ s \in Outcomes
      BY DEF Outcomes
<1> QED BY <1>1, FinishOp DEF Fail, Ends

LEMMA SetErrorOp ==
    ASSUME NEW o \in Ops, op \in [Ops -> Op], setError(o)
    PROVE  Ends(o, "error") /\ op'[o].out = op[o].out /\ passed' = passed
<1>1. op[o].out \in {"none", "there", "left"}
      BY DEF Op
<1> QED BY <1>1, FailOp DEF setError

LEMMA EndFailedOp ==
    ASSUME NEW o \in Ops, op \in [Ops -> Op], EndFailed(o)
    PROVE  /\ Ends(o, "error") \/ Ends(o, "cancelled")
           /\ op'[o].out = op[o].out /\ passed' = passed
<1>1. op[o].out \in {"none", "there", "left"}
      BY DEF Op
<1> QED BY <1>1, FailOp DEF EndFailed

LEMMA CompleteOp ==
    ASSUME NEW o \in Ops, NEW archived \in SUBSET Files, op \in [Ops -> Op],
           Complete(o, archived)
    PROVE  /\ Ends(o, "completed") /\ op'[o].out = op[o].out
           /\ op'[o].archived = archived
<1>1. op[o].out \in {"none", "there", "left"} /\ "completed" \in Outcomes
      BY DEF Op, Outcomes
<1> QED BY <1>1, FinishOp DEF Complete, Ends

(* The ways in which a goroutine can end. *)
EndWays(o) ==
    \/ setError(o) \/ EndFailed(o)
    \/ \E out \in {"none", "left"} : Fail(o, "cancelled", out)
    \/ \E archived \in SUBSET Files : Complete(o, archived)

LEMMA WaysOp ==
    ASSUME NEW o \in Ops, op \in [Ops -> Op], EndWays(o)
    PROVE  \E s \in Outcomes : Ends(o, s)
<1>1. CASE setError(o) \/ EndFailed(o)
      BY <1>1, SetErrorOp, EndFailedOp DEF Outcomes
<1>2. CASE \E out \in {"none", "left"} : Fail(o, "cancelled", out)
      BY <1>2, FailOp DEF Outcomes
<1>3. CASE \E archived \in SUBSET Files : Complete(o, archived)
      BY <1>3, CompleteOp DEF Outcomes
<1> QED BY <1>1, <1>2, <1>3 DEF EndWays

(* A create that is done ends in one of them. *)
LEMMA ArchiveDoneOp ==
    ASSUME NEW o \in Ops, op \in [Ops -> Op], ArchiveDone(o)
    PROVE  \E lost \in SUBSET Files :
              /\ op[o].archived \ lost \in SUBSET Files
              /\ Complete(o, op[o].archived \ lost)
              /\ PassOver(lost)
<1>1. op[o].archived \in SUBSET Files
      BY DEF Op
<1> QED BY <1>1 DEF ArchiveDone

(* What is passed over are files, and is remembered. *)
LEMMA PassedStep ==
    ASSUME NEW o \in Ops, TypeOK, Goroutine(o)
    PROVE  passed' \subseteq Files /\ passed \subseteq passed'
<1>1. ASSUME NEW files \in SUBSET Files, PassOver(files)
      PROVE  passed' \subseteq Files /\ passed \subseteq passed'
      BY <1>1 DEF PassOver, TypeOK
<1>2. CASE ArchiveDone(o)
      BY <1>1, <1>2, ArchiveDoneOp DEF TypeOK
<1>3. CASE SkipFile(o) \/ SkipEntry(o)
  <2>1. PICK f \in op[o].todo : PassOver({f})
        BY <1>3 DEF SkipFile, SkipEntry
  <2>2. f \in Files
        BY DEF TypeOK, Op
  <2> QED BY <1>1, <2>1, <2>2
<1>4. CASE CloseFails(o)
  <2>1. op[o].file \in Files
        BY <1>4 DEF CloseFails, TypeOK, Op
  <2> QED BY <1>1, <1>4, <2>1 DEF CloseFails
<1>5. CASE UNCHANGED passed
      BY <1>5 DEF TypeOK
<1> QED BY <1>2, <1>3, <1>4, <1>5
        DEF Goroutine, CheckNode, StopNode, Begin, ArchiveFile, ArchiveFails,
            ArchiveCancelled, ResumeNode, FetchManifest, VerifySignature, Connect,
            OpenArchive, ExtractFile, CopyFile, ExtractFails, Extracted, VerifyChecksum,
            setError, EndFailed, Fail

(* The first step of the work is one of the kind. *)
LEMMA WorkStepOp ==
    ASSUME NEW o \in Ops, TypeOK, op[o].pc # "none"
    PROVE  /\ WorkStep(o) \in {"archive", "open", "connect"}
           /\ WorkStep(o) = "archive" <=> op[o].kind = "create"
<1>1. op[o].kind \in {"create", "local", "remote"}
      BY KindsAssumption DEF TypeOK, Op
<1> QED BY <1>1 DEF WorkStep

(* What a file of the directory becomes when files are removed. *)
LEMMA RemovedFiles ==
    ASSUME NEW files, Remove(files), TypeOK
    PROVE  /\ dir' \in [Files -> Content]
           /\ \A f \in Files : \/ dir'[f] = dir[f] /\ (f \in files => dir[f].from = None)
                               \/ f \in files /\ dir'[f].from = None
                               \/ f \in files /\ dir'[f] = [dir[f] EXCEPT !.is = "left"]
<1>1. PICK left : dir' = Removed(files, left)
      BY DEF Remove
<1> QED BY <1>1 DEF Removed, TypeOK, Content

(* The record of an operation. *)
LEMMA IsOp ==
    ASSUME NEW o \in Ops, TypeOK
    PROVE  op[o] \in Op /\ op \in [Ops -> Op]
  BY DEF TypeOK

(* What the stop of the node and the check for it do to an operation. *)
LEMMA CheckNodeOp ==
    ASSUME NEW o \in Ops, TypeOK, CheckNode(o)
    PROVE  /\ op' \in [Ops -> Op]
           /\ op'[o].pc = IF running THEN "stop" ELSE WorkStep(o)
           /\ op'[o].kind = op[o].kind /\ op'[o].format = op[o].format
           /\ op'[o].file = op[o].file /\ op'[o].outcome = op[o].outcome
           /\ op'[o].created = op[o].created /\ op'[o].out = op[o].out
           /\ op'[o].todo = IF op[o].kind = "create" THEN Files ELSE Archive
           /\ \A p \in Ops \ {o} : op'[p] = op[p]
           /\ stage' = stage \/ stage' = "downloading"
           /\ UNCHANGED <<cancelFunc, running, dir, lapses, passed>>
<1> DEFINE pc == afterCheck(o)
           was == running /\ op[o].kind = "create"
           todo == IF op[o].kind = "create" THEN Files ELSE Archive
<1>1. op[o] \in Op /\ op[o].pc = "check" /\ running \in BOOLEAN
      BY DEF TypeOK, CheckNode
<1>2. pc \in Steps /\ pc = IF running THEN "stop" ELSE WorkStep(o)
      BY <1>1, WorkStepOp DEF afterCheck, Steps, Before, Work
<1>3. was \in BOOLEAN /\ todo \in SUBSET Files
      BY <1>1, FilesAssumption
<1>4. op' = [op EXCEPT ![o].pc = pc, ![o].wasRunning = was, ![o].todo = todo]
      BY DEF CheckNode
<1>5. todo = IF op[o].kind = "create" THEN Files ELSE Archive
      OBVIOUS
<1>6. /\ stage' = stage \/ stage' = "downloading"
      /\ UNCHANGED <<cancelFunc, running, dir, lapses, passed>>
      BY DEF CheckNode, Begin
<1> HIDE DEF pc, was, todo
<1>7. op' = [op EXCEPT ![o] = [op[o] EXCEPT !.pc = pc, !.wasRunning = was, !.todo = todo]]
      BY <1>4
<1> QED BY <1>1, <1>2, <1>3, <1>5, <1>6, <1>7 DEF TypeOK, Op

LEMMA StopNodeOp ==
    ASSUME NEW o \in Ops, TypeOK, StopNode(o)
    PROVE  /\ op' \in [Ops -> Op]
           /\ op'[o].pc = WorkStep(o)
           /\ op'[o].kind = op[o].kind /\ op'[o].format = op[o].format
           /\ op'[o].file = op[o].file /\ op'[o].outcome = op[o].outcome
           /\ op'[o].created = op[o].created /\ op'[o].out = op[o].out
           /\ op'[o].todo = op[o].todo
           /\ \A p \in Ops \ {o} : op'[p] = op[p]
           /\ stage' = stage \/ stage' = "downloading"
           /\ running' = FALSE
           /\ UNCHANGED <<cancelFunc, dir, lapses>>
<1>1. WorkStep(o) \in Steps
      BY WorkStepOp DEF StopNode, Steps, Work
<1> DEFINE pc == WorkStep(o)
<1>2. /\ GoTo(o, pc) /\ running' = FALSE /\ UNCHANGED <<cancelFunc, dir, lapses>>
      /\ stage' = stage \/ stage' = "downloading"
      BY DEF StopNode, Begin
<1>3. op \in [Ops -> Op] /\ op[o] \in Op
      BY DEF TypeOK
<1> HIDE DEF pc
<1>4. /\ op' \in [Ops -> Op] /\ op'[o] = [op[o] EXCEPT !.pc = pc]
      /\ \A p \in Ops \ {o} : op'[p] = op[p]
      BY <1>1, <1>2, <1>3, GoToOp DEF pc
<1>5. /\ op'[o].pc = pc
      /\ op'[o].kind = op[o].kind /\ op'[o].format = op[o].format
      /\ op'[o].file = op[o].file /\ op'[o].outcome = op[o].outcome
      /\ op'[o].created = op[o].created /\ op'[o].out = op[o].out
      /\ op'[o].todo = op[o].todo
      BY <1>3, <1>4 DEF Op
<1> QED BY <1>2, <1>4, <1>5 DEF pc

(* What the calls of the API do to an operation. *)
LEMMA StartOp ==
    ASSUME NEW o \in Ops, NEW k \in Kinds, NEW format \in Formats \cup {None},
           TypeOK, Start(o, k, format)
    PROVE  /\ op' \in [Ops -> Op] /\ \A p \in Ops \ {o} : op'[p] = op[p]
           /\ op'[o].pc \in {"manifest", "check"} /\ op'[o].kind = k
           /\ op'[o].file = None /\ op'[o].outcome = None /\ op'[o].out = "none"
           /\ stage' \in Stages \ Outcomes
<1> DEFINE pc == FirstStep(k)
           r == [Fresh EXCEPT !.pc = pc, !.kind = k, !.format = format]
<1>1. pc \in Steps /\ pc \in {"manifest", "check"}
      BY DEF FirstStep, Steps, Before
<1>2. op' = [op EXCEPT ![o] = r] /\ stage' = FirstStage(k)
      BY DEF Start
<1>3. FirstStage(k) \in Stages \ Outcomes
      BY KindsAssumption DEF FirstStage, Stages, Busy, Outcomes
<1> HIDE DEF pc
<1>4. /\ r \in Op /\ r.pc = pc /\ r.file = None /\ r.kind = k
      /\ r.outcome = None /\ r.out = "none"
      BY <1>1, FreshIsOp DEF Fresh, Op
<1> HIDE DEF r
<1>5. op' \in [Ops -> Op] /\ op'[o] = r /\ \A p \in Ops \ {o} : op'[p] = op[p]
      BY <1>2, <1>4, OpUpdate DEF TypeOK
<1> QED BY <1>1, <1>2, <1>3, <1>4, <1>5

LEMMA CancelOp ==
    ASSUME TypeOK, Cancel
    PROVE  /\ op' \in [Ops -> Op] /\ cancelFunc \in Ops
           /\ \A p \in Ops :
                 /\ op'[p].pc = op[p].pc /\ op'[p].kind = op[p].kind
                 /\ op'[p].format = op[p].format /\ op'[p].file = op[p].file
                 /\ op'[p].todo = op[p].todo /\ op'[p].created = op[p].created
                 /\ op'[p].out = op[p].out /\ op'[p].outcome = op[p].outcome
                 /\ op'[p].archived = op[p].archived
<1> DEFINE r == [op[cancelFunc] EXCEPT !.cancelled = TRUE]
<1>1. cancelFunc \in Ops /\ op[cancelFunc] \in Op /\ op' = [op EXCEPT ![cancelFunc] = r]
      BY DEF Cancel, TypeOK
<1>2. /\ r \in Op
      /\ r.pc = op[cancelFunc].pc /\ r.kind = op[cancelFunc].kind
      /\ r.format = op[cancelFunc].format /\ r.file = op[cancelFunc].file
      /\ r.todo = op[cancelFunc].todo /\ r.created = op[cancelFunc].created
      /\ r.out = op[cancelFunc].out /\ r.outcome = op[cancelFunc].outcome
      /\ r.archived = op[cancelFunc].archived
      BY <1>1 DEF Op
<1> HIDE DEF r
<1>3. /\ op' \in [Ops -> Op] /\ op'[cancelFunc] = r
      /\ \A p \in Ops \ {cancelFunc} : op'[p] = op[p]
      BY <1>1, <1>2, OpUpdate DEF TypeOK
<1> QED BY <1>1, <1>2, <1>3

(* What the other steps of a goroutine do to it. *)
LEMMA MovedOp ==
    ASSUME NEW o \in Ops, NEW pc \in Steps, TypeOK, GoTo(o, pc)
    PROVE  /\ op' \in [Ops -> Op] /\ \A p \in Ops \ {o} : op'[p] = op[p]
           /\ op'[o].pc = pc /\ op'[o].kind = op[o].kind
           /\ op'[o].format = op[o].format /\ op'[o].file = op[o].file
           /\ op'[o].todo = op[o].todo /\ op'[o].created = op[o].created
           /\ op'[o].out = op[o].out /\ op'[o].outcome = op[o].outcome
           /\ op'[o].archived = op[o].archived
<1>1. /\ op' \in [Ops -> Op] /\ op'[o] = [op[o] EXCEPT !.pc = pc]
      /\ \A p \in Ops \ {o} : op'[p] = op[p]
      BY GoToOp DEF TypeOK
<1> QED BY <1>1 DEF TypeOK, Op

LEMMA ArchiveFileOp ==
    ASSUME NEW o \in Ops, TypeOK, ArchiveFile(o) \/ SkipFile(o)
    PROVE  /\ op' \in [Ops -> Op] /\ \A p \in Ops \ {o} : op'[p] = op[p]
           /\ op'[o].pc = op[o].pc /\ op'[o].kind = op[o].kind
           /\ op'[o].format = op[o].format /\ op'[o].file = op[o].file
           /\ op'[o].outcome = op[o].outcome /\ op'[o].created = op[o].created
           /\ \E f \in op[o].todo :
                 /\ op'[o].todo = op[o].todo \ {f}
                 /\ op[o].archived \subseteq op'[o].archived
                 /\ f \in op'[o].archived \/ PassOver({f})
<1> DEFINE Archives(f, archived) ==
              /\ op' = [op EXCEPT ![o] = [op[o] EXCEPT !.todo = op[o].todo \ {f},
                                                       !.out = "there", !.archived = archived]]
              /\ archived = op[o].archived \cup {f} \/ PassOver({f})
<1>0. \E f \in op[o].todo :
         \E archived \in {op[o].archived, op[o].archived \cup {f}} : Archives(f, archived)
  <2>1. CASE ArchiveFile(o)
    <3>1. PICK f \in op[o].todo :
             op' = [op EXCEPT ![o].todo = op[o].todo \ {f},
                              ![o].archived = op[o].archived \cup {f}, ![o].out = "there"]
          BY <2>1 DEF ArchiveFile
    <3>2. op' = [op EXCEPT ![o] = [op[o] EXCEPT !.todo = op[o].todo \ {f}, !.out = "there",
                                               !.archived = op[o].archived \cup {f}]]
          BY <3>1
    <3> QED BY <3>2
  <2>2. CASE SkipFile(o)
    <3>1. PICK f \in op[o].todo :
             /\ op' = [op EXCEPT ![o].todo = op[o].todo \ {f}, ![o].out = "there"]
             /\ PassOver({f})
          BY <2>2 DEF SkipFile
    <3>2. /\ op[o] = [op[o] EXCEPT !.archived = op[o].archived]
          /\ op \in [Ops -> Op]
          BY DEF TypeOK, Op
    <3>3. op' = [op EXCEPT ![o] = [op[o] EXCEPT !.todo = op[o].todo \ {f}, !.out = "there",
                                               !.archived = op[o].archived]]
          BY <3>1, <3>2 DEF Op
    <3> QED BY <3>1, <3>3
  <2> QED BY <2>1, <2>2
<1>p. PICK f \in op[o].todo :
         \E archived \in {op[o].archived, op[o].archived \cup {f}} : Archives(f, archived)
      BY <1>0
<1>1. PICK archived \in {op[o].archived, op[o].archived \cup {f}} : Archives(f, archived)
      BY <1>p
<1> DEFINE r == [op[o] EXCEPT !.todo = op[o].todo \ {f}, !.out = "there", !.archived = archived]
<1>2. op[o] \in Op /\ f \in Files /\ archived \in SUBSET Files
      BY IsOp DEF Op
<1>3. /\ r \in Op /\ r.pc = op[o].pc /\ r.file = op[o].file /\ r.kind = op[o].kind
      /\ r.format = op[o].format /\ r.outcome = op[o].outcome /\ r.created = op[o].created
      /\ r.todo = op[o].todo \ {f} /\ r.archived = archived
      BY <1>2 DEF Op
<1> HIDE DEF r
<1>4. op' \in [Ops -> Op] /\ op'[o] = r /\ \A p \in Ops \ {o} : op'[p] = op[p]
      BY <1>1, <1>3, OpUpdate DEF TypeOK, r
<1> QED BY <1>1, <1>3, <1>4

LEMMA ResumeNodeOp ==
    ASSUME NEW o \in Ops, TypeOK, ResumeNode(o)
    PROVE  /\ op' \in [Ops -> Op] /\ \A p \in Ops \ {o} : op'[p] = op[p]
           /\ op'[o].pc = "done" /\ op'[o].kind = op[o].kind
           /\ op'[o].format = op[o].format /\ op'[o].file = op[o].file
           /\ op'[o].created = op[o].created
           /\ op'[o].out = op[o].out /\ op'[o].outcome = op[o].outcome
           /\ op'[o].archived = op[o].archived
<1> DEFINE r == [op[o] EXCEPT !.pc = "done", !.wasRunning = FALSE]
<1>1. op' = [op EXCEPT ![o] = r]
      BY DEF ResumeNode
<1>2. /\ r \in Op /\ r.pc = "done" /\ r.file = op[o].file /\ r.kind = op[o].kind
      /\ r.format = op[o].format /\ r.created = op[o].created
      /\ r.out = op[o].out /\ r.outcome = op[o].outcome /\ r.archived = op[o].archived
      BY IsOp DEF Op, Steps
<1> HIDE DEF r
<1>3. op' \in [Ops -> Op] /\ op'[o] = r /\ \A p \in Ops \ {o} : op'[p] = op[p]
      BY <1>1, <1>2, OpUpdate DEF TypeOK
<1> QED BY <1>2, <1>3

LEMMA ExtractFileOp ==
    ASSUME NEW o \in Ops, TypeOK, ExtractFile(o)
    PROVE  \E f \in op[o].todo :
           /\ f \in Files /\ dir' = [dir EXCEPT ![f] = [from |-> o, is |-> "part"]]
           /\ op' \in [Ops -> Op] /\ \A p \in Ops \ {o} : op'[p] = op[p]
           /\ op'[o].pc = "copy" /\ op'[o].kind = op[o].kind
           /\ op'[o].format = op[o].format /\ op'[o].file = f
           /\ op'[o].todo = op[o].todo \ {f}
           /\ op'[o].created = op[o].created \cup opens(o, f)
           /\ op'[o].out = op[o].out /\ op'[o].outcome = op[o].outcome
<1>1. PICK f \in op[o].todo :
         /\ op' = [op EXCEPT ![o].pc = "copy", ![o].file = f, ![o].todo = op[o].todo \ {f},
                             ![o].created = op[o].created \cup opens(o, f)]
         /\ dir' = [dir EXCEPT ![f] = [from |-> o, is |-> "part"]]
      BY DEF ExtractFile
<1> DEFINE r == [op[o] EXCEPT !.pc = "copy", !.file = f, !.todo = op[o].todo \ {f},
                              !.created = op[o].created \cup opens(o, f)]
<1>2. op[o] \in Op /\ f \in Files /\ opens(o, f) \subseteq Files
      BY DEF opens, TypeOK, Op
<1>3. /\ r \in Op /\ r.pc = "copy" /\ r.file = f /\ r.kind = op[o].kind
      /\ r.format = op[o].format /\ r.todo = op[o].todo \ {f}
      /\ r.created = op[o].created \cup opens(o, f)
      /\ r.out = op[o].out /\ r.outcome = op[o].outcome
      BY <1>2 DEF Op, Steps, Work
<1>4. op' = [op EXCEPT ![o] = r]
      BY <1>1
<1> HIDE DEF r
<1>5. op' \in [Ops -> Op] /\ op'[o] = r /\ \A p \in Ops \ {o} : op'[p] = op[p]
      BY <1>3, <1>4, OpUpdate DEF TypeOK
<1> WITNESS f \in op[o].todo
<1> QED BY <1>1, <1>2, <1>3, <1>5

LEMMA SkipEntryOp ==
    ASSUME NEW o \in Ops, TypeOK, SkipEntry(o)
    PROVE  /\ op' \in [Ops -> Op] /\ \A p \in Ops \ {o} : op'[p] = op[p]
           /\ op'[o].pc = op[o].pc /\ op'[o].kind = op[o].kind
           /\ op'[o].format = op[o].format /\ op'[o].file = op[o].file
           /\ op'[o].created = op[o].created
           /\ op'[o].out = op[o].out /\ op'[o].outcome = op[o].outcome
           /\ \E f \in op[o].todo : op'[o].todo = op[o].todo \ {f} /\ PassOver({f})
<1>1. PICK f \in op[o].todo :
         op' = [op EXCEPT ![o].todo = op[o].todo \ {f}] /\ PassOver({f})
      BY DEF SkipEntry
<1> DEFINE r == [op[o] EXCEPT !.todo = op[o].todo \ {f}]
<1>2. /\ r \in Op /\ r.pc = op[o].pc /\ r.file = op[o].file /\ r.kind = op[o].kind
      /\ r.format = op[o].format /\ r.todo = op[o].todo \ {f} /\ r.created = op[o].created
      /\ r.out = op[o].out /\ r.outcome = op[o].outcome
      BY IsOp DEF Op
<1>3. op' = [op EXCEPT ![o] = r]
      BY <1>1
<1> HIDE DEF r
<1>4. op' \in [Ops -> Op] /\ op'[o] = r /\ \A p \in Ops \ {o} : op'[p] = op[p]
      BY <1>2, <1>3, OpUpdate DEF TypeOK
<1> QED BY <1>1, <1>2, <1>4

(* A file that is closed, whether Close reports an error or not. *)
LEMMA CloseFileOp ==
    ASSUME NEW o \in Ops, TypeOK, op[o].pc = "copy", closeFile(o)
    PROVE  /\ op[o].file \in Files
           /\ op' \in [Ops -> Op] /\ \A p \in Ops \ {o} : op'[p] = op[p]
           /\ op'[o].pc = "extract" /\ op'[o].kind = op[o].kind
           /\ op'[o].format = op[o].format /\ op'[o].file = None
           /\ op'[o].todo = op[o].todo /\ op'[o].created = op[o].created
           /\ op'[o].out = op[o].out /\ op'[o].outcome = op[o].outcome
<1> DEFINE r == [op[o] EXCEPT !.pc = "extract", !.file = None]
<1>1. op' = [op EXCEPT ![o] = r]
      BY DEF closeFile
<1>2. op[o] \in Op /\ op[o].file \in Files
      BY DEF TypeOK, Op
<1>3. /\ r \in Op /\ r.pc = "extract" /\ r.file = None /\ r.kind = op[o].kind
      /\ r.format = op[o].format /\ r.todo = op[o].todo /\ r.created = op[o].created
      /\ r.out = op[o].out /\ r.outcome = op[o].outcome
      BY <1>2 DEF Op, Steps, Work
<1> HIDE DEF r
<1>4. op' \in [Ops -> Op] /\ op'[o] = r /\ \A p \in Ops \ {o} : op'[p] = op[p]
      BY <1>1, <1>3, OpUpdate DEF TypeOK
<1> QED BY <1>2, <1>3, <1>4

LEMMA CopyFileOp ==
    ASSUME NEW o \in Ops, TypeOK, CopyFile(o)
    PROVE  /\ dir'[op[o].file] = [from |-> o, is |-> "whole"]
           /\ \A g \in Files \ {op[o].file} : dir'[g] = dir[g]
           /\ dir' \in [Files -> Content]
           /\ op[o].pc = "copy" /\ closeFile(o) /\ op[o].file \in Files
<1>1. /\ op[o].pc = "copy" /\ closeFile(o)
      /\ dir' = [dir EXCEPT ![op[o].file] = [from |-> o, is |-> "whole"]]
      BY DEF CopyFile
<1>2. op[o].file \in Files
      BY <1>1, CloseFileOp
<1> QED BY <1>1, <1>2 DEF TypeOK, Content

-----------------------------------------------------------------------------
(* Type correctness. *)

(* What has to be shown of a step that changes one operation. *)
LEMMA TypeByOp ==
    ASSUME NEW o \in Ops, TypeOK,
           op' \in [Ops -> Op], \A p \in Ops \ {o} : op'[p] = op[p],
           op'[o].pc = "copy" <=> op'[o].file # None, op'[o].kind # None,
           stage' \in Stages, cancelFunc' \in Ops \cup {None}, running' \in BOOLEAN,
           dir' \in [Files -> Content], lapses' \subseteq {"overlap", "node"},
           passed' \subseteq Files
    PROVE  TypeOK'
<1>1. ASSUME NEW p \in Ops
      PROVE  /\ op'[p].pc = "copy" <=> op'[p].file # None
             /\ op'[p].pc # "none" => op'[p].kind # None
  <2>1. CASE p = o
        BY <2>1
  <2>2. CASE p # o
        BY <2>2 DEF TypeOK
  <2> QED BY <2>1, <2>2
<1> QED BY <1>1 DEF TypeOK

(* Every end of an operation keeps the types. *)
LEMMA TypeEnd ==
    ASSUME NEW o \in Ops, TypeOK, op[o].pc # "none", EndWays(o),
           dir' \in [Files -> Content], passed' \subseteq Files
    PROVE  TypeOK'
<1>1. op \in [Ops -> Op] /\ op[o].kind # None
      /\ cancelFunc \in Ops \cup {None} /\ running \in BOOLEAN
      /\ lapses \subseteq {"overlap", "node"}
      BY DEF TypeOK
<1>2. PICK s \in Outcomes : Ends(o, s)
      BY <1>1, WaysOp
<1>3. stage' \in Stages
      BY <1>2 DEF Ends, Stages
<1>4. /\ op' \in [Ops -> Op] /\ \A p \in Ops \ {o} : op'[p] = op[p]
      /\ op'[o].pc # "copy" /\ op'[o].file = None /\ op'[o].kind = op[o].kind
      /\ UNCHANGED <<cancelFunc, running, lapses>>
      BY <1>2 DEF Ends
<1> QED BY <1>1, <1>3, <1>4, TypeByOp

(* Every step that only moves a goroutine on keeps the types. *)
LEMMA TypeGoTo ==
    ASSUME NEW o \in Ops, NEW pc \in Steps \ {"none", "copy"}, TypeOK, GoTo(o, pc),
           op[o].pc \notin {"none", "copy"}, stage' \in Stages,
           UNCHANGED <<cancelFunc, running, dir, lapses, passed>>
    PROVE  TypeOK'
<1>1. /\ op[o].kind # None /\ op[o].file = None
      /\ cancelFunc \in Ops \cup {None} /\ running \in BOOLEAN
      /\ dir \in [Files -> Content] /\ lapses \subseteq {"overlap", "node"}
      /\ passed \subseteq Files
      BY DEF TypeOK
<1> QED BY <1>1, MovedOp, TypeByOp

(* Every step keeps every variable in its range. *)
LEMMA TypeStep ==
    TypeOK /\ [Next]_vars => TypeOK'
<1> SUFFICES ASSUME TypeOK, [Next]_vars
             PROVE  TypeOK'
    OBVIOUS
<1>0. /\ None \notin Ops \cup Files \cup Kinds /\ Archive \subseteq Files
      /\ \A p \in Ops : op[p] \in Op
      BY NoneAssumption, FilesAssumption DEF TypeOK
<1>1. ASSUME NEW o \in Ops, NEW k \in Kinds, NEW format \in Formats \cup {None},
             Start(o, k, format)
      PROVE  TypeOK'
  <2>1. /\ op' \in [Ops -> Op] /\ \A p \in Ops \ {o} : op'[p] = op[p]
        /\ op'[o].pc # "copy" /\ op'[o].file = None /\ op'[o].kind # None
        /\ stage' \in Stages
        BY <1>0, <1>1, StartOp
  <2>2. /\ cancelFunc' = o /\ UNCHANGED <<running, dir>> /\ passed' = {}
        /\ lapses' \subseteq lapses \cup {"overlap"}
        BY <1>1 DEF Start
  <2> QED BY <2>1, <2>2, TypeByOp DEF TypeOK
<1>2. CASE Cancel
  <2>1. /\ op' \in [Ops -> Op]
        /\ \A p \in Ops : /\ op'[p].pc = op[p].pc /\ op'[p].kind = op[p].kind
                          /\ op'[p].file = op[p].file
        BY <1>2, CancelOp
  <2>2. stage' \in Stages /\ UNCHANGED <<cancelFunc, running, dir, lapses, passed>>
        BY <1>2 DEF Cancel, Stages, Outcomes
  <2> QED BY <2>1, <2>2 DEF TypeOK
<1>3. CASE Reset
      BY <1>3 DEF Reset, TypeOK, Stages
<1>4. CASE NodeStart
      BY <1>4 DEF NodeStart, TypeOK
<1>5. CASE NodeStop
      BY <1>5 DEF NodeStop, TypeOK
<1>6. ASSUME NEW o \in Ops, Goroutine(o)
      PROVE  TypeOK'
  <2>0. CASE op[o].pc = "none"
        BY <1>6, <2>0 DEF Goroutine, CheckNode, StopNode, ArchiveFile, SkipFile, ArchiveFails,
           ArchiveCancelled, ArchiveDone, ResumeNode, FetchManifest, VerifySignature,
           Connect, OpenArchive, ExtractFile, SkipEntry, CopyFile, CloseFails, ExtractFails,
           Extracted, VerifyChecksum
  <2>p. passed' \subseteq Files
        BY <1>6, PassedStep
  <2> SUFFICES ASSUME op[o].pc # "none"
               PROVE  TypeOK'
      BY <2>0
  <2>1. CASE CheckNode(o)
    <3>0. op[o].pc = "check" /\ WorkStep(o) \notin {"none", "copy"}
          BY <2>1, WorkStepOp DEF CheckNode
    <3>1. op'[o].pc \notin {"none", "copy"} /\ op[o].pc # "copy"
          BY <2>1, <3>0, CheckNodeOp
    <3>2. op[o].file = None /\ op'[o].file = None /\ op'[o].kind = op[o].kind
          BY <2>1, <3>1, CheckNodeOp DEF TypeOK
    <3>3. op' \in [Ops -> Op] /\ \A p \in Ops \ {o} : op'[p] = op[p]
          BY <2>1, CheckNodeOp
    <3>4. stage' \in Stages /\ UNCHANGED <<cancelFunc, running, dir, lapses>>
          BY <2>1, CheckNodeOp DEF TypeOK, Stages, Busy
    <3> QED BY <1>0, <2>p, <3>1, <3>2, <3>3, <3>4, TypeByOp DEF TypeOK
  <2>2. CASE StopNode(o)
    <3>1. WorkStep(o) \notin {"none", "copy"} /\ op[o].pc # "copy"
          BY <2>2, WorkStepOp DEF StopNode
    <3>2. op'[o].pc = WorkStep(o) /\ op'[o].file = op[o].file /\ op'[o].kind = op[o].kind
          BY <2>2, StopNodeOp
    <3>3. op' \in [Ops -> Op] /\ \A p \in Ops \ {o} : op'[p] = op[p]
          BY <2>2, StopNodeOp
    <3>4. stage' \in Stages /\ running' = FALSE /\ UNCHANGED <<cancelFunc, dir, lapses>>
          BY <2>2, StopNodeOp DEF TypeOK, Stages, Busy
    <3>5. op[o].file = None
          BY <2>2, <3>1 DEF TypeOK
    <3> QED BY <1>0, <2>p, <3>1, <3>2, <3>3, <3>4, <3>5, TypeByOp DEF TypeOK
  <2>3. CASE ArchiveFile(o) \/ SkipFile(o)
    <3>1. UNCHANGED <<stage, cancelFunc, running, dir, lapses>> /\ op[o].pc = "archive"
          BY <2>3 DEF ArchiveFile, SkipFile
    <3> QED BY <2>3, <2>p, <3>1, ArchiveFileOp, TypeByOp DEF TypeOK
  <2>4. CASE ArchiveFails(o) \/ ArchiveCancelled(o) \/ ArchiveDone(o)
    <3>1. EndWays(o) /\ UNCHANGED dir
          BY <2>4, ArchiveDoneOp DEF ArchiveFails, ArchiveCancelled, ArchiveDone, EndWays, TypeOK
    <3> QED BY <2>p, <3>1, TypeEnd DEF TypeOK
  <2>5. CASE ResumeNode(o)
    <3>1. op[o].kind # None /\ op[o].file = None
          BY <2>5 DEF ResumeNode, TypeOK
    <3>2. /\ running' = TRUE /\ UNCHANGED <<stage, cancelFunc, dir>>
          /\ lapses' \subseteq lapses \cup {"node"}
          BY <2>5 DEF ResumeNode
    <3> QED BY <2>5, <2>p, <3>1, <3>2, ResumeNodeOp, TypeByOp DEF TypeOK
  <2>6. CASE FetchManifest(o)
    <3>1. CASE /\ GoTo(o, "verify") /\ stage' = "verifying_signature"
               /\ UNCHANGED <<cancelFunc, running, lapses, passed>>
          BY <2>6, <3>1, TypeGoTo DEF FetchManifest, Steps, Before, Stages
    <3> QED BY <2>6, <2>p, <3>1, TypeEnd DEF FetchManifest, EndWays, TypeOK
  <2>7. CASE VerifySignature(o)
    <3>1. CASE GoTo(o, "check") /\ UNCHANGED <<stage, cancelFunc, running, lapses, passed>>
          BY <2>7, <3>1, TypeGoTo DEF VerifySignature, Steps, Before, TypeOK
    <3> QED BY <2>7, <2>p, <3>1, TypeEnd DEF VerifySignature, EndWays, TypeOK
  <2>8. CASE Connect(o)
    <3>1. CASE GoTo(o, "extract") /\ UNCHANGED <<stage, cancelFunc, running, lapses, passed>>
          BY <2>8, <3>1, TypeGoTo DEF Connect, Steps, Work, TypeOK
    <3> QED BY <2>8, <2>p, <3>1, TypeEnd DEF Connect, EndWays, TypeOK
  <2>9. CASE OpenArchive(o)
    <3>1. CASE GoTo(o, "extract") /\ UNCHANGED <<stage, cancelFunc, running, lapses, passed>>
          BY <2>9, <3>1, TypeGoTo DEF OpenArchive, Steps, Work, TypeOK
    <3> QED BY <2>9, <2>p, <3>1, TypeEnd DEF OpenArchive, EndWays, TypeOK
  <2>10. CASE ExtractFile(o)
    <3>1. /\ op' \in [Ops -> Op] /\ \A p \in Ops \ {o} : op'[p] = op[p]
          /\ op'[o].pc = "copy" /\ op'[o].file \in Files /\ op'[o].kind = op[o].kind
          /\ \E f \in Files : dir' = [dir EXCEPT ![f] = [from |-> o, is |-> "part"]]
          BY <2>10, ExtractFileOp
    <3>2. dir' \in [Files -> Content]
          BY <3>1 DEF TypeOK, Content
    <3>3. UNCHANGED <<stage, cancelFunc, running, lapses>> /\ op[o].kind # None
          BY <2>10 DEF ExtractFile, TypeOK
    <3>4. op'[o].file # None
          BY <1>0, <3>1
    <3> QED BY <2>p, <3>1, <3>2, <3>3, <3>4, TypeByOp DEF TypeOK
  <2>11. CASE CopyFile(o) \/ CloseFails(o)
    <3>1. op[o].pc = "copy" /\ closeFile(o)
          BY <2>11 DEF CopyFile, CloseFails
    <3>2. dir' \in [Files -> Content]
          BY <2>11, CopyFileOp DEF CloseFails, TypeOK
    <3>3. UNCHANGED <<stage, cancelFunc, running, lapses>> /\ op[o].kind # None
          BY <2>11, <3>1 DEF CopyFile, CloseFails, TypeOK
    <3>4. /\ op' \in [Ops -> Op] /\ \A p \in Ops \ {o} : op'[p] = op[p]
          /\ op'[o].pc = "extract" /\ op'[o].file = None /\ op'[o].kind = op[o].kind
          BY <3>1, CloseFileOp
    <3> QED BY <2>p, <3>2, <3>3, <3>4, TypeByOp DEF TypeOK
  <2>12. CASE ExtractFails(o)
    <3>1. EndWays(o) /\ Remove(op[o].created)
          BY <2>12 DEF ExtractFails, EndWays
    <3> QED BY <2>p, <3>1, RemovedFiles, TypeEnd
  <2>13. CASE Extracted(o)
    <3>1. CASE /\ GoTo(o, "checksum") /\ stage' = "verifying_checksum"
               /\ UNCHANGED <<cancelFunc, running, lapses, passed>>
          BY <2>13, <3>1, TypeGoTo DEF Extracted, Steps, Work, Stages
    <3>2. CASE Complete(o, {}) /\ UNCHANGED dir
          BY <2>p, <3>2, TypeEnd DEF EndWays, TypeOK
    <3> QED BY <2>13, <3>1, <3>2 DEF Extracted
  <2>14. CASE VerifyChecksum(o)
    <3>1. EndWays(o) /\ dir' \in [Files -> Content]
          BY <2>14, RemovedFiles DEF VerifyChecksum, EndWays, TypeOK
    <3> QED BY <2>p, <3>1, TypeEnd
  <2>15. CASE SkipEntry(o)
    <3>1. UNCHANGED <<stage, cancelFunc, running, dir, lapses>> /\ op[o].pc = "extract"
          BY <2>15 DEF SkipEntry
    <3> QED BY <2>15, <2>p, <3>1, SkipEntryOp, TypeByOp DEF TypeOK
  <2> QED BY <1>6, <2>1, <2>2, <2>3, <2>4, <2>5, <2>6, <2>7, <2>8, <2>9, <2>10, <2>11,
             <2>12, <2>13, <2>14, <2>15 DEF Goroutine
<1>7. CASE UNCHANGED vars
      BY <1>7 DEF vars, TypeOK
<1> QED BY <1>1, <1>2, <1>3, <1>4, <1>5, <1>6, <1>7 DEF Next

(* The variables of the snapshot manager, its goroutines and the data
   directory stay in their ranges. *)
THEOREM TypeCorrect == Spec => []TypeOK
<1>1. Init => TypeOK
      BY FreshIsOp DEF Init, TypeOK, Stages, Content, Fresh
<1> QED BY <1>1, TypeStep, PTL DEF Spec

-----------------------------------------------------------------------------
(* The inductive invariant. *)

(* A goroutine moves on, ends, or starts the node at its very end. *)
Moves(o) ==
    /\ Active(o) /\ op'[o].pc \notin {"none", "resume", "done"}
    /\ op'[o].kind = op[o].kind /\ op'[o].format = op[o].format
    /\ op'[o].outcome = op[o].outcome
    /\ op'[o].pc \in Work => op[o].pc \in Work \/ ~running'
    /\ stage' = stage \/ stage' \in Stages \ Outcomes
    /\ running' => running
    /\ UNCHANGED <<cancelFunc, lapses>>

Completes(o) ==
    /\ Ends(o, "completed") /\ UNCHANGED dir
    /\ op[o].pc \in {"archive", "extract", "checksum"}
    /\ op[o].pc \in {"archive", "extract"} => op[o].todo = {}
    /\ op'[o].out = op[o].out
    /\ op[o].pc = "archive" /\ "overlap" \notin lapses =>
          op[o].archived \ passed' \subseteq op'[o].archived

Fails(o) ==
    /\ \E s \in {"error", "cancelled"} : Ends(o, s)
    /\ op[o].pc = "archive" \/ op'[o].out = op[o].out
    /\ \/ UNCHANGED dir /\ op[o].pc \notin {"extract", "copy", "checksum"}
       \/ Remove(op[o].created)
       \/ Remove(Files)

LEMMA GoroutineStep ==
    ASSUME NEW o \in Ops, TypeOK, Goroutine(o)
    PROVE  /\ op' \in [Ops -> Op] /\ \A p \in Ops \ {o} : op'[p] = op[p]
           /\ \A f \in Files : \/ dir'[f] = dir[f] \/ dir'[f].from \in {o, None}
                               \/ dir'[f] = [dir[f] EXCEPT !.is = "left"]
           /\ \/ Moves(o)
              \/ Active(o) /\ (Completes(o) \/ Fails(o))
              \/ ResumeNode(o)
<1> DEFINE Changes == /\ op' \in [Ops -> Op] /\ \A p \in Ops \ {o} : op'[p] = op[p]
                      /\ \A f \in Files : \/ dir'[f] = dir[f] \/ dir'[f].from \in {o, None}
                                          \/ dir'[f] = [dir[f] EXCEPT !.is = "left"]
           Ways == \/ Moves(o)
                   \/ Active(o) /\ (Completes(o) \/ Fails(o))
                   \/ ResumeNode(o)
<1>a. op \in [Ops -> Op] /\ running \in BOOLEAN
      BY DEF TypeOK
<1>b. ASSUME Active(o), UNCHANGED dir, op[o].pc \notin {"extract", "copy", "checksum"},
             setError(o) \/ EndFailed(o)
      PROVE  Changes /\ Ways
  <2>1. \E s \in {"error", "cancelled"} : Ends(o, s) /\ op'[o].out = op[o].out
        BY <1>a, <1>b, SetErrorOp, EndFailedOp
  <2>2. Fails(o)
        BY <1>b, <2>1 DEF Fails
  <2>3. Changes
        BY <1>b, <2>1 DEF Ends
  <2> QED BY <1>b, <2>2, <2>3
<1>c. ASSUME Active(o), Remove(op[o].created) \/ Remove(Files),
             setError(o) \/ EndFailed(o)
      PROVE  Changes /\ Ways
  <2>1. \E s \in {"error", "cancelled"} : Ends(o, s) /\ op'[o].out = op[o].out
        BY <1>a, <1>c, SetErrorOp, EndFailedOp
  <2>2. Fails(o)
        BY <1>c, <2>1 DEF Fails
  <2>3. op' \in [Ops -> Op] /\ \A p \in Ops \ {o} : op'[p] = op[p]
        BY <2>1 DEF Ends
  <2>4. \A f \in Files : \/ dir'[f] = dir[f] \/ dir'[f].from = None
                          \/ dir'[f] = [dir[f] EXCEPT !.is = "left"]
        BY <1>c, RemovedFiles
  <2> QED BY <1>c, <2>2, <2>3, <2>4
<1>d. ASSUME Active(o), UNCHANGED dir, Ends(o, "completed"), op'[o].out = op[o].out,
             op[o].pc \in {"archive", "extract", "checksum"},
             op[o].pc \in {"archive", "extract"} => op[o].todo = {},
             op[o].pc = "archive" /\ "overlap" \notin lapses =>
                op[o].archived \ passed' \subseteq op'[o].archived
      PROVE  Changes /\ Ways
  <2>1. Completes(o)
        BY <1>d DEF Completes
  <2>2. Changes
        BY <1>d DEF Ends
  <2> QED BY <1>d, <2>1, <2>2
<1>e. ASSUME NEW pc \in Steps \ {"none", "resume", "done"}, Active(o), GoTo(o, pc),
             pc \in Work => op[o].pc \in Work,
             stage' = stage \/ stage' \in Stages \ Outcomes,
             UNCHANGED <<cancelFunc, running, dir, lapses>>
      PROVE  Changes /\ Ways
  <2>1. Changes
        BY <1>e, MovedOp
  <2>2. Moves(o)
        BY <1>e, MovedOp DEF Moves
  <2> QED BY <2>1, <2>2
<1> SUFFICES Changes /\ Ways
    OBVIOUS
<1>1. CASE CheckNode(o)
  <2>1. Changes
        BY <1>1, CheckNodeOp
  <2>2. Active(o) /\ WorkStep(o) \notin {"none", "resume", "done"}
        BY <1>1, WorkStepOp DEF CheckNode, Active
  <2>3. stage' = stage \/ stage' \in Stages \ Outcomes
        BY <1>1, CheckNodeOp DEF Stages, Busy, Outcomes
  <2>4. op'[o].pc \notin {"none", "resume", "done"} /\ (op'[o].pc \in Work => ~running)
        BY <1>1, <2>2, CheckNodeOp DEF Work
  <2> QED BY <1>1, <2>1, <2>2, <2>3, <2>4, CheckNodeOp DEF Moves
<1>2. CASE StopNode(o)
  <2>1. Changes
        BY <1>2, StopNodeOp
  <2>2. Active(o) /\ WorkStep(o) \notin {"none", "resume", "done"}
        BY <1>2, WorkStepOp DEF StopNode, Active
  <2>3. stage' = stage \/ stage' \in Stages \ Outcomes
        BY <1>2, StopNodeOp DEF Stages, Busy, Outcomes
  <2> QED BY <1>2, <2>1, <2>2, <2>3, StopNodeOp DEF Moves
<1>3. CASE ArchiveFile(o) \/ SkipFile(o)
  <2>1. op[o].pc = "archive" /\ Active(o) /\ UNCHANGED <<stage, cancelFunc, running, dir, lapses>>
        BY <1>3 DEF ArchiveFile, SkipFile, Active
  <2> QED BY <1>3, <2>1, ArchiveFileOp DEF Moves, Work
<1>4. CASE ArchiveFails(o)
      BY <1>4, <1>b DEF ArchiveFails, Active
<1>5. CASE ArchiveCancelled(o)
  <2>1. op[o].pc = "archive" /\ Active(o) /\ UNCHANGED dir
        BY <1>5 DEF ArchiveCancelled, Active
  <2>2. PICK out \in {"none", "left"} : Fail(o, "cancelled", out)
        BY <1>5 DEF ArchiveCancelled
  <2>3. Ends(o, "cancelled") /\ op'[o].out = out
        BY <1>a, <2>2, FailOp
  <2>4. Fails(o)
        BY <2>1, <2>3 DEF Fails
  <2>5. Changes
        BY <2>1, <2>3 DEF Ends
  <2> QED BY <2>1, <2>4, <2>5
<1>6. CASE ArchiveDone(o)
  <2>1. /\ op[o].pc = "archive" /\ op[o].todo = {} /\ Active(o) /\ UNCHANGED dir
        BY <1>6 DEF ArchiveDone, Active
  <2>2. PICK lost \in SUBSET Files :
           /\ op[o].archived \ lost \in SUBSET Files
           /\ Complete(o, op[o].archived \ lost)
           /\ PassOver(lost)
        BY <1>a, <1>6, ArchiveDoneOp
  <2>3. /\ Ends(o, "completed") /\ op'[o].out = op[o].out
        /\ op'[o].archived = op[o].archived \ lost
        BY <1>a, <2>2, CompleteOp
  <2>4. "overlap" \notin lapses => op[o].archived \ passed' \subseteq op'[o].archived
        BY <2>2, <2>3 DEF PassOver
  <2> QED BY <2>1, <2>3, <2>4, <1>d
<1>7. CASE ResumeNode(o)
      BY <1>7, ResumeNodeOp DEF ResumeNode
<1>8. CASE FetchManifest(o)
  <2>1. op[o].pc = "manifest" /\ Active(o) /\ UNCHANGED dir
        BY <1>8 DEF FetchManifest, Active
  <2>2. CASE setError(o)
        BY <2>1, <2>2, <1>b
  <2>3. CASE ~setError(o)
        BY <1>8, <2>1, <2>3, <1>e DEF FetchManifest, Steps, Before, Work, Stages, Outcomes
  <2> QED BY <2>2, <2>3
<1>9. CASE VerifySignature(o)
  <2>1. op[o].pc = "verify" /\ Active(o) /\ UNCHANGED dir
        BY <1>9 DEF VerifySignature, Active
  <2>2. CASE setError(o)
        BY <2>1, <2>2, <1>b
  <2>3. CASE ~setError(o)
        BY <1>9, <2>1, <2>3, <1>e DEF VerifySignature, Steps, Before, Work
  <2> QED BY <2>2, <2>3
<1>10. CASE Connect(o)
  <2>1. op[o].pc = "connect" /\ Active(o) /\ UNCHANGED dir
        BY <1>10 DEF Connect, Active
  <2>2. CASE setError(o) \/ EndFailed(o)
        BY <2>1, <2>2, <1>b
  <2>3. CASE ~(setError(o) \/ EndFailed(o))
        BY <1>10, <2>1, <2>3, <1>e DEF Connect, Steps, Work
  <2> QED BY <2>2, <2>3
<1>11. CASE OpenArchive(o)
  <2>1. op[o].pc = "open" /\ Active(o) /\ UNCHANGED dir
        BY <1>11 DEF OpenArchive, Active
  <2>2. CASE setError(o)
        BY <2>1, <2>2, <1>b
  <2>3. CASE ~setError(o)
        BY <1>11, <2>1, <2>3, <1>e DEF OpenArchive, Steps, Work
  <2> QED BY <2>2, <2>3
<1>12. CASE ExtractFile(o)
  <2>1. op[o].pc = "extract" /\ Active(o) /\ UNCHANGED <<stage, cancelFunc, running, lapses>>
        BY <1>12 DEF ExtractFile, Active
  <2>2. PICK f \in Files : dir' = [dir EXCEPT ![f] = [from |-> o, is |-> "part"]]
        BY <1>12, ExtractFileOp
  <2>3. Changes
        BY <1>12, <2>2, ExtractFileOp DEF TypeOK
  <2> QED BY <1>12, <2>1, <2>3, ExtractFileOp DEF Moves, Work
<1>13. CASE CopyFile(o) \/ CloseFails(o)
  <2>1. /\ op[o].pc = "copy" /\ closeFile(o) /\ Active(o)
        /\ UNCHANGED <<stage, cancelFunc, running, lapses>>
        BY <1>13 DEF CopyFile, CloseFails, Active
  <2>2. \A f \in Files : dir'[f] = dir[f] \/ dir'[f].from = o
    <3>1. CASE CopyFile(o)
      <4>1. /\ dir'[op[o].file] = [from |-> o, is |-> "whole"]
            /\ \A g \in Files \ {op[o].file} : dir'[g] = dir[g]
            BY <3>1, CopyFileOp
      <4> QED BY <4>1
    <3>2. CASE CloseFails(o)
          BY <3>2 DEF CloseFails
    <3> QED BY <1>13, <3>1, <3>2
  <2>3. Changes
        BY <2>1, <2>2, CloseFileOp
  <2> QED BY <2>1, <2>3, CloseFileOp DEF Moves, Work
<1>14. CASE ExtractFails(o)
      BY <1>14, <1>c DEF ExtractFails, Active
<1>15. CASE Extracted(o)
  <2>1. op[o].pc = "extract" /\ op[o].todo = {} /\ Active(o) /\ UNCHANGED dir
        BY <1>15 DEF Extracted, exhausted, Active
  <2>2. CASE op[o].kind = "local" /\ Complete(o, {}) /\ UNCHANGED passed
    <3>1. Ends(o, "completed") /\ op'[o].out = op[o].out
          BY <1>a, <2>2, CompleteOp
    <3> QED BY <2>1, <3>1, <1>d DEF Completes
  <2>3. CASE ~(op[o].kind = "local" /\ Complete(o, {}) /\ UNCHANGED passed)
        BY <1>15, <2>1, <2>3, <1>e DEF Extracted, Steps, Work, Stages, Outcomes
  <2> QED BY <2>2, <2>3
<1>16. CASE VerifyChecksum(o)
  <2>1. op[o].pc = "checksum" /\ Active(o)
        BY <1>16 DEF VerifyChecksum, Active
  <2>2. CASE Complete(o, {}) /\ UNCHANGED passed /\ UNCHANGED dir
    <3>1. Ends(o, "completed") /\ op'[o].out = op[o].out
          BY <1>a, <2>2, CompleteOp
    <3> QED BY <2>1, <2>2, <3>1, <1>d
  <2> QED BY <1>16, <2>1, <2>2, <1>c DEF VerifyChecksum
<1>17. CASE SkipEntry(o)
  <2>1. /\ op[o].pc = "extract" /\ Active(o)
        /\ UNCHANGED <<stage, cancelFunc, running, dir, lapses>>
        BY <1>17 DEF SkipEntry, Active
  <2> QED BY <1>17, <2>1, SkipEntryOp DEF Moves, Work
<1> QED BY <1>1, <1>2, <1>3, <1>4, <1>5, <1>6, <1>7, <1>8, <1>9, <1>10, <1>11, <1>12,
           <1>13, <1>14, <1>15, <1>16, <1>17 DEF Goroutine

(* The end of an operation is known. *)
LEMMA TaskEnd ==
    ASSUME NEW o \in Ops, NEW s \in Outcomes, TypeOK, PcTellsTask(o), Ends(o, s),
           op[o].out = "there" /\ s = "cancelled" => op[o].kind # "create",
           \/ op'[o].out = op[o].out
           \/ op'[o].out \in {"none", "left"} /\ op[o].kind = "create"
    PROVE  PcTellsTask(o)'
<1>1. s # None
      BY NoneAssumption DEF Outcomes
<1> QED BY <1>1 DEF PcTellsTask, Ends

LEMMA TaskEndWays ==
    ASSUME NEW o \in Ops, TypeOK, PcTellsTask(o), Active(o),
           \/ setError(o)
           \/ EndFailed(o) /\ op[o].pc \in {"connect", "extract", "copy"}
           \/ \E out \in {"none", "left"} : Fail(o, "cancelled", out) /\ op[o].pc = "archive"
           \/ \E archived \in SUBSET Files : Complete(o, archived)
    PROVE  PcTellsTask(o)'
<1>1. op \in [Ops -> Op]
      BY DEF TypeOK
<1>2. CASE setError(o)
      BY <1>1, <1>2, SetErrorOp, TaskEnd DEF Outcomes
<1>3. CASE EndFailed(o) /\ op[o].pc \in {"connect", "extract", "copy"}
  <2>1. op[o].kind # "create"
        BY <1>3 DEF PcTellsTask
  <2> QED BY <1>1, <1>3, <2>1, EndFailedOp, TaskEnd DEF Outcomes
<1>4. ASSUME NEW out \in {"none", "left"}, Fail(o, "cancelled", out), op[o].pc = "archive"
      PROVE  PcTellsTask(o)'
  <2>1. op[o].kind = "create"
        BY <1>4 DEF PcTellsTask
  <2>2. Ends(o, "cancelled") /\ op'[o].out = out
        BY <1>1, <1>4, FailOp
  <2>3. "cancelled" # None
        BY NoneAssumption
  <2> QED BY <2>1, <2>2, <2>3 DEF PcTellsTask, Ends
<1>5. ASSUME NEW archived \in SUBSET Files, Complete(o, archived)
      PROVE  PcTellsTask(o)'
      BY <1>1, <1>5, CompleteOp, TaskEnd DEF Outcomes
<1> QED BY <1>2, <1>3, <1>4, <1>5

(* What a goroutine does next, and that it is over, stays known. *)
LEMMA TaskStep ==
    ASSUME NEW o \in Ops, TypeOK, PcTellsTask(o), Goroutine(o)
    PROVE  PcTellsTask(o)'
<1>2. CASE CheckNode(o)
  <2>1. op[o].pc = "check"
        BY <1>2 DEF CheckNode
  <2> QED BY <1>2, <2>1, CheckNodeOp, WorkStepOp DEF PcTellsTask
<1>3. CASE StopNode(o)
  <2>1. op[o].pc = "stop"
        BY <1>3 DEF StopNode
  <2> QED BY <1>3, <2>1, StopNodeOp, WorkStepOp DEF PcTellsTask
<1>4. CASE ArchiveFile(o) \/ SkipFile(o)
  <2>1. op[o].pc = "archive" /\ op[o].kind = "create" /\ op[o].outcome = None
        BY <1>4 DEF ArchiveFile, SkipFile, PcTellsTask
  <2> QED BY <1>4, <2>1, ArchiveFileOp, NoneAssumption DEF PcTellsTask
<1>5. CASE ResumeNode(o)
  <2>1. op[o].pc = "resume"
        BY <1>5 DEF ResumeNode
  <2> QED BY <1>5, <2>1, ResumeNodeOp DEF PcTellsTask
<1>6. ASSUME NEW pc \in Steps, GoTo(o, pc),
             \/ op[o].pc = "manifest" /\ pc = "verify"
             \/ op[o].pc = "verify" /\ pc = "check"
             \/ op[o].pc \in {"connect", "open"} /\ pc = "extract"
             \/ op[o].pc = "extract" /\ op[o].todo = {} /\ pc = "checksum"
      PROVE  PcTellsTask(o)'
      BY <1>6, MovedOp DEF PcTellsTask
<1>7. CASE ExtractFile(o)
  <2>1. op[o].pc = "extract"
        BY <1>7 DEF ExtractFile
  <2>2. /\ op'[o].pc = "copy" /\ op'[o].kind = op[o].kind /\ op'[o].outcome = op[o].outcome
        /\ op'[o].out = op[o].out
        BY <1>7, ExtractFileOp
  <2>3. op[o].outcome = None
        BY <2>1 DEF PcTellsTask
  <2> QED BY <2>1, <2>2, <2>3, NoneAssumption DEF PcTellsTask
<1>8. CASE CopyFile(o) \/ CloseFails(o)
  <2>1. op[o].pc = "copy" /\ closeFile(o)
        BY <1>8 DEF CopyFile, CloseFails
  <2> QED BY <2>1, CloseFileOp DEF PcTellsTask
<1>9. CASE FetchManifest(o) /\ GoTo(o, "verify")
      BY <1>6, <1>9 DEF FetchManifest, Steps, Before
<1>10. CASE VerifySignature(o) /\ GoTo(o, "check")
      BY <1>6, <1>10 DEF VerifySignature, Steps, Before
<1>11. CASE (Connect(o) \/ OpenArchive(o)) /\ GoTo(o, "extract")
      BY <1>6, <1>11 DEF Connect, OpenArchive, Steps, Work
<1>12. CASE Extracted(o) /\ GoTo(o, "checksum")
      BY <1>6, <1>12 DEF Extracted, exhausted, Steps, Work
<1>13. CASE SkipEntry(o)
  <2>1. op[o].pc = "extract"
        BY <1>13 DEF SkipEntry
  <2> QED BY <1>13, <2>1, SkipEntryOp DEF PcTellsTask
<1>14. ASSUME setError(o), Active(o)
       PROVE  PcTellsTask(o)'
       BY <1>14, TaskEndWays
<1>15. ASSUME EndFailed(o), op[o].pc \in {"connect", "extract", "copy"}
       PROVE  PcTellsTask(o)'
       BY <1>15, TaskEndWays DEF Active
<1>16. CASE ArchiveCancelled(o)
       BY <1>16, TaskEndWays DEF ArchiveCancelled, Active
<1>17. CASE ArchiveDone(o)
  <2>1. op \in [Ops -> Op] /\ Active(o)
        BY <1>17 DEF ArchiveDone, Active, TypeOK
  <2> QED BY <1>17, <2>1, ArchiveDoneOp, TaskEndWays
<1>18. ASSUME Complete(o, {}), Active(o)
       PROVE  PcTellsTask(o)'
       BY <1>18, TaskEndWays
<1>19. CASE ArchiveFails(o)
       BY <1>14, <1>19 DEF ArchiveFails, Active
<1>20. CASE ExtractFails(o)
       BY <1>15, <1>20 DEF ExtractFails
<1>21. CASE (FetchManifest(o) \/ VerifySignature(o) \/ OpenArchive(o)) /\ setError(o)
       BY <1>14, <1>21 DEF FetchManifest, VerifySignature, OpenArchive, Active
<1>22. CASE Connect(o) /\ (setError(o) \/ EndFailed(o))
       BY <1>14, <1>15, <1>22 DEF Connect, Active
<1>23. CASE Extracted(o) /\ Complete(o, {})
       BY <1>18, <1>23 DEF Extracted, Active
<1>24. CASE VerifyChecksum(o)
       BY <1>14, <1>18, <1>24 DEF VerifyChecksum, Active
<1>25. CASE FetchManifest(o) \/ VerifySignature(o) \/ OpenArchive(o)
       BY <1>9, <1>10, <1>11, <1>21, <1>25 DEF FetchManifest, VerifySignature, OpenArchive
<1>26. CASE Connect(o) \/ Extracted(o)
       BY <1>11, <1>12, <1>22, <1>23, <1>26 DEF Connect, Extracted
<1> QED BY <1>2, <1>3, <1>4, <1>5, <1>7, <1>8, <1>13, <1>16, <1>17, <1>19, <1>20,
           <1>24, <1>25, <1>26 DEF Goroutine

(* The files of the operation's archive stay known. *)
LEMMA FilesStep ==
    ASSUME NEW o \in Ops, TypeOK, PcTellsTask(o), FilesAreKnown(o), Goroutine(o)
    PROVE  FilesAreKnown(o)'
<1>0. o # None /\ "completed" # None
      BY NoneAssumption
<1>1. CASE Completes(o)
  <2>1. op'[o].pc \in {"resume", "done"} /\ op'[o].outcome = "completed"
        BY <1>1 DEF Completes, Ends
  <2> QED BY <2>1 DEF FilesAreKnown
<1>2. CASE Active(o) /\ Fails(o)
  <2>1. /\ op'[o].pc \in {"resume", "done"} /\ op'[o].format = op[o].format
        /\ op'[o].outcome # None
        BY <1>2, NoneAssumption DEF Fails, Ends
  <2>2. op[o].outcome = None /\ op[o].pc \notin {"resume", "done"}
        BY <1>2 DEF Active, PcTellsTask
  <2>3. ASSUME NEW f \in Files, dir'[f].from = o, op[o].format = "tar"
        PROVE  dir'[f].is = "left"
    <3>1. CASE UNCHANGED dir /\ op[o].pc \notin {"extract", "copy", "checksum"}
          BY <2>2, <2>3, <3>1 DEF FilesAreKnown
    <3>2. ASSUME NEW files, Remove(files), op[o].created \subseteq files
          PROVE  dir'[f].is = "left"
      <4>1. dir[f] \in Content
            BY DEF TypeOK
      <4>2. CASE f \in files
            BY <1>0, <2>3, <3>2, <4>1, <4>2, RemovedFiles DEF Content
      <4>3. CASE f \notin files
        <5>1. dir'[f] = dir[f]
              BY <3>2, <4>3, RemovedFiles
        <5> QED BY <1>0, <2>2, <2>3, <3>2, <4>3, <5>1 DEF FilesAreKnown
      <4> QED BY <4>2, <4>3
    <3>3. op[o].created \subseteq Files
          BY DEF TypeOK, Op
    <3> QED BY <1>2, <3>1, <3>2, <3>3 DEF Fails
  <2> QED BY <2>1, <2>3 DEF FilesAreKnown
<1>3. CASE ResumeNode(o)
  <2>1. UNCHANGED dir
        BY <1>3 DEF ResumeNode
  <2> QED BY <1>3, <2>1, ResumeNodeOp DEF FilesAreKnown
<1>4. CASE ExtractFile(o)
  <2>1. PICK f \in Files :
           /\ dir' = [dir EXCEPT ![f] = [from |-> o, is |-> "part"]]
           /\ op'[o].created = op[o].created \cup opens(o, f)
           /\ op'[o].pc = "copy" /\ op'[o].format = op[o].format
           /\ op'[o].outcome = op[o].outcome /\ op'[o].file = f
        BY <1>4, ExtractFileOp
  <2>2. op[o].format = "tar" => f \in op'[o].created
        BY <2>1 DEF opens
  <2>3. \A g \in Files \ {f} : dir'[g] = dir[g]
        BY <2>1 DEF TypeOK
  <2>4. \A g \in op[o].created : g \in op'[o].created
        BY <2>1
  <2> QED BY <2>1, <2>2, <2>3, <2>4 DEF FilesAreKnown
<1>5. CASE CopyFile(o) \/ CloseFails(o)
  <2>1. op[o].pc = "copy" /\ closeFile(o)
        BY <1>5 DEF CopyFile, CloseFails
  <2>2. \A g \in Files \ {op[o].file} : dir'[g] = dir[g]
        BY <1>5, CopyFileOp DEF CloseFails
  <2>3. /\ op'[o].pc = "extract" /\ op'[o].format = op[o].format
        /\ op'[o].created = op[o].created /\ op'[o].outcome = op[o].outcome
        BY <2>1, CloseFileOp
  <2>4. op[o].format = "tar" => op[o].file \in op'[o].created
        BY <2>1, <2>3 DEF FilesAreKnown
  <2>5. ASSUME NEW f \in Files, dir'[f].from = o, op[o].format = "tar"
        PROVE  \/ f \in op'[o].created \/ op'[o].outcome = "completed"
               \/ op'[o].outcome # None /\ dir'[f].is = "left"
        BY <2>2, <2>3, <2>4, <2>5 DEF FilesAreKnown
  <2> QED BY <2>3, <2>5 DEF FilesAreKnown
<1>6. CASE CheckNode(o)
  <2>1. op[o].pc = "check" /\ WorkStep(o) # "copy" /\ UNCHANGED dir
        BY <1>6, CheckNodeOp, WorkStepOp DEF CheckNode
  <2>2. op'[o].pc # "copy"
        BY <1>6, <2>1, CheckNodeOp
  <2> QED BY <1>6, <2>1, <2>2, CheckNodeOp DEF FilesAreKnown
<1>7. CASE StopNode(o)
  <2>1. op[o].pc = "stop" /\ op'[o].pc # "copy"
        BY <1>7, StopNodeOp, WorkStepOp DEF StopNode
  <2> QED BY <1>7, <2>1, StopNodeOp DEF FilesAreKnown
<1>8. CASE ArchiveFile(o) \/ SkipFile(o)
  <2>1. op[o].pc = "archive" /\ UNCHANGED dir
        BY <1>8 DEF ArchiveFile, SkipFile
  <2> QED BY <1>8, <2>1, ArchiveFileOp DEF FilesAreKnown
<1>9. ASSUME NEW pc \in Steps, GoTo(o, pc), UNCHANGED dir, pc # "copy",
             op[o].pc = "extract" => pc = "checksum",
             op[o].pc \notin {"copy", "checksum", "resume", "done"}
      PROVE  FilesAreKnown(o)'
      BY <1>9, MovedOp DEF FilesAreKnown
<1>10. CASE FetchManifest(o) /\ GoTo(o, "verify")
      BY <1>9, <1>10 DEF FetchManifest, Steps, Before
<1>11. CASE VerifySignature(o) /\ GoTo(o, "check")
      BY <1>9, <1>11 DEF VerifySignature, Steps, Before
<1>12. CASE (Connect(o) \/ OpenArchive(o)) /\ GoTo(o, "extract")
      BY <1>9, <1>12 DEF Connect, OpenArchive, Steps, Work
<1>13. CASE Extracted(o) /\ GoTo(o, "checksum")
      BY <1>9, <1>13 DEF Extracted, Steps, Work
<1>14. CASE ResumeNode(o) \/ (Active(o) /\ (Completes(o) \/ Fails(o)))
      BY <1>1, <1>2, <1>3, <1>14
<1>15. ASSUME EndWays(o), Goroutine(o), ~ResumeNode(o)
       PROVE  FilesAreKnown(o)'
  <2>1. ~Moves(o)
    <3>1. \E s \in Outcomes : Ends(o, s)
          BY <1>15, WaysOp DEF TypeOK
    <3> QED BY <3>1 DEF Moves, Ends
  <2> QED BY <1>14, <1>15, <2>1, GoroutineStep
<1>16. CASE SkipEntry(o)
  <2>1. op[o].pc = "extract" /\ UNCHANGED dir
        BY <1>16 DEF SkipEntry
  <2> QED BY <1>16, <2>1, SkipEntryOp DEF FilesAreKnown
<1>17. CASE ArchiveDone(o)
  <2>1. EndWays(o)
        BY <1>17, ArchiveDoneOp DEF EndWays, TypeOK
  <2>2. ~ResumeNode(o)
        BY <1>17 DEF ArchiveDone, ResumeNode
  <2> QED BY <2>1, <2>2, <1>15
<1> QED BY <1>4, <1>5, <1>6, <1>7, <1>8, <1>10, <1>11, <1>12, <1>13, <1>14, <1>15, <1>16, <1>17
        DEF Goroutine, ArchiveFails, ArchiveCancelled, FetchManifest, EndWays,
            VerifySignature, Connect, OpenArchive, ExtractFails, Extracted, VerifyChecksum

(* The files that an operation has behind it stay where they are. *)
LEMMA RestoredStep ==
    ASSUME NEW o \in Ops, TypeOK, PcTellsTask(o), RestoredSoFar(o), Goroutine(o)
    PROVE  RestoredSoFar(o)'
<1>0. /\ None \notin Files /\ Archive \subseteq Files
      /\ passed \subseteq passed' /\ op \in [Ops -> Op]
      BY NoneAssumption, FilesAssumption, PassedStep DEF TypeOK
<1>1. ASSUME EndWays(o)
      PROVE  RestoredSoFar(o)'
      BY <1>0, <1>1, WaysOp DEF Ends, RestoredSoFar
<1>2. ASSUME NEW pc \in Steps \ {"extract", "copy", "checksum", "archive", "stop"},
             op'[o].pc = pc
      PROVE  RestoredSoFar(o)'
      BY <1>2 DEF RestoredSoFar
<1>3. CASE CheckNode(o)
  <2>0. /\ WorkStep(o) \in {"archive", "open", "connect"}
        /\ WorkStep(o) = "archive" <=> op[o].kind = "create"
        BY <1>3, WorkStepOp DEF CheckNode
  <2>1. /\ op'[o].pc \in {"stop", "archive", "open", "connect"}
        /\ op'[o].kind = op[o].kind
        /\ op'[o].todo = IF op[o].kind = "create" THEN Files ELSE Archive
        BY <1>3, <2>0, CheckNodeOp
  <2>2. op'[o].pc = "archive" => op[o].kind = "create"
        BY <1>3, <2>0, CheckNodeOp
  <2> QED BY <2>1, <2>2 DEF RestoredSoFar
<1>4. CASE StopNode(o)
  <2>1. /\ op'[o].pc \in {"archive", "open", "connect"}
        /\ op[o].pc = "stop" /\ op'[o].todo = op[o].todo
        BY <1>4, StopNodeOp, WorkStepOp DEF StopNode
  <2>2. op'[o].pc = "archive" => op[o].kind = "create"
        BY <1>4, StopNodeOp, WorkStepOp DEF StopNode
  <2> QED BY <2>1, <2>2 DEF RestoredSoFar
<1>5. CASE ArchiveFile(o) \/ SkipFile(o)
  <2>1. op[o].pc = "archive" /\ lapses' = lapses
        BY <1>5 DEF ArchiveFile, SkipFile
  <2>2. PICK f \in op[o].todo :
           /\ op'[o].todo = op[o].todo \ {f}
           /\ op[o].archived \subseteq op'[o].archived
           /\ f \in op'[o].archived \/ PassOver({f})
        BY <1>5, ArchiveFileOp
  <2>3. op'[o].pc = "archive"
        BY <1>5, <2>1, ArchiveFileOp
  <2>4. "overlap" \notin lapses => f \in op'[o].archived \/ f \in passed'
        BY <2>2 DEF PassOver
  <2> QED BY <1>0, <2>1, <2>2, <2>3, <2>4 DEF RestoredSoFar
<1>6. CASE ResumeNode(o)
      BY <1>6, ResumeNodeOp DEF RestoredSoFar
<1>7. ASSUME NEW pc \in {"verify", "check"}, GoTo(o, pc)
      PROVE  RestoredSoFar(o)'
      BY <1>7, MovedOp DEF RestoredSoFar, Steps, Before
<1>8. CASE (Connect(o) \/ OpenArchive(o)) /\ GoTo(o, "extract")
  <2>1. op[o].todo = Archive
        BY <1>8 DEF Connect, OpenArchive, PcTellsTask
  <2>2. op'[o].todo = Archive /\ op'[o].pc = "extract"
        BY <1>8, <2>1, MovedOp DEF Steps, Work
  <2> QED BY <2>2 DEF RestoredSoFar
<1>9. CASE ExtractFile(o)
  <2>1. op[o].pc = "extract" /\ op[o].file = None /\ lapses' = lapses
        BY <1>9 DEF ExtractFile, TypeOK
  <2>2. PICK f \in Files :
           /\ dir' = [dir EXCEPT ![f] = [from |-> o, is |-> "part"]]
           /\ op'[o].todo = op[o].todo \ {f} /\ op'[o].file = f /\ op'[o].pc = "copy"
        BY <1>9, ExtractFileOp
  <2>3. \A g \in Files \ {f} : dir'[g] = dir[g]
        BY <2>2 DEF TypeOK
  <2>4. Archive \ (op'[o].todo \cup {op'[o].file} \cup passed') \subseteq
           Archive \ (op[o].todo \cup {op[o].file} \cup passed)
        BY <1>0, <2>1, <2>2
  <2> QED BY <1>0, <2>1, <2>2, <2>3, <2>4 DEF RestoredSoFar
<1>10. CASE CopyFile(o) \/ CloseFails(o)
  <2>1. op[o].pc = "copy" /\ closeFile(o) /\ lapses' = lapses
        BY <1>10 DEF CopyFile, CloseFails
  <2>2. op'[o].todo = op[o].todo /\ op[o].file \in Files /\ op'[o].pc = "extract"
        BY <2>1, CloseFileOp
  <2>3. \A g \in Files \ {op[o].file} : dir'[g] = dir[g]
        BY <1>10, CopyFileOp DEF CloseFails
  <2>4. \/ dir'[op[o].file] = [from |-> o, is |-> "whole"]
        \/ "overlap" \in lapses \/ op[o].file \in passed'
        BY <1>10, CopyFileOp DEF CloseFails, PassOver
  <2> QED BY <1>0, <2>1, <2>2, <2>3, <2>4 DEF RestoredSoFar
<1>11. CASE Extracted(o) /\ GoTo(o, "checksum")
  <2>1. op[o].pc = "extract" /\ UNCHANGED dir
        BY <1>11 DEF Extracted
  <2>2. op'[o].todo = op[o].todo /\ op'[o].file = op[o].file /\ op'[o].pc = "checksum"
        BY <1>11, MovedOp DEF Steps, Work
  <2>3. lapses \subseteq lapses'
        BY <1>11 DEF Extracted, Complete, Finish
  <2> QED BY <1>0, <2>1, <2>2, <2>3 DEF RestoredSoFar
<1>12. CASE SkipEntry(o)
  <2>1. op[o].pc = "extract" /\ UNCHANGED <<dir, lapses>>
        BY <1>12 DEF SkipEntry
  <2>2. PICK f \in op[o].todo : op'[o].todo = op[o].todo \ {f} /\ PassOver({f})
        BY <1>12, SkipEntryOp
  <2>3. op'[o].file = op[o].file /\ op'[o].pc = "extract"
        BY <1>12, <2>1, SkipEntryOp
  <2>4. "overlap" \notin lapses => f \in passed'
        BY <2>2 DEF PassOver
  <2> QED BY <1>0, <2>1, <2>2, <2>3, <2>4 DEF RestoredSoFar
<1>13. CASE ArchiveDone(o)
  <2>1. EndWays(o)
        BY <1>13, ArchiveDoneOp DEF EndWays, TypeOK
  <2> QED BY <1>1, <2>1
<1> QED BY <1>1, <1>3, <1>4, <1>5, <1>6, <1>7, <1>8, <1>9, <1>10, <1>11, <1>12, <1>13
        DEF Goroutine, ArchiveFails, ArchiveCancelled, FetchManifest, EndWays,
            VerifySignature, Connect, OpenArchive, ExtractFails, Extracted, VerifyChecksum

(* One goroutine leaves what the others are known to have done, unless
   operations overlap. *)
LEMMA OthersStep ==
    ASSUME NEW o \in Ops, NEW p \in Ops \ {o}, Inv, Goroutine(o)
    PROVE  PcTellsTask(p)' /\ FilesAreKnown(p)' /\ RestoredSoFar(p)'
<1>1. /\ TypeOK /\ LastIsAlone
      /\ PcTellsTask(p) /\ FilesAreKnown(p) /\ RestoredSoFar(p)
      BY DEF Inv
<1>2. /\ op'[p] = op[p]
      /\ \A f \in Files : \/ dir'[f] = dir[f] \/ dir'[f].from \in {o, None}
                          \/ dir'[f] = [dir[f] EXCEPT !.is = "left"]
      BY <1>1, GoroutineStep
<1>3. p # None /\ dir \in [Files -> Content]
      BY NoneAssumption DEF Inv, TypeOK
<1>4. PcTellsTask(p)'
      BY <1>1, <1>2 DEF PcTellsTask
<1>5. FilesAreKnown(p)'
  <2>1. \A f \in Files : dir'[f].from = p =>
           dir[f].from = p /\ (dir'[f] = dir[f] \/ dir'[f].is = "left")
        BY <1>2, <1>3 DEF Content
  <2> QED BY <1>1, <1>2, <2>1 DEF FilesAreKnown
<1>6. RestoredSoFar(p)'
  <2>1. op[o].pc \notin {"none", "done"}
        BY <1>1, GoroutineStep DEF Moves, Active, ResumeNode
  <2>2. lapses \subseteq lapses'
    <3>1. CASE Completes(o) \/ Fails(o)
          BY <3>1 DEF Completes, Fails, Ends
    <3>2. CASE Moves(o) \/ ResumeNode(o)
          BY <3>2 DEF Moves, ResumeNode
    <3> QED BY <1>1, <3>1, <3>2, GoroutineStep
  <2>3. "overlap" \notin lapses => op[p].pc \in {"none", "done"}
        BY <1>1, <2>1 DEF LastIsAlone
  <2> QED BY <1>1, <1>2, <2>2, <2>3 DEF RestoredSoFar
<1> QED BY <1>4, <1>5, <1>6

(* What has failed has nothing left, because it knew what it had created. *)
LEMMA NothingLeft ==
    ASSUME \A o \in Ops : PcTellsTask(o)' /\ FilesAreKnown(o)'
    PROVE  FailedLeavesNothing'
<1> SUFFICES ASSUME NEW o \in Ops, op'[o].outcome \in {"error", "cancelled"}
             PROVE  /\ op'[o].format = "tar" =>
                          \A f \in Files : dir'[f].from = o => dir'[f].is = "left"
                    /\ op'[o].outcome = "cancelled" => op'[o].out # "there"
    BY DEF FailedLeavesNothing
<1>1. /\ op'[o].outcome \notin {None, "completed"}
      /\ PcTellsTask(o)' /\ FilesAreKnown(o)'
      BY NoneAssumption
<1>2. op'[o].created = {}
      BY <1>1 DEF PcTellsTask
<1> QED BY <1>1, <1>2 DEF PcTellsTask, FilesAreKnown

(* The four properties that one goroutine's step may disturb at once. *)
LEMMA SafetyStep ==
    ASSUME NEW o \in Ops, Inv, Goroutine(o)
    PROVE  /\ BusyMeansActive' /\ NodeOutOfTheWay'
           /\ CompletedMeansRestored' /\ LastIsAlone'
<1>1. /\ TypeOK /\ BusyMeansActive /\ NodeOutOfTheWay
      /\ CompletedMeansRestored /\ LastIsAlone
      /\ PcTellsTask(o) /\ RestoredSoFar(o)
      BY DEF Inv
<1>2. /\ op' \in [Ops -> Op] /\ \A p \in Ops \ {o} : op'[p] = op[p]
      /\ Moves(o) \/ (Active(o) /\ Completes(o)) \/ (Active(o) /\ Fails(o)) \/ ResumeNode(o)
      BY <1>1, GoroutineStep
<1>3. CASE Moves(o)
  <2>1. BusyMeansActive'
        BY <1>3 DEF Moves, BusyMeansActive, Active
  <2>2. NodeOutOfTheWay'
        BY <1>1, <1>2, <1>3 DEF Moves, NodeOutOfTheWay, Working
  <2>3. LastIsAlone'
        BY <1>1, <1>2, <1>3 DEF Moves, LastIsAlone, Active
  <2>4. CompletedMeansRestored'
    <3>1. op[o].outcome = None /\ op[o].pc \notin {"none", "done"} /\ lapses' = lapses
          BY <1>1, <1>3 DEF Moves, Active, PcTellsTask
    <3>2. "overlap" \notin lapses => stage # "completed"
          BY <1>1, <3>1, NoneAssumption DEF LastIsAlone, CompletedMeansRestored
    <3> QED BY <1>3, <3>1, <3>2 DEF Moves, CompletedMeansRestored, Outcomes
  <2> QED BY <2>1, <2>2, <2>3, <2>4
<1>4. ASSUME NEW s \in Outcomes, Active(o), Ends(o, s)
      PROVE  BusyMeansActive' /\ NodeOutOfTheWay' /\ LastIsAlone'
  <2>1. /\ op'[o].pc \in {"resume", "done"} /\ UNCHANGED <<cancelFunc, running, lapses>>
        /\ stage' = s
        BY <1>4 DEF Ends
  <2>2. BusyMeansActive'
        BY <2>1 DEF BusyMeansActive, Busy, Outcomes
  <2>3. NodeOutOfTheWay'
        BY <1>1, <1>2, <2>1 DEF NodeOutOfTheWay, Working, Work
  <2>4. LastIsAlone'
        BY <1>1, <1>2, <1>4, <2>1 DEF LastIsAlone, Active
  <2> QED BY <2>2, <2>3, <2>4
<1>5. CASE Active(o) /\ Completes(o)
  <2>1. Ends(o, "completed") /\ UNCHANGED dir /\ "completed" \in Outcomes
        BY <1>5 DEF Completes, Outcomes
  <2>2. /\ op'[o].outcome = "completed" /\ op'[o].kind = op[o].kind
        /\ UNCHANGED <<cancelFunc, lapses>> /\ passed \subseteq passed'
        BY <1>1, <2>1, PassedStep DEF Ends
  <2>3. "overlap" \notin lapses => o = cancelFunc
        BY <1>1, <1>5 DEF LastIsAlone, Active
  <2>4. ASSUME op[o].kind # "create", "overlap" \notin lapses
        PROVE  \A f \in Archive \ passed : dir[f] = [from |-> o, is |-> "whole"]
    <3>1. op[o].pc \in {"extract", "checksum"} /\ op[o].todo = {}
          BY <1>1, <1>5, <2>4 DEF Completes, PcTellsTask
    <3>2. op[o].file = None
          BY <1>1, <3>1 DEF TypeOK
    <3>3. None \notin Archive
          BY NoneAssumption, FilesAssumption
    <3> QED BY <1>1, <2>4, <3>1, <3>2, <3>3 DEF RestoredSoFar
  <2>5. ASSUME op[o].kind = "create", "overlap" \notin lapses
        PROVE  Files \ passed' \subseteq op'[o].archived
    <3>1. op[o].pc = "archive" /\ op[o].todo = {}
          BY <1>1, <1>5, <2>5 DEF Completes, PcTellsTask
    <3>2. op[o].archived \ passed' \subseteq op'[o].archived
          BY <1>5, <2>5, <3>1 DEF Completes
    <3> QED BY <1>1, <2>2, <2>5, <3>1, <3>2 DEF RestoredSoFar
  <2>6. CompletedMeansRestored'
        BY <2>1, <2>2, <2>3, <2>4, <2>5 DEF CompletedMeansRestored
  <2> QED BY <1>4, <1>5, <2>1, <2>6
<1>6. CASE Active(o) /\ Fails(o)
  <2>1. PICK s \in {"error", "cancelled"} : Ends(o, s)
        BY <1>6 DEF Fails
  <2>2. CompletedMeansRestored'
        BY <2>1 DEF CompletedMeansRestored, Ends
  <2> QED BY <1>4, <1>6, <2>1, <2>2 DEF Outcomes
<1>7. CASE ResumeNode(o)
  <2>1. /\ op[o].pc = "resume" /\ UNCHANGED <<stage, cancelFunc, dir, passed>>
        /\ lapses' = lapses \cup (IF \E p \in Ops : Working(p) THEN {"node"} ELSE {})
        BY <1>7 DEF ResumeNode
  <2>2. op'[o].pc = "done"
        BY <1>1, <1>7, ResumeNodeOp
  <2>3. BusyMeansActive'
        BY <1>1, <1>2, <2>1 DEF BusyMeansActive, Active
  <2>4. NodeOutOfTheWay'
        BY <1>2, <2>1, <2>2 DEF NodeOutOfTheWay, Working, Work
  <2>5. LastIsAlone'
        BY <1>1, <1>2, <2>1, <2>2 DEF LastIsAlone
  <2>6. CompletedMeansRestored'
    <3>1. "overlap" \notin lapses' => "overlap" \notin lapses
          BY <2>1
    <3>2. /\ op'[o].outcome = op[o].outcome /\ op'[o].kind = op[o].kind
          /\ op'[o].archived = op[o].archived
          BY <1>1, <1>7, ResumeNodeOp
    <3>3. "overlap" \notin lapses => o = cancelFunc
          BY <1>1, <2>1 DEF LastIsAlone
    <3> QED BY <1>1, <2>1, <3>1, <3>2, <3>3 DEF CompletedMeansRestored
  <2> QED BY <2>3, <2>4, <2>5, <2>6
<1> QED BY <1>2, <1>3, <1>5, <1>6, <1>7

(* A new operation knows nothing of files and is alone, or has overlapped. *)
LEMMA StartStep ==
    ASSUME NEW o \in Ops, NEW k \in Kinds, NEW format \in Formats \cup {None},
           Inv, Start(o, k, format), TypeOK'
    PROVE  Inv'
<1>1. /\ TypeOK /\ LastIsAlone /\ NodeOutOfTheWay
      /\ \A p \in Ops : PcTellsTask(p) /\ FilesAreKnown(p) /\ RestoredSoFar(p)
      BY DEF Inv
<1>2. /\ \A p \in Ops \ {o} : op'[p] = op[p]
      /\ op'[o].pc \in {"manifest", "check"} /\ op'[o].kind = k
      /\ op'[o].outcome = None /\ op'[o].out = "none"
      /\ stage' \notin Outcomes
      BY <1>1, StartOp
<1>3. /\ op[o].pc = "none" /\ cancelFunc' = o /\ UNCHANGED <<running, dir>>
      /\ lapses' = lapses \cup (IF \E p \in Ops : op[p].pc \notin {"none", "done"}
                                THEN {"overlap"} ELSE {})
      BY DEF Start
<1>4. None \notin {"completed", "error", "cancelled"}
      BY NoneAssumption
<1>5. BusyMeansActive'
      BY <1>2 DEF BusyMeansActive, Active
<1>6. NodeOutOfTheWay'
      BY <1>1, <1>2, <1>3 DEF NodeOutOfTheWay, Working, Work
<1>7. CompletedMeansRestored'
      BY <1>2 DEF CompletedMeansRestored, Outcomes
<1>8. LastIsAlone'
      BY <1>2, <1>3 DEF LastIsAlone
<1>9. ASSUME NEW p \in Ops
      PROVE  PcTellsTask(p)' /\ FilesAreKnown(p)' /\ RestoredSoFar(p)'
  <2>1. CASE p = o
    <3>1. PcTellsTask(o)'
          BY <1>2, <1>4 DEF PcTellsTask
    <3>2. FilesAreKnown(o)'
          BY <1>1, <1>2, <1>3 DEF FilesAreKnown
    <3>3. RestoredSoFar(o)'
          BY <1>2 DEF RestoredSoFar
    <3> QED BY <2>1, <3>1, <3>2, <3>3
  <2>2. CASE p # o
    <3>1. op'[p] = op[p] /\ lapses \subseteq lapses'
          BY <1>2, <1>3, <2>2
    <3> QED BY <1>1, <1>3, <3>1 DEF PcTellsTask, FilesAreKnown, RestoredSoFar
  <2> QED BY <2>1, <2>2
<1>10. FailedLeavesNothing'
       BY <1>9, NothingLeft
<1> QED BY <1>5, <1>6, <1>7, <1>8, <1>9, <1>10 DEF Inv

(* Every step keeps the invariant. *)
LEMMA InvStep ==
    Inv /\ [Next]_vars => Inv'
<1> SUFFICES ASSUME Inv, [Next]_vars
             PROVE  Inv'
    OBVIOUS
<1>0. /\ TypeOK /\ BusyMeansActive /\ NodeOutOfTheWay
      /\ CompletedMeansRestored /\ FailedLeavesNothing /\ LastIsAlone
      /\ \A o \in Ops : PcTellsTask(o) /\ FilesAreKnown(o) /\ RestoredSoFar(o)
      BY DEF Inv
<1>t. TypeOK'
      BY <1>0, TypeStep
<1>1. ASSUME NEW o \in Ops, NEW k \in Kinds, NEW format \in Formats \cup {None},
             Start(o, k, format)
      PROVE  Inv'
      BY <1>1, <1>t, StartStep
<1>2. CASE Cancel
  <2>1. /\ cancelFunc \in Ops
        /\ \A p \in Ops :
              /\ op'[p].pc = op[p].pc /\ op'[p].kind = op[p].kind
              /\ op'[p].format = op[p].format /\ op'[p].file = op[p].file
              /\ op'[p].todo = op[p].todo /\ op'[p].created = op[p].created
              /\ op'[p].out = op[p].out /\ op'[p].outcome = op[p].outcome
              /\ op'[p].archived = op[p].archived
        BY <1>0, <1>2, CancelOp
  <2>2. stage' = "cancelled" /\ UNCHANGED <<cancelFunc, running, dir, lapses, passed>>
        BY <1>2 DEF Cancel
  <2>3. BusyMeansActive' /\ CompletedMeansRestored'
        BY <2>2 DEF BusyMeansActive, CompletedMeansRestored, Busy
  <2>4. NodeOutOfTheWay' /\ LastIsAlone'
        BY <1>0, <2>1, <2>2 DEF NodeOutOfTheWay, Working, LastIsAlone
  <2>5. \A p \in Ops : PcTellsTask(p)' /\ FilesAreKnown(p)' /\ RestoredSoFar(p)'
        BY <1>0, <2>1, <2>2 DEF PcTellsTask, FilesAreKnown, RestoredSoFar
  <2>6. FailedLeavesNothing'
        BY <1>0, <2>1, <2>2 DEF FailedLeavesNothing
  <2> QED BY <1>t, <2>3, <2>4, <2>5, <2>6 DEF Inv
<1>3. CASE Reset
  <2>1. stage' = "idle" /\ UNCHANGED <<cancelFunc, op, running, dir, lapses, passed>>
        BY <1>3 DEF Reset
  <2>2. BusyMeansActive' /\ CompletedMeansRestored'
        BY <2>1 DEF BusyMeansActive, CompletedMeansRestored, Busy
  <2> QED BY <1>0, <1>t, <2>1, <2>2
          DEF Inv, NodeOutOfTheWay, Working, LastIsAlone, FailedLeavesNothing,
              PcTellsTask, FilesAreKnown, RestoredSoFar
<1>4. CASE NodeStart \/ NodeStop
  <2>1. /\ UNCHANGED <<stage, cancelFunc, op, dir, passed>>
        /\ lapses \subseteq lapses' /\ ("overlap" \in lapses' => "overlap" \in lapses)
        /\ running' /\ (\E o \in Ops : Working(o)) => lapses' # {}
        BY <1>4 DEF NodeStart, NodeStop
  <2>2. BusyMeansActive' /\ CompletedMeansRestored' /\ FailedLeavesNothing'
        BY <1>0, <2>1 DEF BusyMeansActive, Active, CompletedMeansRestored, FailedLeavesNothing
  <2>3. NodeOutOfTheWay' /\ LastIsAlone'
        BY <1>0, <2>1 DEF NodeOutOfTheWay, Working, LastIsAlone
  <2>4. \A p \in Ops : PcTellsTask(p)' /\ FilesAreKnown(p)' /\ RestoredSoFar(p)'
        BY <1>0, <2>1 DEF PcTellsTask, FilesAreKnown, RestoredSoFar
  <2> QED BY <1>t, <2>2, <2>3, <2>4 DEF Inv
<1>5. ASSUME NEW o \in Ops, Goroutine(o)
      PROVE  Inv'
  <2>1. PcTellsTask(o)' /\ FilesAreKnown(o)' /\ RestoredSoFar(o)'
        BY <1>0, <1>5, TaskStep, FilesStep, RestoredStep
  <2>2. \A p \in Ops : PcTellsTask(p)' /\ FilesAreKnown(p)' /\ RestoredSoFar(p)'
        BY <1>5, <2>1, OthersStep
  <2>3. FailedLeavesNothing'
        BY <2>2, NothingLeft
  <2>4. /\ BusyMeansActive' /\ NodeOutOfTheWay'
        /\ CompletedMeansRestored' /\ LastIsAlone'
        BY <1>5, SafetyStep
  <2> QED BY <1>t, <2>2, <2>3, <2>4 DEF Inv
<1>6. CASE UNCHANGED vars
      BY <1>0, <1>6, <1>t
      DEF vars, Inv, BusyMeansActive, Active, NodeOutOfTheWay, Working, CompletedMeansRestored,
          FailedLeavesNothing, LastIsAlone, PcTellsTask, FilesAreKnown, RestoredSoFar
<1> QED BY <1>1, <1>2, <1>3, <1>4, <1>5, <1>6 DEF Next

(* The inductive invariant, and what it says, hold in every state. *)
THEOREM InvCorrect == Spec => []Inv
<1>1. Init => Inv
  <2> SUFFICES ASSUME Init
               PROVE  Inv
      OBVIOUS
  <2>1. TypeOK
        BY FreshIsOp DEF Init, TypeOK, Stages, Content, Fresh
  <2>2. /\ stage = "idle" /\ lapses = {} /\ \A f \in Files : dir[f].from = None
        /\ \A o \in Ops : op[o] = Fresh
        BY DEF Init
  <2>3. /\ Fresh.pc = "none" /\ Fresh.outcome = None /\ Fresh.out = "none"
        BY DEF Fresh
  <2>4. None \notin Ops \cup {"completed", "error", "cancelled"}
        BY NoneAssumption
  <2>5. BusyMeansActive /\ CompletedMeansRestored
        BY <2>2 DEF BusyMeansActive, CompletedMeansRestored, Busy
  <2>6. NodeOutOfTheWay /\ LastIsAlone /\ FailedLeavesNothing
        BY <2>2, <2>3, <2>4 DEF NodeOutOfTheWay, Working, Work, LastIsAlone, FailedLeavesNothing
  <2>7. \A o \in Ops : PcTellsTask(o) /\ FilesAreKnown(o) /\ RestoredSoFar(o)
        BY <2>2, <2>3, <2>4 DEF PcTellsTask, FilesAreKnown, RestoredSoFar
  <2> QED BY <2>1, <2>5, <2>6, <2>7 DEF Inv
<1> QED BY <1>1, InvStep, PTL DEF Spec

(* A manager that says it is busy has a goroutine at work. *)
THEOREM NeverLeftBusy == Spec => []BusyMeansActive
<1>1. Inv => BusyMeansActive
      BY DEF Inv
<1> QED BY <1>1, InvCorrect, PTL

(* What the manager calls completed is in its place, whole, but for the files
   that it has passed over without a word. *)
THEOREM CompletedIsRestored == Spec => []CompletedMeansRestored
<1>1. Inv => CompletedMeansRestored
      BY DEF Inv
<1> QED BY <1>1, InvCorrect, PTL

(* What failed has left nothing of its archive behind that it could remove. *)
THEOREM FailureIsClean == Spec => []FailedLeavesNothing
<1>1. Inv => FailedLeavesNothing
      BY DEF Inv
<1> QED BY <1>1, InvCorrect, PTL

(* No operation works beside a node that it has not been surprised by. *)
THEOREM NodeIsAside == Spec => []NodeOutOfTheWay
<1>1. Inv => NodeOutOfTheWay
      BY DEF Inv
<1> QED BY <1>1, InvCorrect, PTL
=============================================================================
