---------------------------- MODULE EngineUpdater ----------------------------
(***************************************************************************)
(* The updater of the node engine (pkg/updater/engine_updater.go).  Every  *)
(* API request to update runs DownloadAndApplyUpdate in a goroutine of its *)
(* own: it downloads a release, hands over to ApplyUpdate, which verifies  *)
(* the release, stops the node, moves each installed file aside as .bak,   *)
(* moves the new one in, probes the result, and then either removes the    *)
(* backups or moves them back.  The flag IsApplying is all that keeps two  *)
(* of them apart, and it is not held from end to end: the handover drops   *)
(* it, each of the two functions has a deferred one that clears it whoever *)
(* has set it, and ResetStatus clears it at any time.                      *)
(***************************************************************************)
EXTENDS Naturals, FiniteSets

CONSTANTS
    Updater,       \* goroutines that run an update
    File,          \* names of the files a release may install
    Binary,        \* the engine's executable, one of them
    Version,       \* releases: semantic versions <<major, minor, patch>>
    Carries,       \* the files in the archive of each release
    Genuine,       \* releases whose signature, checksum and archive hold
    Oldest,        \* bounds of engine.compat.json
    Newest,
    Original,      \* the engine that is installed at first
    Absent,        \* no file, no version
    MaxUpdates,    \* bound: updates that are started
    MaxCrashes     \* bound: times the manager goes away

ASSUME BinaryAssumption == Binary \in File
ASSUME VersionAssumption ==
    /\ Version \subseteq Nat \X Nat \X Nat
    /\ {Oldest, Newest, Original} \subseteq Nat \X Nat \X Nat
    /\ Original \in Version /\ Absent \notin Version
ASSUME ReleaseAssumption ==
    /\ Carries \in [Version -> SUBSET File]
    /\ Genuine \subseteq {v \in Version : Binary \in Carries[v]}

VARIABLES
    file,          \* the version of each file in the engine's directory
    bak,           \* the version of each .bak file beside it
    status,        \* EngineUpdateStatus: State and IsApplying
    job,           \* each goroutine: where it is and its local variables
    node,          \* the controlled node process: "up" or "down"
    updates, crashes,   \* how many updates and crashes there were
    cleared,       \* history: a running update has lost the flag to another
    past           \* history: what was on disk, and what became of it

disk == <<file, bak>>
vars == <<disk, status, job, node, updates, crashes, cleared, past>>
-----------------------------------------------------------------------------
(* Versions. *)

(* -1, 0 or 1 as a is older than, equal to or newer than b. *)
CompareSemver(a, b) ==
    IF a = b THEN 0
    ELSE LET i == CHOOSE k \in 1..3 : a[k] # b[k] /\ \A m \in 1..(k - 1) : a[m] = b[m]
         IN IF a[i] < b[i] THEN 0 - 1 ELSE 1

IsVersionCompatible(v) ==
    CompareSemver(v, Oldest) # 0 - 1 /\ CompareSemver(v, Newest) # 1

(* What ApplyUpdate demands of a release before it touches the engine. *)
Acceptable(v) == v \in Genuine /\ IsVersionCompatible(v)
-----------------------------------------------------------------------------
(* State. *)

Contents == [File -> Version \cup {Absent}]
Simulating == {"simVerify", "simSwap", "simProbe"}
Touching == {"swap", "place", "probe", "watch", "restore", "clean", "record"}
(* Where a deferred reset of IsApplying is still to come: of a download that *)
(* failed, of ApplyUpdate, and of DownloadAndApplyUpdate after ApplyUpdate.  *)
Ending == {"give_up", "leave", "return"}
PCs == {"idle", "download", "handover", "verify", "stop"}
         \cup Touching \cup Simulating \cup Ending

Job == [pc : PCs, version : Version, wasRunning : BOOLEAN,
        at : File, todo : SUBSET File, backed : SUBSET File]
Idle == [pc |-> "idle", version |-> Original, wasRunning |-> FALSE, at |-> Binary,
         todo |-> {}, backed |-> {}]

Status == [state : {"idle", "verifying", "swapping", "healthcheck", "completed",
                    "rolled_back", "failed"},
           applying : BOOLEAN]

isEngineInstalled == file[Binary] # Absent

(* What the history keeps: the files before the update, or after one that   *)
(* was completed, with those whose way back has failed since; and the files *)
(* of the engine that last passed its probe, with those whose only copy, a  *)
(* .bak, was removed since.                                                 *)
Past == [before : Contents, stuck : SUBSET File, good : Contents, overwritten : SUBSET File]

At(pc) == [Idle EXCEPT !.pc = pc]

(* The goroutines that take themselves for the one update in progress. *)
Holding(u) == job[u].pc \notin {"idle", "handover", "return"}
OthersHold(u) == \E w \in Updater \ {u} : Holding(w)

(* Mutant: the zero value of the struct, whose state is the empty string. *)
ZeroStatus == [state |-> "", applying |-> FALSE]

FreshStatus == [state |-> "idle", applying |-> FALSE]

Init ==
    /\ file \in {[f \in File |-> IF f \in Carries[Original] THEN Original ELSE Absent],
                 [f \in File |-> Absent]}
    /\ bak = [f \in File |-> Absent]
    /\ status = FreshStatus
    /\ job = [u \in Updater |-> Idle]
    /\ node = "down"
    /\ updates = 0 /\ crashes = 0
    /\ cleared = FALSE
    /\ past = [before |-> file, stuck |-> {}, good |-> file, overwritten |-> {}]
-----------------------------------------------------------------------------
(* While two updates may meet, nothing is known of whose files are whose. *)
Forgotten ==
    LET absent == [f \in File |-> Absent]
    IN  [before |-> absent, stuck |-> {}, good |-> absent, overwritten |-> {}]

History(c, h) ==
    /\ cleared' = c
    /\ past' = IF c THEN Forgotten ELSE h

Remember(h) == History(cleared, h)

(* After that, the files in place are what the next update is judged by. *)
StartOver ==
    [before |-> file, stuck |-> {},
     good |-> IF cleared THEN file ELSE past.good,
     overwritten |-> IF cleared THEN {} ELSE past.overwritten]

(* The flag.  Take, Release and Drop are sections of code under mu. *)

Take(u, pc, v) ==
    /\ ~status.applying
    /\ status' = [applying |-> TRUE, state |-> "verifying"]
    /\ job' = [job EXCEPT ![u] = [Idle EXCEPT !.pc = pc, !.version = v]]
    /\ History(OthersHold(u), StartOver)

(* Mutant: the flag is cleared at the end of an update, and not deferred. *)
ReleaseAtEnd(u, pc) ==
    /\ status' = [status EXCEPT !.applying = status.state = "failed" /\ @]
    /\ job' = [job EXCEPT ![u] = At(pc)]
    /\ History(cleared \/ OthersHold(u), past)

(* A reset of IsApplying, whoever has set it. *)
Release(u, pc) ==
    /\ status' = [status EXCEPT !.applying = FALSE]
    /\ job' = [job EXCEPT ![u] = At(pc)]
    /\ History(cleared \/ OthersHold(u), past)

(* The simulations clear the flag together with their last state. *)
Drop(u, st) ==
    /\ status' = [applying |-> FALSE, state |-> st]
    /\ job' = [job EXCEPT ![u] = Idle]
    /\ History(cleared \/ OthersHold(u), past)

(* The last state of an update, before the deferred functions run. *)
End(u, pc, st) ==
    /\ status' = [status EXCEPT !.state = st]
    /\ job' = [job EXCEPT ![u] = At(pc)]

Goto(u, pc, st) ==
    /\ job' = [job EXCEPT ![u].pc = pc]
    /\ status' = [status EXCEPT !.state = st]
-----------------------------------------------------------------------------
(* DownloadAndApplyUpdate. *)

StartDownload(u, v) ==
    /\ job[u].pc = "idle" /\ updates < MaxUpdates
    /\ updates' = updates + 1
    /\ Take(u, "download", v)
    /\ UNCHANGED <<disk, node, crashes>>

(* The manifest is read, and its failure recorded, before the guard. *)
ManifestUnreadable ==
    /\ status' = [status EXCEPT !.state = "failed"]
    /\ UNCHANGED <<disk, job, node, updates, crashes, cleared, past>>

DownloadFails(u) ==
    /\ job[u].pc = "download"
    /\ End(u, "give_up", "failed")
    /\ UNCHANGED <<disk, node, updates, crashes, cleared, past>>

(* IsApplying is cleared for ApplyUpdate to set it again. *)
HandOver(u) ==
    /\ job[u].pc = "download"
    /\ job' = [job EXCEPT ![u].pc = "handover"]
    /\ status' = [status EXCEPT !.applying = FALSE]
    /\ History(cleared \/ OthersHold(u), past)
    /\ UNCHANGED <<disk, node, updates, crashes>>

(* ApplyUpdate finds another update and leaves the flag alone. *)
ApplyRefused(u) ==
    /\ job[u].pc = "handover" /\ status.applying
    /\ job' = [job EXCEPT ![u] = At("return")]
    /\ UNCHANGED <<disk, status, node, updates, crashes, cleared, past>>

(* The deferred function of ApplyUpdate. *)
Leave(u) ==
    /\ job[u].pc = "leave"
    /\ Release(u, "return")
    /\ UNCHANGED <<disk, node, updates, crashes>>

(* The deferred function of DownloadAndApplyUpdate: after a download that   *)
(* failed, and once more after ApplyUpdate, where the flag may by now be    *)
(* that of another update.                                                  *)
Return(u) ==
    /\ job[u].pc \in {"give_up", "return"}
    /\ Release(u, "idle")
    /\ UNCHANGED <<disk, node, updates, crashes>>
-----------------------------------------------------------------------------
(* ApplyUpdate. *)

(* Mutant: ApplyUpdate relies on its caller's check of the flag. *)
StartApplyUnguarded(u) ==
    /\ job[u].pc = "handover"
    /\ status' = [applying |-> TRUE, state |-> "verifying"]
    /\ job' = [job EXCEPT ![u].pc = "verify"]
    /\ Remember(StartOver)
    /\ UNCHANGED <<disk, node, updates, crashes>>

StartApply(u) ==
    /\ job[u].pc = "handover"
    /\ Take(u, "verify", job[u].version)
    /\ UNCHANGED <<disk, node, updates, crashes>>

(* A release that is not acceptable, or a read or write that fails; at the *)
(* staging directory it is after the node was stopped.                     *)
Reject(u) ==
    /\ \/ job[u].pc = "verify"
       \/ job[u].pc = "swap" /\ job[u].todo = Carries[job[u].version]
    /\ End(u, "leave", "failed")
    /\ UNCHANGED <<disk, node, updates, crashes, cleared, past>>

Verify(u) ==
    /\ job[u].pc = "verify" /\ Acceptable(job[u].version)
    /\ job' = [job EXCEPT ![u].pc = "stop", ![u].todo = Carries[job[u].version]]
    /\ UNCHANGED <<disk, status, node, updates, crashes, cleared, past>>

StopForSwap(u) ==
    /\ job[u].pc = "stop"
    /\ job' = [job EXCEPT ![u].pc = "swap", ![u].wasRunning = (node = "up")]
    /\ status' = [status EXCEPT !.state = "swapping"]
    /\ node' = "down"
    /\ UNCHANGED <<disk, updates, crashes, cleared, past>>

(* The .bak of f is all there is of that file of the engine that worked. *)
OnlyCopy(f) == bak[f] = past.good[f] /\ bak[f] \notin {Absent, file[f]}

(* Mutant: the installed file is removed for the new one. *)
RemoveInstalled(u, f) ==
    /\ job[u].pc = "swap" /\ f \in job[u].todo /\ file[f] # Absent
    /\ file' = [file EXCEPT ![f] = Absent]
    /\ job' = [job EXCEPT ![u].pc = "place", ![u].at = f]
    /\ UNCHANGED <<bak, status, node, updates, crashes, cleared, past>>

(* Rename the installed file to .bak, over an older .bak. *)
SetAside(u, f) ==
    /\ job[u].pc = "swap" /\ f \in job[u].todo /\ file[f] # Absent
    /\ bak' = [bak EXCEPT ![f] = file[f]]
    /\ file' = [file EXCEPT ![f] = Absent]
    /\ job' = [job EXCEPT ![u].pc = "place", ![u].at = f, ![u].backed = @ \cup {f}]
    /\ Remember([past EXCEPT !.overwritten = @ \cup {g \in {f} : OnlyCopy(g)}])
    /\ UNCHANGED <<status, node, updates, crashes>>

(* The next file to move in: the one set aside, or one that had nothing    *)
(* in its place.                                                           *)
Places(u, f) ==
    \/ job[u].pc = "place" /\ f = job[u].at
    \/ job[u].pc = "swap" /\ f \in job[u].todo /\ file[f] = Absent

Place(u, f) ==
    /\ Places(u, f)
    /\ file' = [file EXCEPT ![f] = job[u].version]
    /\ LET left == job[u].todo \ {f} IN
       /\ job' = [job EXCEPT ![u].todo = left, ![u].at = Binary,
                             ![u].pc = IF left = {} THEN "probe" ELSE "swap"]
       /\ status' = [status EXCEPT !.state = IF left = {} THEN "healthcheck" ELSE @]
    /\ UNCHANGED <<bak, node, updates, crashes, cleared, past>>

(* The renames back; those that fail are ignored, and their .bak stays.    *)
PutBack(u, gone) ==
    \E lost \in SUBSET job[u].backed :
      LET back == job[u].backed \ lost IN
      /\ file' = [f \in File |-> IF f \in back /\ bak[f] # Absent THEN bak[f] ELSE file[f]]
      /\ bak' = [f \in File |-> IF f \in back \cup gone THEN Absent ELSE bak[f]]
      /\ Remember([past EXCEPT !.stuck = @ \cup lost,
                                !.overwritten = @ \cup {f \in gone : OnlyCopy(f)}])

(* A rename fails: the backups return, files that are new stay, and the    *)
(* node that was stopped is not started again.                             *)
PlaceFails(u) ==
    /\ \E f \in File : Places(u, f)
    /\ PutBack(u, {})
    /\ End(u, "leave", "failed")
    /\ UNCHANGED <<node, updates, crashes>>

(* As before; the older .bak of f may be gone already. *)
SetAsideFails(u, f) ==
    /\ job[u].pc = "swap" /\ f \in job[u].todo /\ file[f] # Absent
    /\ \E gone \in SUBSET {f} : PutBack(u, gone)
    /\ End(u, "leave", "failed")
    /\ UNCHANGED <<node, updates, crashes>>

(* A node that ran is started with the new engine, and watched. *)
StartUpdated(u) ==
    /\ job[u].pc = "probe" /\ job[u].wasRunning
    /\ node = "down" /\ isEngineInstalled
    /\ node' = "up"
    /\ job' = [job EXCEPT ![u].pc = "watch"]
    /\ UNCHANGED <<disk, status, updates, crashes, cleared, past>>

Healthy(u) ==
    /\ \/ job[u].pc = "watch" /\ node = "up"
       \/ job[u].pc = "probe" /\ ~job[u].wasRunning /\ isEngineInstalled
    /\ job' = [job EXCEPT ![u].pc = "clean"]
    /\ Remember([past EXCEPT !.good = file, !.overwritten = {}])
    /\ UNCHANGED <<disk, status, node, updates, crashes>>

(* Mutant: only the probe is looked at, a node that is gone is waited for. *)
UnhealthyAtProbe(u) ==
    /\ job[u].pc = "probe"
    /\ job' = [job EXCEPT ![u].pc = "restore", ![u].todo = job[u].backed]
    /\ status' = [status EXCEPT !.state = "rolled_back"]
    /\ node' = "down"
    /\ UNCHANGED <<disk, updates, crashes, cleared, past>>

(* The start or the probe fails, or the node is gone when it is looked at. *)
Unhealthy(u) ==
    /\ job[u].pc = "probe" \/ (job[u].pc = "watch" /\ node = "down")
    /\ job' = [job EXCEPT ![u].pc = "restore", ![u].todo = job[u].backed]
    /\ status' = [status EXCEPT !.state = "rolled_back"]
    /\ node' = "down"
    /\ UNCHANGED <<disk, updates, crashes, cleared, past>>

(* Remove the new file, then rename the backup; the errors of both are      *)
(* ignored, and when the rename fails there may be no file in place.        *)
RestoreFile(u, f) ==
    /\ job[u].pc = "restore" /\ f \in job[u].todo
    /\ job' = [job EXCEPT ![u].todo = @ \ {f}]
    /\ \/ /\ bak[f] # Absent
          /\ file' = [file EXCEPT ![f] = bak[f]] /\ bak' = [bak EXCEPT ![f] = Absent]
          /\ Remember(past)
       \/ /\ file' \in {file, [file EXCEPT ![f] = Absent]} /\ bak' = bak
          /\ Remember([past EXCEPT !.stuck = @ \cup {f}])
    /\ UNCHANGED <<status, node, updates, crashes>>

(* Mutant: the rollback leaves the files that are new. *)
EndRollbackKeepsNew(u) ==
    /\ job[u].pc = "restore" /\ job[u].todo = {}
    /\ node' \in IF job[u].wasRunning THEN {node, "up"} ELSE {node}
    /\ End(u, "leave", status.state)
    /\ UNCHANGED <<disk, updates, crashes, cleared, past>>

(* New files without a backup are removed, and a failure is ignored; the     *)
(* start of the node may fail.                                               *)
EndRollback(u) ==
    /\ job[u].pc = "restore" /\ job[u].todo = {}
    /\ \E left \in SUBSET (Carries[job[u].version] \ job[u].backed) :
         /\ file' = [f \in File |-> IF f \in Carries[job[u].version] \ (job[u].backed \cup left)
                                    THEN Absent ELSE file[f]]
         /\ Remember([past EXCEPT !.stuck = @ \cup left])
    /\ node' \in IF job[u].wasRunning THEN {node, "up"} ELSE {node}
    /\ End(u, "leave", status.state)
    /\ UNCHANGED <<bak, updates, crashes>>

(* A .bak that cannot be removed stays. *)
RemoveBackups(u) ==
    /\ job[u].pc = "clean"
    /\ \E left \in SUBSET job[u].backed :
         bak' = [f \in File |-> IF f \in job[u].backed \ left THEN Absent ELSE bak[f]]
    /\ job' = [job EXCEPT ![u].pc = "record"]
    /\ UNCHANGED <<file, status, node, updates, crashes, cleared, past>>

RecordVersion(u) ==
    /\ job[u].pc = "record"
    /\ End(u, "leave", "completed")
    /\ Remember([past EXCEPT !.before = file, !.stuck = {}])
    /\ UNCHANGED <<disk, node, updates, crashes>>
-----------------------------------------------------------------------------
(* TriggerWorkflow: the scenarios signature_fail and rollback only act an   *)
(* update out in the status.                                                *)

Simulate(u) ==
    /\ job[u].pc = "idle" /\ updates < MaxUpdates
    /\ updates' = updates + 1
    /\ Take(u, "simVerify", Original)
    /\ UNCHANGED <<disk, node, crashes>>

SimulatedStep(u) ==
    /\ \/ job[u].pc = "simVerify" /\ Goto(u, "simSwap", "swapping")
       \/ job[u].pc = "simSwap" /\ Goto(u, "simProbe", "healthcheck")
    /\ UNCHANGED <<disk, node, updates, crashes, cleared, past>>

SimulatedEnd(u) ==
    /\ \/ job[u].pc = "simVerify" /\ Drop(u, "failed")
       \/ job[u].pc = "simProbe" /\ Drop(u, "rolled_back")
    /\ UNCHANGED <<disk, node, updates, crashes>>
-----------------------------------------------------------------------------
(* Requests beside the updates. *)

ResetStatus ==
    /\ status' = FreshStatus
    /\ History(cleared \/ (\E u \in Updater : Holding(u)), past)
    /\ UNCHANGED <<disk, job, node, updates, crashes>>

(* CheckUpdate fails without a network; that matters to the state only      *)
(* while there is no engine.                                                *)
CheckUpdate ==
    /\ ~isEngineInstalled
    /\ status' = [status EXCEPT !.state = "failed"]
    /\ UNCHANGED <<disk, job, node, updates, crashes, cleared, past>>

(* The user starts and stops the node, and the node ends by itself. *)
NodeChanges ==
    /\ \/ node = "up" /\ node' = "down"
       \/ node = "down" /\ isEngineInstalled /\ node' = "up"
    /\ UNCHANGED <<disk, status, job, updates, crashes, cleared, past>>

(* The manager goes away in the middle of anything and is launched again;  *)
(* nothing looks for .bak files.                                           *)
Crash ==
    /\ crashes < MaxCrashes
    /\ crashes' = crashes + 1
    /\ job' = [u \in Updater |-> Idle]
    /\ status' = FreshStatus
    /\ History(FALSE, StartOver)
    /\ UNCHANGED <<disk, node, updates>>
-----------------------------------------------------------------------------
Download(u) ==
    \/ DownloadFails(u) \/ HandOver(u) \/ ApplyRefused(u) \/ StartApply(u)
    \/ Leave(u) \/ Return(u)

Apply(u) ==
    \/ Reject(u) \/ Verify(u) \/ StopForSwap(u)
    \/ \E f \in File : SetAside(u, f) \/ SetAsideFails(u, f) \/ Place(u, f) \/ RestoreFile(u, f)
    \/ PlaceFails(u) \/ StartUpdated(u) \/ Healthy(u) \/ Unhealthy(u)
    \/ EndRollback(u) \/ RemoveBackups(u) \/ RecordVersion(u)

Progress(u) == Download(u) \/ Apply(u) \/ SimulatedStep(u) \/ SimulatedEnd(u)

Request ==
    \/ \E u \in Updater : Simulate(u) \/ \E v \in Version : StartDownload(u, v)
    \/ ManifestUnreadable \/ ResetStatus \/ CheckUpdate

Next ==
    \/ \E u \in Updater : Progress(u)
    \/ Request \/ NodeChanges \/ Crash

Spec == Init /\ [][Next]_vars

(* Some goroutine that can go on does: every request has a timeout, the     *)
(* sleeps end and the node controller returns from its calls.               *)
FairSpec == Spec /\ WF_vars(\E u \in Updater : Progress(u))
-----------------------------------------------------------------------------
TypeOK ==
    /\ file \in Contents /\ bak \in Contents
    /\ status \in Status
    /\ job \in [Updater -> Job]
    /\ node \in {"up", "down"}
    /\ updates \in Nat /\ crashes \in Nat
    /\ cleared \in BOOLEAN
    /\ past \in Past

(* Unless somebody has cleared the flag of a running update, no two updates *)
(* are past the guard at once: neither the handover, which drops the flag,  *)
(* nor any way out of ApplyUpdate lets a second one in.  What clears it is   *)
(* ResetStatus, or the deferred function of a DownloadAndApplyUpdate whose   *)
(* ApplyUpdate was refused, or had dropped the flag already when another     *)
(* update came in.                                                           *)
OneUpdateUnlessCleared ==
    ~cleared => \A u, w \in Updater : Holding(u) /\ Holding(w) => u = w

(* The flag is never left behind: while IsApplying is set some update is    *)
(* running that will clear it, on every path through both functions.        *)
ApplyingHasOwner == status.applying => \E u \in Updater : Holding(u)

(* An update that was rolled back leaves the directory as it was, and one   *)
(* that failed leaves every file there was as it was, but for the files     *)
(* whose own way back, a rename or a removal, failed as well.               *)
UndoneLeavesOldEngine ==
    ~cleared /\ ~(\E u \in Updater : Holding(u)) => \A f \in File \ past.stuck :
        /\ status.state = "rolled_back" => file[f] = past.before[f]
        /\ status.state = "failed" /\ past.before[f] # Absent => file[f] = past.before[f]

(* A file of the engine that last passed its probe is in place or under      *)
(* .bak at every moment, whatever rename fails and wherever the manager goes *)
(* away, also through the updates after that; only one thing takes the last  *)
(* copy away: a later update that finds another file in place and removes    *)
(* the older .bak for its own.                                               *)
OldEngineOnDisk ==
    ~cleared => \A f \in File \ past.overwritten : past.good[f] \in {Absent, file[f], bak[f]}

(* Whatever fails, and whoever takes the flag from whom, all updates come   *)
(* to an end, and then none of them has left the flag behind.               *)
UpdatesEnd == []<>(\A u \in Updater : job[u].pc = "idle" /\ ~status.applying)
=============================================================================
