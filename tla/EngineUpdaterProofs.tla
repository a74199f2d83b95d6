------------------------ MODULE EngineUpdaterProofs ------------------------
(***************************************************************************)
(* Proofs about EngineUpdater, for any goroutines, files and releases.     *)
(* The flag's part of the invariant is about all goroutines; the disk's    *)
(* parts speak of the one that is past the guard as long as nobody has     *)
(* cleared the flag under it, and say for each stage of the swap where     *)
(* every file is that was there before it, and every file of the engine    *)
(* that last passed its probe.                                             *)
(***************************************************************************)
EXTENDS EngineUpdater, TLAPS

(* While nobody has cleared the flag, whoever is past the guard has it set. *)
HoldersFlag == ~cleared /\ (\E u \in Updater : Holding(u)) => status.applying

(* The local variables of ApplyUpdate, stage by stage. *)
LocalOK(j) ==
    /\ j.pc = "verify" => j.backed = {}
    /\ j.pc = "stop" => j.todo = Carries[j.version] /\ j.backed = {}
    /\ j.pc \in {"swap", "place"} =>
         j.todo \subseteq Carries[j.version] /\ j.backed \subseteq Carries[j.version]
    /\ j.pc = "swap" => j.todo \cap j.backed = {}
    /\ j.pc = "place" => j.todo \cap j.backed = {j.at}
    /\ j.pc \in {"probe", "watch", "clean", "restore"} => j.backed \subseteq Carries[j.version]
    /\ j.pc = "restore" => j.todo \subseteq j.backed

Locals == \A u \in Updater : LocalOK(job[u])

(* The old files under .bak, in their place, and those there never were,    *)
(* but for the files whose way back has failed.                             *)
Kept(inBak, inPlace, none) ==
    /\ \A f \in inBak \ past.stuck : past.before[f] # Absent /\ bak[f] = past.before[f]
    /\ \A f \in inPlace \ past.stuck : file[f] = past.before[f]
    /\ \A f \in none \ past.stuck : past.before[f] = Absent

Quiescent ==
    /\ \A f \in File \ past.stuck : past.before[f] # Absent => file[f] = past.before[f]
    /\ status.state = "rolled_back" => \A f \in File \ past.stuck : file[f] = past.before[f]

DiskOf(j) ==
    LET C == Carries[j.version] IN
    /\ j.pc \in Simulating \cup {"download", "verify", "stop"} => Kept({}, File, {})
    /\ j.pc \in {"swap", "place"} =>
         Kept(j.backed, (j.todo \ j.backed) \cup (File \ C), C \ (j.todo \cup j.backed))
    /\ j.pc \in {"probe", "watch", "clean"} => Kept(j.backed, File \ C, C \ j.backed)
    /\ j.pc = "restore" => Kept(j.todo, (j.backed \ j.todo) \cup (File \ C), C \ j.backed)
    /\ j.pc \in {"give_up", "leave"} => Quiescent

Disk ==
    ~cleared => /\ \A u \in Updater : DiskOf(job[u])
                /\ ~(\E u \in Updater : Holding(u)) => Quiescent

(* The files that the update may yet remove from their place are under .bak *)
(* as far as they are of the engine that worked.                            *)
InBak(names) == \A f \in names \ past.overwritten : past.good[f] \in {Absent, bak[f]}

EngineOf(j) ==
    LET C == Carries[j.version] IN
    /\ j.pc \in {"swap", "place"} => InBak(C \ (j.todo \ j.backed))
    /\ j.pc \in {"probe", "watch"} => InBak(C)
    /\ j.pc = "restore" => InBak(C \ (j.backed \ j.todo))
    /\ j.pc = "clean" => \A f \in File : past.good[f] = file[f]

Engine == OldEngineOnDisk /\ (~cleared => \A u \in Updater : EngineOf(job[u]))

IInv ==
    /\ TypeOK /\ OneUpdateUnlessCleared /\ ApplyingHasOwner /\ HoldersFlag
    /\ Locals /\ Disk /\ Engine
-----------------------------------------------------------------------------
LEMMA IdleType == Idle \in Job
BY VersionAssumption, BinaryAssumption DEF Idle, Job, PCs

LEMMA AtType == ASSUME NEW pc \in PCs PROVE At(pc) \in Job /\ At(pc).pc = pc
BY IdleType DEF At, Idle, Job

LEMMA CarriesType == ASSUME NEW v \in Version PROVE Carries[v] \subseteq File
BY ReleaseAssumption

LEMMA HistoryType ==
    ASSUME NEW c \in BOOLEAN, NEW h \in Past, History(c, h)
    PROVE  cleared' = c /\ cleared' \in BOOLEAN /\ past' \in Past /\ (~cleared' => past' = h)
BY DEF History, Forgotten, Past, Contents

LEMMA StartOverType == ASSUME TypeOK PROVE StartOver \in Past
<1>1. past \in Past /\ file \in Contents /\ cleared \in BOOLEAN
    BY DEF TypeOK
<1>2. (IF cleared THEN file ELSE past.good) \in Contents
    BY <1>1 DEF Past
<1>3. (IF cleared THEN {} ELSE past.overwritten) \in SUBSET File
    BY <1>1 DEF Past
<1> QED BY <1>1, <1>2, <1>3 DEF StartOver, Past

LEMMA InitIInv == Init => IInv
<1> SUFFICES ASSUME Init PROVE IInv
    OBVIOUS
<1>1. \A u \in Updater : job[u] = Idle
    BY DEF Init
<1>2. \A u \in Updater : ~Holding(u)
    BY <1>1 DEF Holding, Idle
<1>3. file \in Contents /\ bak \in Contents
    BY VersionAssumption DEF Init, Contents
<1>4. job \in [Updater -> Job]
    BY IdleType DEF Init
<1>5. past \in Past /\ past.before = file /\ past.good = file
    BY <1>3 DEF Init, Past
<1>6. TypeOK
    BY <1>3, <1>4, <1>5 DEF Init, TypeOK, Status, FreshStatus
<1>7. Locals
    BY <1>1 DEF Locals, LocalOK, Idle
<1>8. Disk
    BY <1>1, <1>5 DEF Disk, DiskOf, Idle, Simulating, Quiescent
<1>9. Engine
    BY <1>1, <1>5 DEF Engine, EngineOf, Idle, OldEngineOnDisk
<1>10. ~status.applying
    BY DEF Init, FreshStatus
<1> QED BY <1>2, <1>6, <1>7, <1>8, <1>9, <1>10
        DEF IInv, OneUpdateUnlessCleared, ApplyingHasOwner, HoldersFlag
-----------------------------------------------------------------------------
(* The steps of one goroutine: what each does to its record, to its flag    *)
(* and to the history.                                                      *)

Started(u) == Simulate(u) \/ (\E v \in Version : StartDownload(u, v)) \/ StartApply(u)

Ended(u) ==
    \/ DownloadFails(u) \/ Reject(u) \/ PlaceFails(u)
    \/ (\E f \in File : SetAsideFails(u, f)) \/ EndRollback(u) \/ RecordVersion(u)

Went(u) ==
    \/ Verify(u) \/ StopForSwap(u)
    \/ (\E f \in File : SetAside(u, f) \/ Place(u, f) \/ RestoreFile(u, f))
    \/ StartUpdated(u) \/ Healthy(u) \/ Unhealthy(u) \/ RemoveBackups(u) \/ SimulatedStep(u)

Released(u) == HandOver(u) \/ Leave(u) \/ Return(u) \/ SimulatedEnd(u)

(* Anything that is no goroutine's. *)
Aside == ManifestUnreadable \/ ResetStatus \/ CheckUpdate \/ NodeChanges

LEMMA Steps ==
    ASSUME [Next]_vars
    PROVE  \/ \E u \in Updater : Started(u) \/ Ended(u) \/ Went(u) \/ Released(u) \/ ApplyRefused(u)
           \/ Aside \/ Crash \/ UNCHANGED vars
BY DEF Next, Progress, Download, Apply, Request, Started, Ended, Went, Released, Aside

LEMMA StartedStep ==
    ASSUME TypeOK, NEW u \in Updater, Started(u)
    PROVE  \E pc \in {"download", "verify", "simVerify"}, v \in Version :
             /\ job' = [job EXCEPT ![u] = [Idle EXCEPT !.pc = pc, !.version = v]]
             /\ ~status.applying /\ status' = [applying |-> TRUE, state |-> "verifying"]
             /\ History(OthersHold(u), StartOver)
             /\ UNCHANGED <<disk, node, crashes>> /\ updates' \in Nat
<1>1. CASE Simulate(u)
    <2>1. /\ job' = [job EXCEPT ![u] = [Idle EXCEPT !.pc = "simVerify", !.version = Original]]
          /\ ~status.applying /\ status' = [applying |-> TRUE, state |-> "verifying"]
          /\ History(OthersHold(u), StartOver)
        BY <1>1 DEF Simulate, Take
    <2>2. UNCHANGED <<disk, node, crashes>> /\ updates' \in Nat
        BY <1>1 DEF Simulate, TypeOK
    <2> QED BY <2>1, <2>2, VersionAssumption
<1>2. ASSUME NEW v \in Version, StartDownload(u, v)
      PROVE  /\ job' = [job EXCEPT ![u] = [Idle EXCEPT !.pc = "download", !.version = v]]
             /\ ~status.applying /\ status' = [applying |-> TRUE, state |-> "verifying"]
             /\ History(OthersHold(u), StartOver)
             /\ UNCHANGED <<disk, node, crashes>> /\ updates' \in Nat
    BY <1>2 DEF StartDownload, Take, TypeOK
<1>3. CASE StartApply(u)
    <2>1. job[u].version \in Version
        BY DEF TypeOK, Job
    <2> QED BY <1>3, <2>1 DEF StartApply, Take, TypeOK
<1> QED BY <1>1, <1>2, <1>3 DEF Started

LEMMA EndedStep ==
    ASSUME TypeOK, NEW u \in Updater, Ended(u)
    PROVE  /\ Holding(u)
           /\ \E pc \in {"give_up", "leave"} : job' = [job EXCEPT ![u] = At(pc)]
           /\ status'.applying = status.applying /\ status' \in Status
           /\ UNCHANGED <<updates, crashes, cleared>>
<1>1. \E st \in {"failed", "completed", status.state}, pc \in {"give_up", "leave"} : End(u, pc, st)
    BY DEF Ended, DownloadFails, Reject, PlaceFails, SetAsideFails, EndRollback, RecordVersion
<1>2. job' = [job EXCEPT ![u] = At("give_up")] \/ job' = [job EXCEPT ![u] = At("leave")]
    BY <1>1 DEF End
<1>3. status'.applying = status.applying /\ status' \in Status
    BY <1>1 DEF End, TypeOK, Status
<1>4. Holding(u)
    BY DEF Ended, DownloadFails, Reject, PlaceFails, SetAsideFails, EndRollback, RecordVersion,
           Places, Holding
<1>5. UNCHANGED <<updates, crashes, cleared>>
    BY DEF Ended, DownloadFails, Reject, PlaceFails, SetAsideFails, EndRollback, RecordVersion,
           PutBack, Remember, History
<1> QED BY <1>2, <1>3, <1>4, <1>5

LEMMA ReleasedStep ==
    ASSUME TypeOK, NEW u \in Updater, Released(u)
    PROVE  /\ \E r \in Job : job' = [job EXCEPT ![u] = r] /\ r.pc \in {"idle", "handover", "return"}
           /\ ~status'.applying /\ status' \in Status
           /\ History(cleared \/ OthersHold(u), past)
           /\ UNCHANGED <<disk, node, updates, crashes>>
<1>1. CASE HandOver(u)
    <2> DEFINE r == [job[u] EXCEPT !.pc = "handover"]
    <2>1. r \in Job /\ r.pc = "handover"
        BY DEF TypeOK, Job, PCs
    <2>2. job' = [job EXCEPT ![u] = r]
        BY <1>1 DEF HandOver, TypeOK, Job
    <2> HIDE DEF r
    <2>3. ~status'.applying /\ status' \in Status
        BY <1>1 DEF HandOver, TypeOK, Status
    <2> QED BY <1>1, <2>1, <2>2, <2>3 DEF HandOver
<1>2. CASE Leave(u) \/ Return(u)
    <2>1. PICK pc \in {"return", "idle"} : Release(u, pc)
        BY <1>2 DEF Leave, Return
    <2>2. At(pc) \in Job /\ At(pc).pc = pc
        BY AtType DEF PCs, Ending
    <2>3. ~status'.applying /\ status' \in Status
        BY <2>1 DEF Release, TypeOK, Status
    <2>4. UNCHANGED <<disk, node, updates, crashes>>
        BY <1>2 DEF Leave, Return
    <2> QED BY <2>1, <2>2, <2>3, <2>4 DEF Release
<1>3. CASE SimulatedEnd(u)
    <2>1. PICK st \in {"failed", "rolled_back"} : Drop(u, st)
        BY <1>3 DEF SimulatedEnd
    <2>2. ~status'.applying /\ status' \in Status
        BY <2>1 DEF Drop, Status
    <2>3. Idle \in Job /\ Idle.pc = "idle"
        BY IdleType DEF Idle
    <2> QED BY <1>3, <2>1, <2>2, <2>3 DEF Drop, SimulatedEnd
<1> QED BY <1>1, <1>2, <1>3 DEF Released

LEMMA WentStep ==
    ASSUME TypeOK, NEW u \in Updater, Went(u)
    PROVE  /\ Holding(u)
           /\ \E r \in Job : job' = [job EXCEPT ![u] = r] /\ r.pc \notin {"idle", "handover", "return"}
                             /\ r.version = job[u].version
           /\ status'.applying = status.applying /\ status' \in Status
           /\ UNCHANGED <<updates, crashes, cleared>>
<1> DEFINE Post ==
      /\ Holding(u)
      /\ \E r \in Job : job' = [job EXCEPT ![u] = r] /\ r.pc \notin {"idle", "handover", "return"}
                        /\ r.version = job[u].version
      /\ status'.applying = status.applying /\ status' \in Status
      /\ UNCHANGED <<updates, crashes, cleared>>
<1>0. job[u] \in Job /\ status \in Status /\ Carries[job[u].version] \subseteq File
    BY CarriesType DEF TypeOK, Job
<1>J. ASSUME NEW pc \in PCs \ {"idle", "handover", "return"}, NEW w \in BOOLEAN, NEW a \in File,
             NEW t \in SUBSET File, NEW b \in SUBSET File
      PROVE  [job[u] EXCEPT !.pc = pc, !.wasRunning = w, !.at = a, !.todo = t, !.backed = b]
               \in {r \in Job : r.pc \notin {"idle", "handover", "return"} /\ r.version = job[u].version}
    BY <1>0 DEF Job
<1>S. ASSUME NEW st \in {"swapping", "healthcheck", "rolled_back"}
      PROVE  [status EXCEPT !.state = st] \in Status /\ [status EXCEPT !.state = st].applying = status.applying
    BY <1>0 DEF Status
<1>1. CASE Verify(u)
    <2> DEFINE r == [job[u] EXCEPT !.pc = "stop", !.todo = Carries[job[u].version]]
    <2>1. r \in Job /\ r.pc = "stop" /\ r.version = job[u].version
        BY <1>0 DEF Job, PCs
    <2>2. job' = [job EXCEPT ![u] = r]
        BY <1>1, <1>0 DEF Verify, TypeOK, Job
    <2> HIDE DEF r
    <2> QED BY <1>1, <1>0, <2>1, <2>2 DEF Verify, Holding
<1>2. CASE StopForSwap(u)
    <2> DEFINE r == [job[u] EXCEPT !.pc = "swap", !.wasRunning = (node = "up")]
    <2>1. r \in Job /\ r.pc = "swap" /\ r.version = job[u].version
        BY <1>0 DEF Job, PCs, Touching
    <2>2. job' = [job EXCEPT ![u] = r]
        BY <1>2, <1>0 DEF StopForSwap, TypeOK, Job
    <2> HIDE DEF r
    <2> QED BY <1>2, <1>S, <2>1, <2>2 DEF StopForSwap, Holding
<1>3. ASSUME NEW f \in File, SetAside(u, f) PROVE Post
    <2> DEFINE r == [job[u] EXCEPT !.pc = "place", !.at = f, !.backed = job[u].backed \cup {f}]
    <2>1. r \in Job /\ r.pc = "place" /\ r.version = job[u].version
        BY <1>0 DEF Job, PCs, Touching
    <2>2. job' = [job EXCEPT ![u] = r]
        BY <1>3, <1>0 DEF SetAside, TypeOK, Job
    <2> HIDE DEF r
    <2> QED BY <1>3, <1>0, <2>1, <2>2 DEF SetAside, Holding, Remember, History
<1>4. ASSUME NEW f \in File, Place(u, f) PROVE Post
    <2> DEFINE p == IF job[u].todo \ {f} = {} THEN "probe" ELSE "swap"
    <2> DEFINE r == [job[u] EXCEPT !.todo = job[u].todo \ {f}, !.at = Binary, !.pc = p]
    <2>0. p \in {"probe", "swap"}
        OBVIOUS
    <2>1. r \in Job /\ r.pc \in {"probe", "swap"} /\ r.version = job[u].version
        BY <1>0, <2>0, BinaryAssumption DEF Job, PCs, Touching
    <2>2. job' = [job EXCEPT ![u] = r]
        BY <1>4, <1>0 DEF Place, TypeOK, Job
    <2>3. status' = [status EXCEPT !.state = "healthcheck"] \/ status' = status
        BY <1>4, <1>0 DEF Place, Status
    <2>4. Holding(u)
        BY <1>4 DEF Place, Places, Holding
    <2> HIDE DEF r
    <2> QED BY <1>4, <1>0, <1>S, <2>1, <2>2, <2>3, <2>4 DEF Place
<1>5. ASSUME NEW f \in File, RestoreFile(u, f) PROVE Post
    <2> DEFINE r == [job[u] EXCEPT !.todo = job[u].todo \ {f}]
    <2>1. r \in Job /\ r.pc = job[u].pc /\ r.version = job[u].version
        BY <1>0 DEF Job
    <2>2. job' = [job EXCEPT ![u] = r]
        BY <1>5, <1>0 DEF RestoreFile, TypeOK, Job
    <2> HIDE DEF r
    <2> QED BY <1>5, <1>0, <2>1, <2>2 DEF RestoreFile, Holding, Remember, History
<1>6. ASSUME NEW pc \in {"watch", "clean", "record", "simSwap", "simProbe"},
             job' = [job EXCEPT ![u].pc = pc]
      PROVE  \E r \in Job : job' = [job EXCEPT ![u] = r] /\ r.pc \notin {"idle", "handover", "return"}
                            /\ r.version = job[u].version
    <2> DEFINE r == [job[u] EXCEPT !.pc = pc]
    <2>1. r \in Job /\ r.pc = pc /\ r.version = job[u].version
        BY <1>0 DEF Job, PCs, Touching, Simulating
    <2>2. job' = [job EXCEPT ![u] = r]
        BY <1>6, <1>0 DEF TypeOK, Job
    <2> HIDE DEF r
    <2> QED BY <2>1, <2>2
<1>7. CASE StartUpdated(u) \/ Healthy(u) \/ RemoveBackups(u)
    <2>1. \E pc \in {"watch", "clean", "record"} : job' = [job EXCEPT ![u].pc = pc]
        BY <1>7 DEF StartUpdated, Healthy, RemoveBackups
    <2>2. Holding(u) /\ UNCHANGED <<status, updates, crashes, cleared>>
        BY <1>7 DEF StartUpdated, Healthy, RemoveBackups, Holding, Remember, History
    <2> QED BY <1>0, <1>6, <2>1, <2>2
<1>8. CASE SimulatedStep(u)
    <2>1. \E pc \in {"simSwap", "simProbe"} : job' = [job EXCEPT ![u].pc = pc]
        BY <1>8 DEF SimulatedStep, Goto
    <2>2. Holding(u) /\ UNCHANGED <<updates, crashes, cleared>>
        BY <1>8 DEF SimulatedStep, Holding
    <2>3. \E st \in {"swapping", "healthcheck"} : status' = [status EXCEPT !.state = st]
        BY <1>8 DEF SimulatedStep, Goto
    <2> QED BY <1>6, <1>S, <2>1, <2>2, <2>3
<1>9. CASE Unhealthy(u)
    <2> DEFINE r == [job[u] EXCEPT !.pc = "restore", !.todo = job[u].backed]
    <2>1. r \in Job /\ r.pc = "restore" /\ r.version = job[u].version
        BY <1>0 DEF Job, PCs, Touching
    <2>2. job' = [job EXCEPT ![u] = r]
        BY <1>9, <1>0 DEF Unhealthy, TypeOK, Job
    <2> HIDE DEF r
    <2> QED BY <1>9, <1>S, <2>1, <2>2 DEF Unhealthy, Holding
<1> QED BY <1>1, <1>2, <1>3, <1>4, <1>5, <1>7, <1>8, <1>9 DEF Went

LEMMA AsideStep ==
    ASSUME TypeOK, Aside
    PROVE  /\ UNCHANGED <<disk, job, updates, crashes>> /\ node' \in {"up", "down"}
           /\ status' \in Status /\ status'.state \in {"idle", "failed", status.state}
           /\ \/ status'.applying = status.applying /\ UNCHANGED <<cleared, past>>
              \/ ~status'.applying /\ History(cleared \/ (\E u \in Updater : Holding(u)), past)
<1>1. CASE ManifestUnreadable \/ CheckUpdate
    BY <1>1 DEF ManifestUnreadable, CheckUpdate, TypeOK, Status
<1>2. CASE ResetStatus
    BY <1>2 DEF ResetStatus, TypeOK, Status, FreshStatus
<1>3. CASE NodeChanges
    BY <1>3 DEF NodeChanges, TypeOK, Status
<1> QED BY <1>1, <1>2, <1>3 DEF Aside

LEMMA RefusedStep ==
    ASSUME TypeOK, NEW u \in Updater, ApplyRefused(u)
    PROVE  /\ ~Holding(u) /\ job' = [job EXCEPT ![u] = At("return")] /\ At("return") \in Job
           /\ At("return").pc = "return"
           /\ UNCHANGED <<disk, status, node, updates, crashes, cleared, past>>
<1>1. At("return") \in Job /\ At("return").pc = "return"
    BY AtType DEF PCs, Ending
<1> QED BY <1>1 DEF ApplyRefused, Holding
-----------------------------------------------------------------------------
(* Typing. *)

(* The directory and the history after the step of a goroutine. *)
LEMMA DiskType ==
    ASSUME TypeOK, NEW u \in Updater, Ended(u) \/ Went(u)
    PROVE  file' \in Contents /\ bak' \in Contents /\ node' \in {"up", "down"} /\ past' \in Past
<1> DEFINE Post == file' \in Contents /\ bak' \in Contents /\ node' \in {"up", "down"} /\ past' \in Past
<1>0. job[u] \in Job /\ past \in Past /\ cleared \in BOOLEAN
    BY DEF TypeOK
<1>R. ASSUME NEW h \in Past, Remember(h) PROVE past' \in Past
    BY <1>0, <1>R, HistoryType DEF Remember
<1>P. ASSUME NEW s \in SUBSET File, NEW o \in SUBSET File
      PROVE  /\ [past EXCEPT !.stuck = past.stuck \cup s] \in Past
             /\ [past EXCEPT !.overwritten = past.overwritten \cup o] \in Past
             /\ [past EXCEPT !.stuck = past.stuck \cup s, !.overwritten = past.overwritten \cup o] \in Past
             /\ [past EXCEPT !.good = file, !.overwritten = {}] \in Past
             /\ [past EXCEPT !.before = file, !.stuck = {}] \in Past
    BY <1>0 DEF Past, TypeOK
<1>B. ASSUME NEW gone \in SUBSET File, PutBack(u, gone)
      PROVE  file' \in Contents /\ bak' \in Contents /\ past' \in Past
    <2>1. PICK lost \in SUBSET job[u].backed :
             /\ file' = [f \in File |-> IF f \in job[u].backed \ lost /\ bak[f] # Absent THEN bak[f] ELSE file[f]]
             /\ bak' = [f \in File |-> IF f \in (job[u].backed \ lost) \cup gone THEN Absent ELSE bak[f]]
             /\ Remember([past EXCEPT !.stuck = past.stuck \cup lost,
                                      !.overwritten = past.overwritten \cup {f \in gone : OnlyCopy(f)}])
        BY <1>B DEF PutBack
    <2>2. lost \in SUBSET File /\ {f \in gone : OnlyCopy(f)} \in SUBSET File
        BY <1>0 DEF Job
    <2>3. past' \in Past
        BY <2>1, <2>2, <1>P, <1>R
    <2>4. file' \in Contents /\ bak' \in Contents
        BY <2>1 DEF TypeOK, Contents
    <2> QED BY <2>3, <2>4
<1>1. ASSUME NEW f \in File, SetAside(u, f) PROVE Post
    <2>1. {g \in {f} : OnlyCopy(g)} \in SUBSET File
        OBVIOUS
    <2>2. past' \in Past
        BY <1>1, <1>P, <1>R, <2>1 DEF SetAside
    <2> QED BY <1>1, <2>2 DEF SetAside, TypeOK, Contents
<1>2. ASSUME NEW f \in File, Place(u, f) PROVE Post
    BY <1>0, <1>2 DEF Place, TypeOK, Contents, Job
<1>3. ASSUME NEW f \in File, RestoreFile(u, f) PROVE Post
    <2>1. past' \in Past
        BY <1>0, <1>3, <1>P, <1>R DEF RestoreFile
    <2> QED BY <1>3, <2>1 DEF RestoreFile, TypeOK, Contents
<1>4. CASE PlaceFails(u)
    BY <1>4, <1>B DEF PlaceFails, TypeOK
<1>5. ASSUME NEW f \in File, SetAsideFails(u, f) PROVE Post
    <2>1. PICK gone \in SUBSET {f} : PutBack(u, gone)
        BY <1>5 DEF SetAsideFails
    <2> QED BY <1>5, <1>B, <2>1 DEF SetAsideFails, TypeOK
<1>6. CASE EndRollback(u)
    <2>1. PICK left \in SUBSET (Carries[job[u].version] \ job[u].backed) :
             /\ file' = [f \in File |-> IF f \in Carries[job[u].version] \ (job[u].backed \cup left)
                                        THEN Absent ELSE file[f]]
             /\ Remember([past EXCEPT !.stuck = past.stuck \cup left])
        BY <1>6 DEF EndRollback
    <2>2. file' \in Contents
        BY <2>1 DEF TypeOK, Contents
    <2>3. left \in SUBSET File
        BY <1>0, CarriesType DEF Job
    <2>4. past' \in Past
        BY <2>1, <2>3, <1>P, <1>R
    <2> QED BY <1>6, <2>2, <2>4 DEF EndRollback, TypeOK
<1>7. CASE RemoveBackups(u)
    BY <1>7 DEF RemoveBackups, TypeOK, Contents
<1>8. CASE Healthy(u)
    <2>1. past' \in Past
        BY <1>8, <1>P, <1>R DEF Healthy
    <2> QED BY <1>8, <2>1 DEF Healthy, disk, TypeOK
<1>9. CASE RecordVersion(u)
    <2>1. past' \in Past
        BY <1>9, <1>P, <1>R DEF RecordVersion
    <2> QED BY <1>9, <2>1 DEF RecordVersion, disk, TypeOK
<1>10. CASE DownloadFails(u) \/ Reject(u)
    BY <1>10 DEF DownloadFails, Reject, disk, TypeOK
<1>11. CASE Verify(u) \/ StopForSwap(u) \/ StartUpdated(u) \/ Unhealthy(u) \/ SimulatedStep(u)
    BY <1>11 DEF Verify, StopForSwap, StartUpdated, Unhealthy, SimulatedStep, disk, TypeOK
<1> QED BY <1>1, <1>2, <1>3, <1>4, <1>5, <1>6, <1>7, <1>8, <1>9, <1>10, <1>11 DEF Ended, Went

LEMMA TypeStep == TypeOK /\ [Next]_vars => TypeOK'
<1> SUFFICES ASSUME TypeOK, [Next]_vars PROVE TypeOK'
    OBVIOUS
<1>0. past \in Past /\ cleared \in BOOLEAN
    BY DEF TypeOK
<1>1. ASSUME NEW u \in Updater, Started(u) PROVE TypeOK'
    <2>1. PICK pc \in {"download", "verify", "simVerify"}, v \in Version :
             /\ job' = [job EXCEPT ![u] = [Idle EXCEPT !.pc = pc, !.version = v]]
             /\ status' = [applying |-> TRUE, state |-> "verifying"]
             /\ History(OthersHold(u), StartOver)
             /\ UNCHANGED <<disk, node, crashes>> /\ updates' \in Nat
        BY <1>1, StartedStep
    <2> DEFINE r == [Idle EXCEPT !.pc = pc, !.version = v]
    <2>2. r \in Job
        BY IdleType DEF Job, PCs, Simulating
    <2>3. job' = [job EXCEPT ![u] = r]
        BY <2>1
    <2> HIDE DEF r
    <2>4. job' \in [Updater -> Job]
        BY <2>2, <2>3 DEF TypeOK
    <2>5. OthersHold(u) \in BOOLEAN
        BY DEF OthersHold
    <2>6. cleared' \in BOOLEAN /\ past' \in Past
        BY <2>1, <2>5, StartOverType, HistoryType
    <2>7. status' \in Status
        BY <2>1 DEF Status
    <2> QED BY <2>1, <2>4, <2>6, <2>7 DEF TypeOK, disk
<1>2. ASSUME NEW u \in Updater, Ended(u) PROVE TypeOK'
    <2>1. job' \in [Updater -> Job]
        <3>1. PICK pc \in {"give_up", "leave"} : job' = [job EXCEPT ![u] = At(pc)]
            BY <1>2, EndedStep
        <3>2. At(pc) \in Job
            BY AtType DEF PCs, Ending
        <3> QED BY <3>1, <3>2 DEF TypeOK
    <2> QED BY <1>2, <2>1, EndedStep, DiskType DEF TypeOK
<1>3. ASSUME NEW u \in Updater, Went(u) PROVE TypeOK'
    <2>1. job' \in [Updater -> Job]
        BY <1>3, WentStep DEF TypeOK
    <2> QED BY <1>3, <2>1, WentStep, DiskType DEF TypeOK
<1>4. ASSUME NEW u \in Updater, Released(u) PROVE TypeOK'
    <2>1. job' \in [Updater -> Job]
        BY <1>4, ReleasedStep DEF TypeOK
    <2>2. (cleared \/ OthersHold(u)) \in BOOLEAN
        BY <1>0 DEF OthersHold
    <2>3. cleared' \in BOOLEAN /\ past' \in Past
        BY <1>0, <1>4, <2>2, ReleasedStep, HistoryType
    <2> QED BY <1>4, <2>1, <2>3, ReleasedStep DEF TypeOK, disk
<1>5. ASSUME NEW u \in Updater, ApplyRefused(u) PROVE TypeOK'
    BY <1>5, RefusedStep DEF TypeOK, disk
<1>6. CASE Aside
    <2>1. (cleared \/ (\E u \in Updater : Holding(u))) \in BOOLEAN
        BY <1>0
    <2>2. cleared' \in BOOLEAN /\ past' \in Past
        BY <1>0, <1>6, <2>1, AsideStep, HistoryType
    <2> QED BY <1>6, <2>2, AsideStep DEF TypeOK, disk
<1>7. CASE Crash
    <2>1. job' \in [Updater -> Job]
        BY <1>7, IdleType DEF Crash
    <2>2. status' \in Status
        BY <1>7 DEF Crash, FreshStatus, Status
    <2>3. cleared' \in BOOLEAN /\ past' \in Past
        BY <1>7, StartOverType, HistoryType DEF Crash
    <2>4. UNCHANGED <<file, bak, node, updates>> /\ crashes' \in Nat
        BY <1>7 DEF Crash, TypeOK, disk
    <2> QED BY <2>1, <2>2, <2>3, <2>4 DEF TypeOK
<1>8. CASE UNCHANGED vars
    BY <1>8 DEF vars, disk, TypeOK
<1> QED BY <1>1, <1>2, <1>3, <1>4, <1>5, <1>6, <1>7, <1>8, Steps
-----------------------------------------------------------------------------
(* The flag. *)

Flag == OneUpdateUnlessCleared /\ ApplyingHasOwner /\ HoldersFlag

LEMMA FlagStep == TypeOK /\ Flag /\ [Next]_vars => Flag'
<1> SUFFICES ASSUME TypeOK, Flag, [Next]_vars PROVE Flag'
    OBVIOUS
<1> USE DEF Flag, OneUpdateUnlessCleared, ApplyingHasOwner, HoldersFlag
<1>1. ASSUME NEW u \in Updater, Started(u) PROVE Flag'
    <2>1. /\ \A w \in Updater \ {u} : job'[w] = job[w]
          /\ job'[u].pc \in {"download", "verify", "simVerify"}
          /\ status'.applying /\ cleared' = OthersHold(u)
        <3>1. PICK pc \in {"download", "verify", "simVerify"}, v \in Version :
                 /\ job' = [job EXCEPT ![u] = [Idle EXCEPT !.pc = pc, !.version = v]]
                 /\ status' = [applying |-> TRUE, state |-> "verifying"]
                 /\ cleared' = OthersHold(u)
            BY <1>1, StartedStep DEF History
        <3>2. [Idle EXCEPT !.pc = pc, !.version = v].pc = pc
            BY DEF Idle
        <3> QED BY <3>1, <3>2 DEF TypeOK
    <2> QED BY <2>1 DEF Holding, OthersHold
<1>2. ASSUME NEW u \in Updater, Released(u) PROVE Flag'
    <2>1. /\ \A w \in Updater \ {u} : job'[w] = job[w]
          /\ job'[u].pc \in {"idle", "handover", "return"}
          /\ ~status'.applying /\ cleared' = (cleared \/ OthersHold(u))
        BY <1>2, ReleasedStep DEF TypeOK, History
    <2> QED BY <2>1 DEF Holding, OthersHold
<1>3. ASSUME NEW u \in Updater, Ended(u) \/ Went(u) PROVE Flag'
    <2>1. /\ \A w \in Updater \ {u} : job'[w] = job[w]
          /\ Holding(u) /\ job'[u].pc \notin {"idle", "handover", "return"}
          /\ status'.applying = status.applying /\ cleared' = cleared
        <3>1. CASE Went(u)
            BY <3>1, WentStep DEF TypeOK
        <3>2. CASE Ended(u)
            <4>1. PICK pc \in {"give_up", "leave"} : job' = [job EXCEPT ![u] = At(pc)]
                BY <3>2, EndedStep
            <4>2. At(pc).pc = pc
                BY AtType DEF PCs, Ending
            <4> QED BY <3>2, <4>1, <4>2, EndedStep DEF TypeOK
        <3> QED BY <1>3, <3>1, <3>2
    <2> QED BY <2>1 DEF Holding
<1>4. ASSUME NEW u \in Updater, ApplyRefused(u) PROVE Flag'
    <2>1. /\ \A w \in Updater \ {u} : job'[w] = job[w]
          /\ ~Holding(u) /\ job'[u].pc = "return" /\ UNCHANGED <<status, cleared>>
        BY <1>4, RefusedStep DEF TypeOK
    <2> QED BY <2>1 DEF Holding
<1>5. CASE Aside
    BY <1>5, AsideStep DEF Holding, History
<1>6. CASE Crash
    BY <1>6 DEF Crash, Holding, Idle, FreshStatus
<1>7. CASE UNCHANGED vars
    BY <1>7 DEF vars, Holding
<1> QED BY <1>1, <1>2, <1>3, <1>4, <1>5, <1>6, <1>7, Steps
-----------------------------------------------------------------------------
(* What each step of a swap does to its own record. *)

LEMMA OthersStay ==
    ASSUME TypeOK, NEW u \in Updater, Started(u) \/ Ended(u) \/ Went(u) \/ Released(u) \/ ApplyRefused(u)
    PROVE  \A w \in Updater \ {u} : job'[w] = job[w]
<1>1. CASE Started(u)
    BY <1>1, StartedStep DEF TypeOK
<1>2. CASE Ended(u)
    BY <1>2, EndedStep DEF TypeOK
<1>3. CASE Went(u)
    BY <1>3, WentStep DEF TypeOK
<1>4. CASE Released(u)
    BY <1>4, ReleasedStep DEF TypeOK
<1>5. CASE ApplyRefused(u)
    BY <1>5, RefusedStep DEF TypeOK
<1> QED BY <1>1, <1>2, <1>3, <1>4, <1>5

(* After its end an update has a reset of the flag before it. *)
LEMMA AfterEnded ==
    ASSUME TypeOK, NEW u \in Updater, Ended(u)
    PROVE  job'[u].pc \in {"give_up", "leave"}
<1>1. PICK pc \in {"give_up", "leave"} : job' = [job EXCEPT ![u] = At(pc)]
    BY EndedStep
<1>2. At(pc).pc = pc
    BY AtType DEF PCs, Ending
<1> QED BY <1>1, <1>2 DEF TypeOK

(* A record as it is after the step, field by field. *)
Becomes(u, pc, at, todo, backed) ==
    /\ job'[u].pc = pc /\ job'[u].at = at /\ job'[u].todo = todo /\ job'[u].backed = backed
    /\ job'[u].version = job[u].version

LEMMA AfterVerify ==
    ASSUME TypeOK, NEW u \in Updater, Verify(u)
    PROVE  Becomes(u, "stop", job[u].at, Carries[job[u].version], job[u].backed)
BY DEF Verify, Becomes, TypeOK, Job

LEMMA AfterStop ==
    ASSUME TypeOK, NEW u \in Updater, StopForSwap(u)
    PROVE  Becomes(u, "swap", job[u].at, job[u].todo, job[u].backed)
BY DEF StopForSwap, Becomes, TypeOK, Job

LEMMA AfterSetAside ==
    ASSUME TypeOK, NEW u \in Updater, NEW f \in File, SetAside(u, f)
    PROVE  Becomes(u, "place", f, job[u].todo, job[u].backed \cup {f})
BY DEF SetAside, Becomes, TypeOK, Job

LEMMA AfterPlace ==
    ASSUME TypeOK, NEW u \in Updater, NEW f \in File, Place(u, f)
    PROVE  \E pc \in {"swap", "probe"} :
              /\ Becomes(u, pc, Binary, job[u].todo \ {f}, job[u].backed)
              /\ pc = "probe" <=> job[u].todo \ {f} = {}
<1> DEFINE p == IF job[u].todo \ {f} = {} THEN "probe" ELSE "swap"
<1>1. p \in {"swap", "probe"} /\ (p = "probe" <=> job[u].todo \ {f} = {})
    OBVIOUS
<1>2. job' = [job EXCEPT ![u].todo = job[u].todo \ {f}, ![u].at = Binary, ![u].pc = p]
    BY DEF Place
<1> HIDE DEF p
<1>3. Becomes(u, p, Binary, job[u].todo \ {f}, job[u].backed)
    BY <1>2 DEF Becomes, TypeOK, Job
<1> QED BY <1>1, <1>3

LEMMA AfterRestore ==
    ASSUME TypeOK, NEW u \in Updater, NEW f \in File, RestoreFile(u, f)
    PROVE  Becomes(u, "restore", job[u].at, job[u].todo \ {f}, job[u].backed)
BY DEF RestoreFile, Becomes, TypeOK, Job

LEMMA AfterUnhealthy ==
    ASSUME TypeOK, NEW u \in Updater, Unhealthy(u)
    PROVE  Becomes(u, "restore", job[u].at, job[u].backed, job[u].backed)
BY DEF Unhealthy, Becomes, TypeOK, Job

LEMMA AfterOther ==
    ASSUME TypeOK, NEW u \in Updater,
           StartUpdated(u) \/ Healthy(u) \/ RemoveBackups(u) \/ SimulatedStep(u)
    PROVE  \E pc \in {"watch", "clean", "record", "simSwap", "simProbe"} :
              /\ Becomes(u, pc, job[u].at, job[u].todo, job[u].backed)
              /\ pc \in {"watch", "clean"} => job[u].pc \in {"probe", "watch"}
              /\ pc \in {"simSwap", "simProbe"} => job[u].pc \in Simulating /\ UNCHANGED file
              /\ pc # "record" => UNCHANGED disk
<1>1. CASE StartUpdated(u)
    BY <1>1 DEF StartUpdated, Becomes, TypeOK, Job
<1>2. CASE Healthy(u)
    BY <1>2 DEF Healthy, Becomes, TypeOK, Job
<1>3. CASE RemoveBackups(u)
    BY <1>3 DEF RemoveBackups, Becomes, TypeOK, Job
<1>4. CASE SimulatedStep(u)
    <2>1. PICK pc \in {"simSwap", "simProbe"} : job' = [job EXCEPT ![u].pc = pc]
        BY <1>4 DEF SimulatedStep, Goto
    <2>2. Becomes(u, pc, job[u].at, job[u].todo, job[u].backed)
        BY <2>1 DEF Becomes, TypeOK, Job
    <2>3. job[u].pc \in Simulating /\ UNCHANGED disk
        BY <1>4 DEF SimulatedStep, Simulating
    <2> QED BY <2>2, <2>3 DEF disk
<1> QED BY <1>1, <1>2, <1>3, <1>4

(* A fresh record holds no files. *)
LEMMA AfterStarted ==
    ASSUME TypeOK, NEW u \in Updater, Started(u)
    PROVE  job'[u].pc \in {"download", "verify", "simVerify"} /\ job'[u].backed = {} /\ job'[u].todo = {}
<1>1. PICK pc \in {"download", "verify", "simVerify"}, v \in Version :
          job' = [job EXCEPT ![u] = [Idle EXCEPT !.pc = pc, !.version = v]]
    BY StartedStep
<1> DEFINE r == [Idle EXCEPT !.pc = pc, !.version = v]
<1>2. r.pc = pc /\ r.backed = {} /\ r.todo = {}
    BY DEF Idle
<1>3. job' = [job EXCEPT ![u] = r]
    BY <1>1
<1> HIDE DEF r
<1> QED BY <1>2, <1>3 DEF TypeOK
-----------------------------------------------------------------------------
(* The local variables. *)

LEMMA LocalsStep == TypeOK /\ Locals /\ [Next]_vars => Locals'
<1> SUFFICES ASSUME TypeOK, Locals, [Next]_vars PROVE Locals'
    OBVIOUS
<1>1. ASSUME NEW u \in Updater, Started(u) \/ Ended(u) \/ Went(u) \/ Released(u) \/ ApplyRefused(u) PROVE Locals'
    <2> SUFFICES LocalOK(job'[u])
        BY <1>1, OthersStay DEF Locals
    <2>0. LocalOK(job[u]) /\ job[u] \in Job
        BY DEF Locals, TypeOK
    <2>1. ASSUME NEW pc \in {"idle", "download", "handover", "record"} \cup Simulating \cup Ending,
                 job'[u].pc = pc
          PROVE  LocalOK(job'[u])
        BY <2>1 DEF LocalOK, Simulating, Ending
    <2>2. CASE Started(u)
        BY <2>2, AfterStarted DEF LocalOK
    <2>3. CASE Ended(u)
        BY <2>3, <2>1, AfterEnded DEF Ending
    <2>4. CASE Released(u)
        <3>1. job'[u].pc \in {"idle", "handover", "return"}
            BY <2>4, ReleasedStep DEF TypeOK
        <3> QED BY <3>1, <2>1 DEF Ending
    <2>12. CASE ApplyRefused(u)
        <3>1. job'[u].pc = "return"
            BY <2>12, RefusedStep DEF TypeOK
        <3> QED BY <3>1, <2>1 DEF Ending
    <2>5. CASE Verify(u)
        <3>1. job[u].pc = "verify"
            BY <2>5 DEF Verify
        <3> QED BY <2>0, <2>5, <3>1, AfterVerify DEF LocalOK, Becomes
    <2>6. CASE StopForSwap(u)
        <3>1. job[u].pc = "stop"
            BY <2>6 DEF StopForSwap
        <3> QED BY <2>0, <2>6, <3>1, AfterStop DEF LocalOK, Becomes
    <2>7. ASSUME NEW f \in File, SetAside(u, f) PROVE LocalOK(job'[u])
        <3>1. job[u].pc = "swap" /\ f \in job[u].todo
            BY <2>7 DEF SetAside
        <3>2. Becomes(u, "place", f, job[u].todo, job[u].backed \cup {f})
            BY <2>7, AfterSetAside
        <3> QED BY <2>0, <3>1, <3>2 DEF LocalOK, Becomes
    <2>8. ASSUME NEW f \in File, Place(u, f) PROVE LocalOK(job'[u])
        <3>1. \/ job[u].pc = "place" /\ f = job[u].at
              \/ job[u].pc = "swap" /\ f \in job[u].todo
            BY <2>8 DEF Place, Places
        <3>2. PICK pc \in {"swap", "probe"} : Becomes(u, pc, Binary, job[u].todo \ {f}, job[u].backed)
            BY <2>8, AfterPlace
        <3>3. (job[u].todo \ {f}) \cap job[u].backed = {}
            BY <2>0, <3>1 DEF LocalOK
        <3> QED BY <2>0, <3>1, <3>2, <3>3 DEF LocalOK, Becomes
    <2>9. ASSUME NEW f \in File, RestoreFile(u, f) PROVE LocalOK(job'[u])
        <3>1. job[u].pc = "restore"
            BY <2>9 DEF RestoreFile
        <3> QED BY <2>0, <2>9, <3>1, AfterRestore DEF LocalOK, Becomes
    <2>10. CASE Unhealthy(u)
        <3>1. job[u].pc \in {"probe", "watch"}
            BY <2>10 DEF Unhealthy
        <3> QED BY <2>0, <2>10, <3>1, AfterUnhealthy DEF LocalOK, Becomes
    <2>11. CASE StartUpdated(u) \/ Healthy(u) \/ RemoveBackups(u) \/ SimulatedStep(u)
        <3>1. PICK pc \in {"watch", "clean", "record", "simSwap", "simProbe"} :
                 /\ Becomes(u, pc, job[u].at, job[u].todo, job[u].backed)
                 /\ pc \in {"watch", "clean"} => job[u].pc \in {"probe", "watch"}
            BY <2>11, AfterOther
        <3> QED BY <2>0, <3>1 DEF LocalOK, Becomes
    <2> QED BY <1>1, <2>2, <2>3, <2>4, <2>5, <2>6, <2>7, <2>8, <2>9, <2>10, <2>11, <2>12 DEF Went
<1>2. CASE Aside
    BY <1>2, AsideStep DEF Locals
<1>3. CASE Crash
    BY <1>3 DEF Crash, Locals, LocalOK, Idle
<1>4. CASE UNCHANGED vars
    BY <1>4 DEF vars, Locals
<1> QED BY <1>1, <1>2, <1>3, <1>4, Steps
-----------------------------------------------------------------------------
(* The directory. *)

LEMMA Remembers ==
    ASSUME ~cleared, NEW h, Remember(h)
    PROVE  past' = h /\ ~cleared'
BY DEF Remember, History

LEMMA AsideKeeps ==
    ASSUME TypeOK, Aside, ~cleared'
    PROVE  ~cleared /\ past' = past
<1>1. CASE ResetStatus
    <2>1. History(cleared \/ (\E u \in Updater : Holding(u)), past)
        BY <1>1 DEF ResetStatus
    <2>2. ~(cleared \/ (\E u \in Updater : Holding(u)))
        BY <2>1, Zenon DEF History
    <2> QED BY <2>1, <2>2, Zenon DEF History
<1>2. CASE ManifestUnreadable \/ CheckUpdate \/ NodeChanges
    BY <1>2 DEF ManifestUnreadable, CheckUpdate, NodeChanges
<1> QED BY <1>1, <1>2 DEF Aside

(* What was there before an update is set at its beginning and its end, and *)
(* until then only more files are known to be stuck.                        *)
LEMMA WentPast ==
    ASSUME TypeOK, NEW u \in Updater, Went(u), ~cleared
    PROVE  past'.before = past.before /\ past.stuck \subseteq past'.stuck
<1>0. past \in Past
    BY DEF TypeOK
<1>1. ASSUME NEW f \in File, SetAside(u, f) \/ Place(u, f) \/ RestoreFile(u, f)
      PROVE  past'.before = past.before /\ past.stuck \subseteq past'.stuck
    BY <1>0, <1>1 DEF SetAside, Place, RestoreFile, Remember, History, Past
<1>2. CASE Healthy(u)
    BY <1>0, <1>2 DEF Healthy, Remember, History, Past
<1>3. CASE Verify(u) \/ StopForSwap(u) \/ StartUpdated(u) \/ Unhealthy(u) \/ RemoveBackups(u) \/ SimulatedStep(u)
    BY <1>3 DEF Verify, StopForSwap, StartUpdated, Unhealthy, RemoveBackups, SimulatedStep
<1> QED BY <1>1, <1>2, <1>3 DEF Went

(* The renames back, file by file. *)
LEMMA PutBackFiles ==
    ASSUME TypeOK, ~cleared, NEW u \in Updater, NEW gone \in SUBSET File, PutBack(u, gone)
    PROVE  \E back \in SUBSET job[u].backed :
             /\ \A f \in File : file'[f] = IF f \in back /\ bak[f] # Absent THEN bak[f] ELSE file[f]
             /\ \A f \in File : bak'[f] = IF f \in back \cup gone THEN Absent ELSE bak[f]
             /\ past'.before = past.before /\ past'.good = past.good
             /\ past'.stuck = past.stuck \cup (job[u].backed \ back)
             /\ past'.overwritten = past.overwritten \cup {f \in gone : OnlyCopy(f)}
<1>1. PICK lost \in SUBSET job[u].backed :
         /\ file' = [f \in File |-> IF f \in job[u].backed \ lost /\ bak[f] # Absent THEN bak[f] ELSE file[f]]
         /\ bak' = [f \in File |-> IF f \in (job[u].backed \ lost) \cup gone THEN Absent ELSE bak[f]]
         /\ Remember([past EXCEPT !.stuck = past.stuck \cup lost,
                                  !.overwritten = past.overwritten \cup {f \in gone : OnlyCopy(f)}])
    BY DEF PutBack
<1> DEFINE back == job[u].backed \ lost
<1>2. job[u].backed \ back = lost
    OBVIOUS
<1>3. past' = [past EXCEPT !.stuck = past.stuck \cup lost,
                           !.overwritten = past.overwritten \cup {f \in gone : OnlyCopy(f)}]
    BY <1>1, Remembers
<1>4. past \in Past
    BY DEF TypeOK
<1>5. /\ past'.before = past.before /\ past'.good = past.good
      /\ past'.stuck = past.stuck \cup lost
      /\ past'.overwritten = past.overwritten \cup {f \in gone : OnlyCopy(f)}
    BY <1>3, <1>4 DEF Past
<1>6. back \in SUBSET job[u].backed
    OBVIOUS
<1>7. /\ \A f \in File : file'[f] = IF f \in back /\ bak[f] # Absent THEN bak[f] ELSE file[f]
      /\ \A f \in File : bak'[f] = IF f \in back \cup gone THEN Absent ELSE bak[f]
    BY <1>1
<1> QED BY <1>2, <1>5, <1>6, <1>7

(* The end of a rollback, file by file. *)
LEMMA EndRollbackFiles ==
    ASSUME TypeOK, ~cleared, NEW u \in Updater, EndRollback(u)
    PROVE  \E left \in SUBSET (Carries[job[u].version] \ job[u].backed) :
             /\ \A f \in File : file'[f] = IF f \in Carries[job[u].version] \ (job[u].backed \cup left)
                                          THEN Absent ELSE file[f]
             /\ past'.before = past.before /\ past'.good = past.good
             /\ past'.stuck = past.stuck \cup left /\ past'.overwritten = past.overwritten
<1>1. PICK left \in SUBSET (Carries[job[u].version] \ job[u].backed) :
         /\ file' = [f \in File |-> IF f \in Carries[job[u].version] \ (job[u].backed \cup left)
                                    THEN Absent ELSE file[f]]
         /\ Remember([past EXCEPT !.stuck = past.stuck \cup left])
    BY DEF EndRollback
<1>2. past' = [past EXCEPT !.stuck = past.stuck \cup left] /\ past \in Past
    BY <1>1, Remembers DEF TypeOK
<1>3. /\ past'.before = past.before /\ past'.good = past.good
      /\ past'.stuck = past.stuck \cup left /\ past'.overwritten = past.overwritten
    BY <1>2 DEF Past
<1> QED BY <1>1, <1>3

(* After the last step of the only update, the directory is at rest. *)
LEMMA EndedDisk ==
    ASSUME IInv, NEW u \in Updater, Ended(u), ~cleared
    PROVE  Quiescent'
<1> USE DEF IInv
<1>0. job[u] \in Job /\ LocalOK(job[u]) /\ Carries[job[u].version] \subseteq File
    BY CarriesType DEF TypeOK, Job, Locals
<1>2. DiskOf(job[u])
    BY DEF Disk
<1>3. CASE DownloadFails(u)
    <2>1. job[u].pc = "download" /\ UNCHANGED <<file, past>>
        BY <1>3 DEF DownloadFails, disk
    <2> QED BY <1>2, <2>1 DEF DiskOf, Quiescent, Kept
<1>5. CASE Reject(u)
    <2>1. UNCHANGED <<file, past>>
        BY <1>5 DEF Reject, disk
    <2>2. CASE job[u].pc = "verify"
        BY <1>2, <2>1, <2>2 DEF DiskOf, Quiescent, Kept
    <2>3. CASE job[u].pc = "swap" /\ job[u].todo = Carries[job[u].version]
        <3>1. job[u].backed = {}
            BY <1>0, <2>3 DEF LocalOK
        <3>2. \A f \in File \ past.stuck : file[f] = past.before[f]
            BY <1>2, <2>3, <3>1, <1>0 DEF DiskOf, Kept
        <3> QED BY <2>1, <3>2 DEF Quiescent
    <2> QED BY <1>5, <2>2, <2>3 DEF Reject
<1>P. ASSUME NEW gone \in SUBSET File, PutBack(u, gone), job[u].pc \in {"swap", "place"}, status'.state = "failed"
      PROVE  Quiescent'
    <2>1. PICK back \in SUBSET job[u].backed :
             /\ \A f \in File : file'[f] = IF f \in back /\ bak[f] # Absent THEN bak[f] ELSE file[f]
             /\ past'.before = past.before /\ past'.stuck = past.stuck \cup (job[u].backed \ back)
        BY <1>P, PutBackFiles
    <2>2. Kept(job[u].backed, (job[u].todo \ job[u].backed) \cup (File \ Carries[job[u].version]),
               Carries[job[u].version] \ (job[u].todo \cup job[u].backed))
        BY <1>2, <1>P DEF DiskOf
    <2>3. \A f \in File \ past'.stuck : past.before[f] # Absent => file'[f] = past.before[f]
        BY <1>0, <2>1, <2>2 DEF Kept
    <2> QED BY <1>P, <2>1, <2>3 DEF Quiescent
<1>6. CASE PlaceFails(u)
    <2>1. job[u].pc \in {"swap", "place"}
        BY <1>6 DEF PlaceFails, Places
    <2>2. status'.state = "failed"
        BY <1>6 DEF PlaceFails, End, TypeOK, Status
    <2> QED BY <1>6, <1>P, <2>1, <2>2 DEF PlaceFails
<1>7. ASSUME NEW f \in File, SetAsideFails(u, f) PROVE Quiescent'
    <2>1. PICK gone \in SUBSET {f} : PutBack(u, gone)
        BY <1>7 DEF SetAsideFails
    <2>2. job[u].pc = "swap" /\ status'.state = "failed"
        BY <1>7 DEF SetAsideFails, End, TypeOK, Status
    <2> QED BY <1>P, <2>1, <2>2
<1>8. CASE EndRollback(u)
    <2>1. job[u].pc = "restore" /\ job[u].todo = {}
        BY <1>8 DEF EndRollback
    <2>2. PICK left \in SUBSET (Carries[job[u].version] \ job[u].backed) :
             /\ \A f \in File : file'[f] = IF f \in Carries[job[u].version] \ (job[u].backed \cup left)
                                          THEN Absent ELSE file[f]
             /\ past'.before = past.before /\ past'.stuck = past.stuck \cup left
        BY <1>8, EndRollbackFiles
    <2>3. \A f \in File \ past'.stuck : file'[f] = past.before[f]
        BY <1>0, <1>2, <2>1, <2>2 DEF DiskOf, Kept
    <2> QED BY <2>2, <2>3 DEF Quiescent
<1>9. CASE RecordVersion(u)
    <2>1. past' = [past EXCEPT !.before = file, !.stuck = {}] /\ past \in Past /\ file' = file
        BY <1>9, Remembers DEF RecordVersion, TypeOK, disk
    <2>2. past'.before = file
        BY <2>1 DEF Past
    <2> QED BY <2>1, <2>2 DEF Quiescent
<1> QED BY <1>3, <1>5, <1>6, <1>7, <1>8, <1>9 DEF Ended

(* A step in the middle of the only update. *)
LEMMA WentDisk ==
    ASSUME IInv, NEW u \in Updater, Went(u), ~cleared
    PROVE  DiskOf(job[u])'
<1> USE DEF IInv
<1>0. job[u] \in Job /\ LocalOK(job[u]) /\ Carries[job[u].version] \subseteq File
    BY CarriesType DEF TypeOK, Job, Locals
<1>2. DiskOf(job[u])
    BY DEF Disk
<1>3. past'.before = past.before /\ past.stuck \subseteq past'.stuck
    BY WentPast
<1>4. CASE Verify(u)
    <2>1. job[u].pc = "verify" /\ UNCHANGED <<file, bak>>
        BY <1>4 DEF Verify, disk
    <2>2. Kept({}, File, {})'
        BY <1>2, <1>3, <2>1 DEF DiskOf, Kept
    <2> QED BY <1>4, <2>2, AfterVerify DEF DiskOf, Becomes, Simulating
<1>5. CASE StopForSwap(u)
    <2>1. job[u].pc = "stop" /\ UNCHANGED <<file, bak>>
        BY <1>5 DEF StopForSwap, disk
    <2>2. job[u].backed = {} /\ job[u].todo = Carries[job[u].version] /\ Kept({}, File, {})
        BY <1>0, <1>2, <2>1 DEF DiskOf, LocalOK
    <2>3. Kept({}, File, {})'
        BY <1>3, <2>1, <2>2 DEF Kept
    <2>4. Becomes(u, "swap", job[u].at, Carries[job[u].version], {})
        BY <1>5, <2>2, AfterStop
    <2> QED BY <1>0, <2>3, <2>4 DEF DiskOf, Becomes, Simulating, Kept
<1>6. ASSUME NEW f \in File, SetAside(u, f) PROVE DiskOf(job[u])'
    <2>1. /\ job[u].pc = "swap" /\ f \in job[u].todo /\ file[f] # Absent
          /\ bak' = [bak EXCEPT ![f] = file[f]] /\ file' = [file EXCEPT ![f] = Absent]
        BY <1>6 DEF SetAside
    <2>2. Becomes(u, "place", f, job[u].todo, job[u].backed \cup {f})
        BY <1>6, AfterSetAside
    <2> DEFINE C == Carries[job[u].version]
    <2>3. Kept(job[u].backed, (job[u].todo \ job[u].backed) \cup (File \ C), C \ (job[u].todo \cup job[u].backed))
        BY <1>2, <2>1 DEF DiskOf
    <2>4. job[u].todo \cap job[u].backed = {} /\ job[u].todo \subseteq C
        BY <1>0, <2>1 DEF LocalOK
    <2>5. Kept(job[u].backed \cup {f}, (job[u].todo \ (job[u].backed \cup {f})) \cup (File \ C),
               C \ (job[u].todo \cup (job[u].backed \cup {f})))'
        <3>1. \A g \in File : bak'[g] = (IF g = f THEN file[f] ELSE bak[g]) /\ (g # f => file'[g] = file[g])
            BY <2>1 DEF TypeOK, Contents
        <3>2. f \notin past.stuck => past.before[f] = file[f]
            BY <2>1, <2>3, <2>4 DEF Kept
        <3>3. job[u].backed \subseteq File /\ job[u].todo \subseteq File
            BY <1>0 DEF Job
        <3>4. job'[u].todo = job[u].todo /\ job'[u].backed = job[u].backed \cup {f} /\ job'[u].version = job[u].version
            BY <2>2 DEF Becomes
        <3> QED BY <1>3, <2>1, <2>3, <2>4, <3>1, <3>2, <3>3, <3>4 DEF Kept
    <2> QED BY <2>2, <2>5 DEF DiskOf, Becomes, Simulating
<1>7. ASSUME NEW f \in File, Place(u, f) PROVE DiskOf(job[u])'
    <2>1. /\ \/ job[u].pc = "place" /\ f = job[u].at
             \/ job[u].pc = "swap" /\ f \in job[u].todo /\ file[f] = Absent
          /\ bak' = bak /\ file' = [file EXCEPT ![f] = job[u].version]
        BY <1>7 DEF Place, Places
    <2>2. PICK pc \in {"swap", "probe"} : /\ Becomes(u, pc, Binary, job[u].todo \ {f}, job[u].backed)
                                          /\ pc = "probe" <=> job[u].todo \ {f} = {}
        BY <1>7, AfterPlace
    <2> DEFINE C == Carries[job[u].version]
    <2>3. Kept(job[u].backed, (job[u].todo \ job[u].backed) \cup (File \ C), C \ (job[u].todo \cup job[u].backed))
        BY <1>2, <2>1 DEF DiskOf
    <2>4. f \in job[u].todo /\ job[u].todo \subseteq C /\ job[u].backed \subseteq C
          /\ (job[u].todo \ {f}) \cap job[u].backed = {}
        BY <1>0, <2>1 DEF LocalOK
    <2>5. f \in job[u].backed \cup past.stuck \/ past.before[f] = Absent
        <3>1. CASE job[u].pc = "place"
            BY <1>0, <2>1, <3>1 DEF LocalOK
        <3>2. CASE job[u].pc = "swap"
            BY <2>1, <2>3, <3>2 DEF Kept
        <3> QED BY <2>1, <3>1, <3>2
    <2>6. Kept(job[u].backed, ((job[u].todo \ {f}) \ job[u].backed) \cup (File \ C),
               C \ ((job[u].todo \ {f}) \cup job[u].backed))'
        <3>1. \A g \in File \ {f} : file'[g] = file[g]
            BY <2>1 DEF TypeOK, Contents
        <3>3. job[u].backed \subseteq File /\ job[u].todo \subseteq File
            BY <1>0 DEF Job
        <3>4. job'[u].todo = job[u].todo \ {f} /\ job'[u].backed = job[u].backed /\ job'[u].version = job[u].version
            BY <2>2 DEF Becomes
        <3>5. \A g \in job[u].backed \ past'.stuck : past'.before[g] # Absent /\ bak'[g] = past'.before[g]
            BY <1>3, <2>1, <2>3 DEF Kept
        <3>6. \A g \in (((job[u].todo \ {f}) \ job[u].backed) \cup (File \ C)) \ past'.stuck :
                 file'[g] = past'.before[g]
            BY <1>3, <2>3, <2>4, <3>1, <3>3 DEF Kept
        <3>7. \A g \in (C \ ((job[u].todo \ {f}) \cup job[u].backed)) \ past'.stuck : past'.before[g] = Absent
            BY <1>3, <2>3, <2>5 DEF Kept
        <3> QED BY <3>4, <3>5, <3>6, <3>7 DEF Kept
    <2>7. CASE pc = "swap"
        BY <2>2, <2>6, <2>7 DEF DiskOf, Becomes, Simulating
    <2>8. CASE pc = "probe"
        <3>1. job[u].todo \ {f} = {} /\ job'[u].todo = {}
            BY <2>2, <2>8 DEF Becomes
        <3>2. Kept(job[u].backed, File \ C, C \ job[u].backed)'
            BY <2>2, <2>6, <3>1 DEF Kept, Becomes
        <3> QED BY <2>2, <2>8, <3>2 DEF DiskOf, Becomes, Simulating
    <2> QED BY <2>7, <2>8
<1>8. ASSUME NEW f \in File, RestoreFile(u, f) PROVE DiskOf(job[u])'
    <2>1. /\ job[u].pc = "restore" /\ f \in job[u].todo
        BY <1>8 DEF RestoreFile
    <2>2. Becomes(u, "restore", job[u].at, job[u].todo \ {f}, job[u].backed)
        BY <1>8, AfterRestore
    <2> DEFINE C == Carries[job[u].version]
    <2>3. Kept(job[u].todo, (job[u].backed \ job[u].todo) \cup (File \ C), C \ job[u].backed)
        BY <1>2, <2>1 DEF DiskOf
    <2>4. job[u].todo \subseteq job[u].backed /\ job[u].backed \subseteq C
        BY <1>0, <2>1 DEF LocalOK
    <2>5. /\ \A g \in File \ {f} : file'[g] = file[g] /\ bak'[g] = bak[g]
          /\ file'[f] = bak[f] \/ f \in past'.stuck
        <3>1. past \in Past
            BY DEF TypeOK
        <3>2. \A g \in File \ {f} : file'[g] = file[g] /\ bak'[g] = bak[g]
            BY <1>8 DEF RestoreFile, TypeOK, Contents
        <3>3. file'[f] = bak[f] \/ past' = [past EXCEPT !.stuck = past.stuck \cup {f}]
            BY <1>8, Remembers DEF RestoreFile, TypeOK, Contents
        <3> QED BY <3>1, <3>2, <3>3 DEF Past
    <2>6. job[u].backed \subseteq File /\ job[u].todo \subseteq File
        BY <1>0 DEF Job
    <2>7. \A g \in (job[u].todo \ {f}) \ past'.stuck : past'.before[g] # Absent /\ bak'[g] = past'.before[g]
        BY <1>3, <2>3, <2>5, <2>6 DEF Kept
    <2>8. \A g \in ((job[u].backed \ (job[u].todo \ {f})) \cup (File \ C)) \ past'.stuck :
             file'[g] = past'.before[g]
        BY <1>3, <2>1, <2>3, <2>4, <2>5, <2>6 DEF Kept
    <2>9. \A g \in (C \ job[u].backed) \ past'.stuck : past'.before[g] = Absent
        BY <1>3, <2>3 DEF Kept
    <2> QED BY <2>2, <2>7, <2>8, <2>9 DEF DiskOf, Becomes, Simulating, Kept
<1>9. CASE Unhealthy(u)
    <2>1. job[u].pc \in {"probe", "watch"} /\ UNCHANGED <<file, bak>>
        BY <1>9 DEF Unhealthy, disk
    <2>2. Becomes(u, "restore", job[u].at, job[u].backed, job[u].backed)
        BY <1>9, AfterUnhealthy
    <2>3. Kept(job[u].backed, File \ Carries[job[u].version], Carries[job[u].version] \ job[u].backed)
        BY <1>2, <2>1 DEF DiskOf
    <2> QED BY <1>3, <2>1, <2>2, <2>3 DEF DiskOf, Becomes, Simulating, Kept
<1>10. CASE StartUpdated(u) \/ Healthy(u) \/ RemoveBackups(u) \/ SimulatedStep(u)
    <2>1. PICK pc \in {"watch", "clean", "record", "simSwap", "simProbe"} :
             /\ Becomes(u, pc, job[u].at, job[u].todo, job[u].backed)
             /\ pc \in {"watch", "clean"} => job[u].pc \in {"probe", "watch"}
             /\ pc \in {"simSwap", "simProbe"} => job[u].pc \in Simulating /\ UNCHANGED file
             /\ pc # "record" => UNCHANGED disk
        BY <1>10, AfterOther
    <2>2. CASE pc = "record"
        <3>1. job'[u].pc = "record"
            BY <2>1, <2>2 DEF Becomes
        <3> QED BY <3>1 DEF DiskOf, Simulating
    <2>3. CASE pc \in {"simSwap", "simProbe"}
        <3>1. Kept({}, File, {})'
            BY <1>2, <1>3, <2>1, <2>3 DEF DiskOf, Kept
        <3> QED BY <2>1, <2>3, <3>1 DEF DiskOf, Becomes, Simulating
    <2>4. CASE pc \in {"watch", "clean"}
        <3>1. Kept(job[u].backed, File \ Carries[job[u].version], Carries[job[u].version] \ job[u].backed)
            BY <1>2, <2>1, <2>4 DEF DiskOf
        <3> QED BY <1>3, <2>1, <2>4, <3>1 DEF DiskOf, Becomes, Simulating, Kept, disk
    <2> QED BY <2>2, <2>3, <2>4
<1> QED BY <1>4, <1>5, <1>6, <1>7, <1>8, <1>9, <1>10 DEF Went

(* Of the other goroutines none is past the guard. *)
LEMMA OthersRest ==
    ASSUME IInv, NEW u \in Updater, ~cleared',
           Started(u) \/ Ended(u) \/ Went(u) \/ Released(u)
    PROVE  \A w \in Updater \ {u} : job'[w].pc \in {"idle", "handover", "return"}
<1> USE DEF IInv
<1>1. CASE Ended(u) \/ Went(u)
    <2>1. ~cleared /\ Holding(u)
        BY <1>1, WentStep, EndedStep
    <2> QED BY <1>1, <2>1, OthersStay DEF OneUpdateUnlessCleared, Holding
<1>2. CASE Started(u) \/ Released(u)
    <2>1. ~OthersHold(u)
        BY <1>2, StartedStep, ReleasedStep DEF History
    <2> QED BY <1>2, <2>1, OthersStay DEF OthersHold, Holding
<1> QED BY <1>1, <1>2

LEMMA DiskStep == IInv /\ [Next]_vars => Disk'
<1> SUFFICES ASSUME IInv, [Next]_vars, ~cleared'
             PROVE  /\ \A w \in Updater : DiskOf(job[w])'
                    /\ (~(\E w \in Updater : Holding(w)))' => Quiescent'
    BY DEF Disk
<1> USE DEF IInv
<1>R. ASSUME NEW w \in Updater, job'[w].pc \in {"idle", "handover", "return"} PROVE DiskOf(job[w])'
    BY <1>R DEF DiskOf, Simulating
<1>1. ASSUME NEW u \in Updater, Started(u)
      PROVE  /\ \A w \in Updater : DiskOf(job[w])'
             /\ (~(\E w \in Updater : Holding(w)))' => Quiescent'
    <2>1. job'[u].pc \in {"download", "verify", "simVerify"}
        BY <1>1, AfterStarted
    <2>2. past' = StartOver /\ file' = file
        BY <1>1, StartedStep DEF disk, History
    <2>3. Kept({}, File, {})'
        BY <2>2 DEF StartOver, Kept
    <2>4. DiskOf(job[u])'
        BY <2>1, <2>3 DEF DiskOf, Simulating
    <2>5. Holding(u)'
        BY <2>1 DEF Holding
    <2> QED BY <1>1, <1>R, <2>4, <2>5, OthersRest
<1>2. ASSUME NEW u \in Updater, Ended(u)
      PROVE  /\ \A w \in Updater : DiskOf(job[w])'
             /\ (~(\E w \in Updater : Holding(w)))' => Quiescent'
    <2>1. job'[u].pc \in {"give_up", "leave"}
        BY <1>2, AfterEnded
    <2>2. Quiescent'
        BY <1>2, EndedStep, EndedDisk
    <2>3. DiskOf(job[u])'
        BY <2>1, <2>2 DEF DiskOf, Simulating
    <2> QED BY <1>2, <1>R, <2>2, <2>3, OthersRest
<1>3. ASSUME NEW u \in Updater, Went(u)
      PROVE  /\ \A w \in Updater : DiskOf(job[w])'
             /\ (~(\E w \in Updater : Holding(w)))' => Quiescent'
    <2>1. ~cleared
        BY <1>3, WentStep
    <2>2. Holding(u)'
        BY <1>3, WentStep DEF Holding, TypeOK
    <2> QED BY <1>3, <1>R, <2>1, <2>2, WentDisk, OthersRest
<1>4. ASSUME NEW u \in Updater, Released(u)
      PROVE  /\ \A w \in Updater : DiskOf(job[w])'
             /\ (~(\E w \in Updater : Holding(w)))' => Quiescent'
    <2>1. ~cleared /\ ~OthersHold(u) /\ past' = past /\ file' = file
        BY <1>4, ReleasedStep DEF History, disk
    <2>2. job'[u].pc \in {"idle", "handover", "return"}
        BY <1>4, ReleasedStep DEF TypeOK
    <2>3. Quiescent'
        <3>1. CASE HandOver(u) \/ SimulatedEnd(u)
            <4>1. job[u].pc \in Simulating \cup {"download"}
                BY <3>1 DEF HandOver, SimulatedEnd, Simulating
            <4>2. Kept({}, File, {})
                BY <2>1, <4>1 DEF Disk, DiskOf
            <4> QED BY <2>1, <4>2 DEF Kept, Quiescent
        <3>2. CASE Leave(u) \/ Return(u)
            <4>1. Quiescent
                <5>1. CASE job[u].pc \in {"give_up", "leave"}
                    BY <2>1, <5>1 DEF Disk, DiskOf
                <5>2. CASE job[u].pc = "return"
                    <6>1. ~(\E w \in Updater : Holding(w))
                        BY <2>1, <5>2 DEF OthersHold, Holding
                    <6> QED BY <2>1, <6>1 DEF Disk
                <5> QED BY <3>2, <5>1, <5>2 DEF Leave, Return
            <4>2. status'.state = status.state
                BY <3>2 DEF Leave, Return, Release, TypeOK, Status
            <4> QED BY <2>1, <4>1, <4>2 DEF Quiescent
        <3> QED BY <1>4, <3>1, <3>2 DEF Released
    <2> QED BY <1>4, <1>R, <2>2, <2>3, OthersRest
<1>5. ASSUME NEW u \in Updater, ApplyRefused(u)
      PROVE  /\ \A w \in Updater : DiskOf(job[w])'
             /\ (~(\E w \in Updater : Holding(w)))' => Quiescent'
    <2>1. /\ ~cleared /\ UNCHANGED <<file, bak, status, past>>
          /\ job'[u].pc = "return" /\ ~Holding(u)
          /\ \A w \in Updater \ {u} : job'[w] = job[w]
        BY <1>5, RefusedStep DEF TypeOK, disk
    <2>2. \A w \in Updater \ {u} : DiskOf(job[w])'
        BY <2>1 DEF Disk, DiskOf, Kept, Quiescent
    <2>3. (~(\E w \in Updater : Holding(w)))' => ~(\E w \in Updater : Holding(w))
        BY <2>1 DEF Holding
    <2> QED BY <1>R, <2>1, <2>2, <2>3 DEF Disk, Quiescent
<1>6. CASE Aside
    <2>0. TypeOK
        OBVIOUS
    <2>a. UNCHANGED <<file, bak, job>> /\ status'.state \in {"idle", "failed", status.state}
        BY <1>6, <2>0, AsideStep DEF disk
    <2>b. ~cleared /\ past' = past
        BY <1>6, <2>0, AsideKeeps
    <2>1. /\ ~cleared /\ UNCHANGED <<file, bak, job, past>>
          /\ status'.state \in {"idle", "failed", status.state}
        BY <2>a, <2>b
    <2>2. \A w \in Updater : DiskOf(job[w])'
        BY <2>1 DEF Disk, DiskOf, Kept, Quiescent
    <2> QED BY <2>1, <2>2 DEF Disk, Quiescent, Holding
<1>7. CASE Crash
    <2>1. file' = file /\ past' = StartOver /\ \A w \in Updater : job'[w].pc = "idle"
        BY <1>7 DEF Crash, disk, Idle, History
    <2>2. past'.before = file'
        BY <2>1 DEF StartOver
    <2> QED BY <2>1, <2>2, <1>R DEF Quiescent
<1>8. CASE UNCHANGED vars
    <2>1. ~cleared /\ UNCHANGED <<file, bak, job, past, status>>
        BY <1>8 DEF vars, disk
    <2>2. \A w \in Updater : DiskOf(job[w])'
        BY <2>1 DEF Disk, DiskOf, Kept, Quiescent
    <2> QED BY <2>1, <2>2 DEF Disk, Quiescent, Holding
<1> QED BY <1>1, <1>2, <1>3, <1>4, <1>5, <1>6, <1>7, <1>8, Steps
-----------------------------------------------------------------------------
(* The engine that worked. *)

(* What OldEngineOnDisk says of one file. *)
EngineFile(f) == f \in past.overwritten \/ past.good[f] \in {Absent, file[f], bak[f]}

LEMMA EngineFiles == OldEngineOnDisk <=> (~cleared => \A f \in File : EngineFile(f))
BY DEF OldEngineOnDisk, EngineFile

(* The renames back keep every file of the engine, if those set aside are  *)
(* under .bak: only the .bak removed before may have been the last copy.    *)
LEMMA PutBackEngine ==
    ASSUME TypeOK, ~cleared, NEW u \in Updater, NEW gone \in SUBSET File, PutBack(u, gone),
           InBak(job[u].backed), \A f \in File : EngineFile(f)
    PROVE  \A f \in File : EngineFile(f)'
<1>1. PICK back \in SUBSET job[u].backed :
         /\ \A f \in File : file'[f] = IF f \in back /\ bak[f] # Absent THEN bak[f] ELSE file[f]
         /\ \A f \in File : bak'[f] = IF f \in back \cup gone THEN Absent ELSE bak[f]
         /\ past'.good = past.good
         /\ past'.overwritten = past.overwritten \cup {f \in gone : OnlyCopy(f)}
    BY PutBackFiles
<1> SUFFICES ASSUME NEW f \in File, f \notin past'.overwritten PROVE past'.good[f] \in {Absent, file'[f], bak'[f]}
    BY DEF EngineFile
<1>2. f \notin past.overwritten /\ past.good[f] \in {Absent, file[f], bak[f]}
    BY <1>1 DEF EngineFile
<1>3. CASE f \in back
    <2>1. past.good[f] \in {Absent, bak[f]}
        BY <1>2, <1>3 DEF InBak
    <2> QED BY <1>1, <1>3, <2>1
<1>4. CASE f \notin back /\ f \in gone
    <2>1. ~OnlyCopy(f)
        BY <1>1, <1>4
    <2> QED BY <1>1, <1>2, <1>4, <2>1 DEF OnlyCopy
<1>5. CASE f \notin back \cup gone
    BY <1>1, <1>2, <1>5
<1> QED BY <1>3, <1>4, <1>5

LEMMA EndedEngine ==
    ASSUME IInv, NEW u \in Updater, Ended(u), ~cleared
    PROVE  \A f \in File : EngineFile(f)'
<1> USE DEF IInv
<1>0. job[u] \in Job /\ LocalOK(job[u]) /\ Carries[job[u].version] \subseteq File
    BY CarriesType DEF TypeOK, Job, Locals
<1>1. EngineOf(job[u]) /\ \A f \in File : EngineFile(f)
    BY EngineFiles DEF Engine
<1>2. CASE DownloadFails(u) \/ Reject(u)
    BY <1>1, <1>2 DEF DownloadFails, Reject, disk, EngineFile
<1>P. ASSUME NEW gone \in SUBSET File, PutBack(u, gone), job[u].pc \in {"swap", "place"}
      PROVE  \A f \in File : EngineFile(f)'
    <2>1. InBak(job[u].backed)
        BY <1>0, <1>1, <1>P DEF EngineOf, InBak, LocalOK
    <2> QED BY <1>1, <1>P, <2>1, PutBackEngine
<1>3. CASE PlaceFails(u)
    <2>1. job[u].pc \in {"swap", "place"}
        BY <1>3 DEF PlaceFails, Places
    <2> QED BY <1>3, <1>P, <2>1 DEF PlaceFails
<1>4. ASSUME NEW f \in File, SetAsideFails(u, f) PROVE \A g \in File : EngineFile(g)'
    <2>1. PICK gone \in SUBSET {f} : PutBack(u, gone)
        BY <1>4 DEF SetAsideFails
    <2>2. job[u].pc = "swap"
        BY <1>4 DEF SetAsideFails
    <2> QED BY <1>P, <2>1, <2>2
<1>5. CASE EndRollback(u)
    <2>1. job[u].pc = "restore" /\ job[u].todo = {} /\ bak' = bak
        BY <1>5 DEF EndRollback
    <2>2. PICK left \in SUBSET (Carries[job[u].version] \ job[u].backed) :
             /\ \A f \in File : file'[f] = IF f \in Carries[job[u].version] \ (job[u].backed \cup left)
                                          THEN Absent ELSE file[f]
             /\ past'.good = past.good /\ past'.overwritten = past.overwritten
        BY <1>5, EndRollbackFiles
    <2>3. InBak(Carries[job[u].version] \ job[u].backed)
        BY <1>1, <2>1 DEF EngineOf
    <2> QED BY <1>1, <2>1, <2>2, <2>3 DEF EngineFile, InBak
<1>6. CASE RecordVersion(u)
    <2>1. past' = [past EXCEPT !.before = file, !.stuck = {}] /\ past \in Past /\ UNCHANGED <<file, bak>>
        BY <1>6, Remembers DEF RecordVersion, TypeOK, disk
    <2>2. past'.good = past.good /\ past'.overwritten = past.overwritten
        BY <2>1 DEF Past
    <2> QED BY <1>1, <2>1, <2>2 DEF EngineFile
<1> QED BY <1>2, <1>3, <1>4, <1>5, <1>6 DEF Ended

LEMMA WentEngine ==
    ASSUME IInv, NEW u \in Updater, Went(u), ~cleared
    PROVE  EngineOf(job[u])' /\ \A f \in File : EngineFile(f)'
<1> USE DEF IInv
<1> DEFINE C == Carries[job[u].version]
<1>0. job[u] \in Job /\ LocalOK(job[u]) /\ C \subseteq File /\ past \in Past
    BY CarriesType DEF TypeOK, Job, Locals
<1>1. EngineOf(job[u]) /\ \A f \in File : EngineFile(f)
    BY EngineFiles DEF Engine
<1>F. ASSUME UNCHANGED <<file, bak, past>> PROVE \A f \in File : EngineFile(f)'
    BY <1>1, <1>F DEF EngineFile
<1>2. CASE Verify(u)
    <2>1. UNCHANGED <<file, bak, past>>
        BY <1>2 DEF Verify, disk
    <2> QED BY <1>2, <1>F, <2>1, AfterVerify DEF EngineOf, Becomes
<1>3. CASE StopForSwap(u)
    <2>1. job[u].pc = "stop" /\ UNCHANGED <<file, bak, past>>
        BY <1>3 DEF StopForSwap, disk
    <2>2. Becomes(u, "swap", job[u].at, C, {})
        BY <1>0, <1>3, <2>1, AfterStop DEF LocalOK
    <2> QED BY <1>F, <2>1, <2>2 DEF EngineOf, Becomes, InBak
<1>4. ASSUME NEW f \in File, SetAside(u, f) PROVE EngineOf(job[u])' /\ \A g \in File : EngineFile(g)'
    <2>1. /\ job[u].pc = "swap" /\ f \in job[u].todo /\ file[f] # Absent
          /\ \A g \in File : bak'[g] = IF g = f THEN file[f] ELSE bak[g]
          /\ \A g \in File : file'[g] = IF g = f THEN Absent ELSE file[g]
        BY <1>4 DEF SetAside, TypeOK, Contents
    <2>2. past' = [past EXCEPT !.overwritten = past.overwritten \cup {g \in {f} : OnlyCopy(g)}]
        BY <1>4, Remembers DEF SetAside
    <2>3. past'.good = past.good /\ past'.overwritten = past.overwritten \cup {g \in {f} : OnlyCopy(g)}
        BY <1>0, <2>2 DEF Past
    <2>4. Becomes(u, "place", f, job[u].todo, job[u].backed \cup {f})
        BY <1>4, AfterSetAside
    <2>5. InBak(C \ (job[u].todo \ job[u].backed))
        BY <1>1, <2>1 DEF EngineOf
    <2>6. f \notin past'.overwritten => past'.good[f] \in {Absent, bak'[f]}
        BY <1>1, <2>1, <2>3 DEF EngineFile, OnlyCopy
    <2>7. InBak(C \ (job[u].todo \ (job[u].backed \cup {f})))'
        <3> SUFFICES ASSUME NEW g \in C \ (job'[u].todo \ job'[u].backed), g \notin past'.overwritten
                     PROVE  past'.good[g] \in {Absent, bak'[g]}
            BY <2>4 DEF InBak, Becomes
        <3>1. CASE g = f
            BY <2>6, <3>1
        <3>2. CASE g # f
            BY <1>0, <2>1, <2>3, <2>4, <2>5, <3>2 DEF InBak, Becomes
        <3> QED BY <3>1, <3>2
    <2>8. \A g \in File : EngineFile(g)'
        BY <1>1, <2>1, <2>3, <2>6 DEF EngineFile
    <2> QED BY <2>4, <2>7, <2>8 DEF EngineOf, Becomes
<1>5. ASSUME NEW f \in File, Place(u, f) PROVE EngineOf(job[u])' /\ \A g \in File : EngineFile(g)'
    <2>1. /\ \/ job[u].pc = "place" /\ f = job[u].at
             \/ job[u].pc = "swap" /\ f \in job[u].todo /\ file[f] = Absent
          /\ UNCHANGED <<bak, past>>
          /\ \A g \in File \ {f} : file'[g] = file[g]
        BY <1>5 DEF Place, Places, TypeOK, Contents
    <2>2. PICK pc \in {"swap", "probe"} : /\ Becomes(u, pc, Binary, job[u].todo \ {f}, job[u].backed)
                                          /\ pc = "probe" <=> job[u].todo \ {f} = {}
        BY <1>5, AfterPlace
    <2>3. InBak(C \ (job[u].todo \ job[u].backed))
        BY <1>1, <2>1 DEF EngineOf
    <2>4. f \notin past.overwritten => past.good[f] \in {Absent, bak[f]}
        <3>1. CASE job[u].pc = "place"
            BY <1>0, <2>1, <2>3, <3>1 DEF LocalOK, InBak
        <3>2. CASE job[u].pc = "swap"
            BY <1>1, <2>1, <3>2 DEF EngineFile
        <3> QED BY <2>1, <3>1, <3>2
    <2>5. InBak(C \ ((job[u].todo \ {f}) \ job[u].backed))'
        <3> SUFFICES ASSUME NEW g \in C \ (job'[u].todo \ job'[u].backed), g \notin past'.overwritten
                     PROVE  past'.good[g] \in {Absent, bak'[g]}
            BY <2>2 DEF InBak, Becomes
        <3>1. CASE g = f
            BY <2>1, <2>4, <3>1
        <3>2. CASE g # f
            BY <2>1, <2>2, <2>3, <3>2 DEF InBak, Becomes
        <3> QED BY <3>1, <3>2
    <2>6. \A g \in File : EngineFile(g)'
        BY <1>1, <2>1, <2>4 DEF EngineFile
    <2>7. CASE pc = "swap"
        BY <2>2, <2>5, <2>6, <2>7 DEF EngineOf, Becomes
    <2>8. CASE pc = "probe"
        <3>1. InBak(C)'
            BY <2>2, <2>5, <2>8 DEF InBak, Becomes
        <3> QED BY <2>2, <2>6, <2>8, <3>1 DEF EngineOf, Becomes
    <2> QED BY <2>7, <2>8
<1>6. ASSUME NEW f \in File, RestoreFile(u, f) PROVE EngineOf(job[u])' /\ \A g \in File : EngineFile(g)'
    <2>1. /\ job[u].pc = "restore" /\ f \in job[u].todo
          /\ \A g \in File \ {f} : file'[g] = file[g] /\ bak'[g] = bak[g]
          /\ file'[f] = bak[f] \/ bak'[f] = bak[f]
        BY <1>6 DEF RestoreFile, TypeOK, Contents
    <2>2. past' = past \/ past' = [past EXCEPT !.stuck = past.stuck \cup {f}]
        BY <1>6, Remembers DEF RestoreFile
    <2>3. past'.good = past.good /\ past'.overwritten = past.overwritten
        BY <1>0, <2>2 DEF Past
    <2>4. Becomes(u, "restore", job[u].at, job[u].todo \ {f}, job[u].backed)
        BY <1>6, AfterRestore
    <2>5. InBak(C \ (job[u].backed \ job[u].todo)) /\ job[u].todo \subseteq job[u].backed /\ job[u].backed \subseteq C
        BY <1>0, <1>1, <2>1 DEF EngineOf, LocalOK
    <2>6. f \notin past.overwritten => past.good[f] \in {Absent, bak[f]}
        BY <2>1, <2>5 DEF InBak
    <2>7. InBak(C \ (job[u].backed \ (job[u].todo \ {f})))'
        <3> SUFFICES ASSUME NEW g \in C \ (job'[u].backed \ job'[u].todo), g \notin past'.overwritten
                     PROVE  past'.good[g] \in {Absent, bak'[g]}
            BY <2>4 DEF InBak, Becomes
        <3>1. g # f /\ g \in C \ (job[u].backed \ job[u].todo)
            BY <2>1, <2>4, <2>5 DEF Becomes
        <3> QED BY <1>0, <2>1, <2>3, <2>5, <3>1 DEF InBak
    <2>8. \A g \in File : EngineFile(g)'
        BY <1>1, <2>1, <2>3, <2>6 DEF EngineFile
    <2> QED BY <2>4, <2>7, <2>8 DEF EngineOf, Becomes
<1>7. CASE Unhealthy(u)
    <2>1. job[u].pc \in {"probe", "watch"} /\ UNCHANGED <<file, bak, past>>
        BY <1>7 DEF Unhealthy, disk
    <2>2. Becomes(u, "restore", job[u].at, job[u].backed, job[u].backed)
        BY <1>7, AfterUnhealthy
    <2>3. InBak(C)
        BY <1>1, <2>1 DEF EngineOf
    <2> QED BY <1>F, <2>1, <2>2, <2>3 DEF EngineOf, Becomes, InBak
<1>8. CASE Healthy(u)
    <2>1. past' = [past EXCEPT !.good = file, !.overwritten = {}] /\ UNCHANGED <<file, bak>>
        BY <1>8, Remembers DEF Healthy, disk
    <2>2. past'.good = file'
        BY <1>0, <2>1 DEF Past
    <2>3. job'[u].pc = "clean"
        BY <1>8 DEF Healthy, TypeOK, Job
    <2> QED BY <2>2, <2>3 DEF EngineOf, EngineFile
<1>9. CASE RemoveBackups(u)
    <2>1. job[u].pc = "clean" /\ job'[u].pc = "record" /\ UNCHANGED <<file, past>>
        BY <1>9 DEF RemoveBackups, TypeOK, Job
    <2>2. \A f \in File : past.good[f] = file[f]
        BY <1>1, <2>1 DEF EngineOf
    <2> QED BY <2>1, <2>2 DEF EngineOf, EngineFile
<1>10. CASE StartUpdated(u)
    <2>1. job[u].pc = "probe" /\ UNCHANGED <<file, bak, past>>
        BY <1>10 DEF StartUpdated, disk
    <2>2. job'[u].pc = "watch" /\ job'[u].version = job[u].version
        BY <1>10 DEF StartUpdated, TypeOK, Job
    <2>3. InBak(C)
        BY <1>1, <2>1 DEF EngineOf
    <2> QED BY <1>F, <2>1, <2>2, <2>3 DEF EngineOf, InBak
<1>11. CASE SimulatedStep(u)
    <2>1. job'[u].pc \in {"simSwap", "simProbe"} /\ UNCHANGED <<file, bak, past>>
        BY <1>11 DEF SimulatedStep, Goto, TypeOK, Job, disk
    <2> QED BY <1>F, <2>1 DEF EngineOf
<1> QED BY <1>2, <1>3, <1>4, <1>5, <1>6, <1>7, <1>8, <1>9, <1>10, <1>11 DEF Went

LEMMA EngineStep == IInv /\ [Next]_vars => Engine'
<1> SUFFICES ASSUME IInv, [Next]_vars, ~cleared'
             PROVE  (\A f \in File : EngineFile(f)') /\ \A w \in Updater : EngineOf(job[w])'
    BY DEF Engine, OldEngineOnDisk, EngineFile
<1> USE DEF IInv
<1>0. ~cleared => (\A f \in File : EngineFile(f)) /\ \A w \in Updater : EngineOf(job[w])
    BY EngineFiles DEF Engine
<1>R. ASSUME NEW w \in Updater,
             job'[w].pc \in {"idle", "handover", "return", "give_up", "leave", "download", "verify", "simVerify"}
      PROVE  EngineOf(job[w])'
    BY <1>R DEF EngineOf
<1>S. ASSUME past' = StartOver, UNCHANGED <<file, bak>> PROVE \A f \in File : EngineFile(f)'
    <2>1. CASE cleared
        BY <1>S, <2>1 DEF StartOver, EngineFile
    <2>2. CASE ~cleared
        BY <1>0, <1>S, <2>2 DEF StartOver, EngineFile
    <2> QED BY <2>1, <2>2
<1>1. ASSUME NEW u \in Updater, Started(u)
      PROVE  (\A f \in File : EngineFile(f)') /\ \A w \in Updater : EngineOf(job[w])'
    <2>1. job'[u].pc \in {"download", "verify", "simVerify"}
        BY <1>1, AfterStarted
    <2>2. past' = StartOver /\ UNCHANGED <<file, bak>>
        BY <1>1, StartedStep DEF disk, History
    <2> QED BY <1>1, <1>R, <1>S, <2>1, <2>2, OthersRest
<1>2. ASSUME NEW u \in Updater, Ended(u)
      PROVE  (\A f \in File : EngineFile(f)') /\ \A w \in Updater : EngineOf(job[w])'
    <2>1. job'[u].pc \in {"give_up", "leave"}
        BY <1>2, AfterEnded
    <2>2. ~cleared
        BY <1>2, EndedStep
    <2> QED BY <1>2, <1>R, <2>1, <2>2, EndedEngine, OthersRest
<1>3. ASSUME NEW u \in Updater, Went(u)
      PROVE  (\A f \in File : EngineFile(f)') /\ \A w \in Updater : EngineOf(job[w])'
    <2>1. ~cleared
        BY <1>3, WentStep
    <2> QED BY <1>3, <1>R, <2>1, WentEngine, OthersRest
<1>4. ASSUME NEW u \in Updater, Released(u)
      PROVE  (\A f \in File : EngineFile(f)') /\ \A w \in Updater : EngineOf(job[w])'
    <2>1. ~cleared /\ UNCHANGED <<file, bak, past>>
        BY <1>4, ReleasedStep DEF History, disk
    <2>2. job'[u].pc \in {"idle", "handover", "return"}
        BY <1>4, ReleasedStep DEF TypeOK
    <2>3. \A f \in File : EngineFile(f)'
        BY <1>0, <2>1 DEF EngineFile
    <2> QED BY <1>4, <1>R, <2>2, <2>3, OthersRest
<1>5. ASSUME NEW u \in Updater, ApplyRefused(u)
      PROVE  (\A f \in File : EngineFile(f)') /\ \A w \in Updater : EngineOf(job[w])'
    <2>1. /\ ~cleared /\ UNCHANGED <<file, bak, past>> /\ job'[u].pc = "return"
          /\ \A w \in Updater \ {u} : job'[w] = job[w]
        BY <1>5, RefusedStep DEF TypeOK, disk
    <2>2. \A f \in File : EngineFile(f)'
        BY <1>0, <2>1 DEF EngineFile
    <2>3. \A w \in Updater \ {u} : EngineOf(job[w])'
        BY <1>0, <2>1 DEF EngineOf, InBak
    <2> QED BY <1>R, <2>1, <2>2, <2>3
<1>6. CASE Aside \/ UNCHANGED vars
    <2>0. TypeOK
        OBVIOUS
    <2>1. UNCHANGED <<file, bak, job>>
        BY <1>6, <2>0, AsideStep DEF disk, vars
    <2>3. ~cleared /\ past' = past
        BY <1>6, <2>0, AsideKeeps DEF vars
    <2> QED BY <1>0, <2>1, <2>3 DEF EngineFile, EngineOf, InBak
<1>7. CASE Crash
    <2>1. UNCHANGED <<file, bak>> /\ past' = StartOver /\ \A w \in Updater : job'[w].pc = "idle"
        BY <1>7 DEF Crash, disk, Idle, History
    <2> QED BY <2>1, <1>R, <1>S
<1> QED BY <1>1, <1>2, <1>3, <1>4, <1>5, <1>6, <1>7, Steps
-----------------------------------------------------------------------------
(* The inductive invariant holds in every reachable state. *)
THEOREM IInvCorrect == Spec => []IInv
<1>1. IInv /\ [Next]_vars => IInv'
    BY TypeStep, FlagStep, LocalsStep, DiskStep, EngineStep DEF IInv, Flag
<1> QED BY <1>1, InitIInv, PTL DEF Spec

(* Every variable of the updater keeps its type. *)
THEOREM TypeCorrect == Spec => []TypeOK
<1>1. IInv => TypeOK
    BY DEF IInv
<1> QED BY <1>1, IInvCorrect, PTL

(* However many updates are requested at once, only ResetStatus and the     *)
(* deferred function of DownloadAndApplyUpdate, when ApplyUpdate was refused *)
(* or has dropped the flag before it, let two of them run: the handover and  *)
(* the ends of ApplyUpdate do not.                                           *)
THEOREM OneUpdate == Spec => []OneUpdateUnlessCleared
<1>1. IInv => OneUpdateUnlessCleared
    BY DEF IInv
<1> QED BY <1>1, IInvCorrect, PTL

(* No path through an update leaves the flag set behind it. *)
THEOREM FlagHasOwner == Spec => []ApplyingHasOwner
<1>1. IInv => ApplyingHasOwner
    BY DEF IInv
<1> QED BY <1>1, IInvCorrect, PTL

(* A failed or rolled back update leaves the old engine, for any release    *)
(* and whichever renames fail, but for the files whose own rename back or   *)
(* removal has failed.                                                      *)
THEOREM UndoneIsUndone == Spec => []UndoneLeavesOldEngine
<1>1. IInv => UndoneLeavesOldEngine
    BY DEF IInv, Disk, Quiescent, UndoneLeavesOldEngine
<1> QED BY <1>1, IInvCorrect, PTL

(* Every file of the engine that last passed its probe is on disk, through   *)
(* failing renames, crashes and later updates, unless a later update has     *)
(* removed the .bak that was its only copy.                                  *)
THEOREM OldEngineIsThere == Spec => []OldEngineOnDisk
<1>1. IInv => OldEngineOnDisk
    BY DEF IInv, Engine
<1> QED BY <1>1, IInvCorrect, PTL
=============================================================================
