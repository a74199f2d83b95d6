---------------------------- MODULE ServicesProofs ----------------------------
(***************************************************************************)
(* Proofs about the services of MCServices, for every value of their       *)
(* constants that fits the assumptions made there.  The configuration      *)
(* manager, the delegation listener and the data archives have modules of  *)
(* their own; this one proves the inductive invariants of the others, one  *)
(* section each, and then that the services, whichever of them moves, keep *)
(* what they promise.                                                      *)
(***************************************************************************)
EXTENDS MCServices, Sequences, FiniteSetTheorems, WellFoundedInduction, TLAPS

(* The instances count as everybody does. *)
LEMMA HarvestsCardinality == ASSUME NEW S PROVE Harvests!Cardinality(S) = Cardinality(S)
BY DEF Harvests!Cardinality, Cardinality

LEMMA SetupsCardinality == ASSUME NEW S PROVE Setups!Cardinality(S) = Cardinality(S)
BY DEF Setups!Cardinality, Cardinality

LEMMA EnginesCardinality == ASSUME NEW S PROVE Engines!Cardinality(S) = Cardinality(S)
BY DEF Engines!Cardinality, Cardinality
-----------------------------------------------------------------------------
(* The configuration updater.  The one fact that carries the others is     *)
(* OneSynchronisation: what a goroutine past the guard reads or writes is  *)
(* its own, so that the files already copied back stay as they are until   *)
(* it is done.                                                             *)

(* A synchronisation in progress has reset the report of the last one. *)
ReportReset == applying => ~rolledBack

(* What a rollback has behind it is back. *)
CopiedBack ==
    \A s \in Syncer : At(s, "rollback") =>
        \A f \in ConfFile \ (lost \cup sync[s].todo) :
            saved[f] # Missing => conf[f] \in {saved[f], Edited}

UpdaterInv == TypeOK /\ OneSynchronisation /\ ReportReset /\ CopiedBack /\ RollbackRestoresBackup
-----------------------------------------------------------------------------
(* The value Quiet is a record of the right type; a CASE has one of four    *)
(* values.                                                                  *)
LEMMA QuietType == Quiet \in Sync
BY DEF Quiet, Sync, NoFiles, Files, Content

(* A goroutine's record after an update of one or two of its fields. *)
LEMMA SyncUpdate ==
    ASSUME TypeOK, NEW s \in Syncer, NEW r \in Sync
    PROVE  /\ [sync EXCEPT ![s] = r] \in [Syncer -> Sync]
           /\ [sync EXCEPT ![s] = r][s] = r
           /\ \A t \in Syncer \ {s} : [sync EXCEPT ![s] = r][t] = sync[t]
BY DEF TypeOK

LEMMA InitUpdater == Init => UpdaterInv
<1> SUFFICES ASSUME Init PROVE UpdaterInv
    OBVIOUS
<1>1. TypeOK
    <2>1. sync \in [Syncer -> Sync]
        BY QuietType DEF Init
    <2>2. NoFiles \in Files /\ (1 \in Release => [f \in ConfFile |-> 1] \in Files)
        BY DEF NoFiles, Files, Content
    <2>3. 1 \in Release
        BY ReleaseAssumption DEF Release
    <2> QED BY <2>1, <2>2, <2>3 DEF Init, TypeOK
<1>2. \A s \in Syncer : sync[s].pc = "idle"
    BY DEF Init, Quiet
<1> QED BY <1>1, <1>2
           DEF Init, UpdaterInv, OneSynchronisation, ReportReset, CopiedBack,
               RollbackRestoresBackup, At, InSync
-----------------------------------------------------------------------------
(* Typing. *)

LEMMA UpdaterTypeStep == TypeOK /\ [Next]_vars => TypeOK'
<1> SUFFICES ASSUME TypeOK, [Next]_vars PROVE TypeOK'
    OBVIOUS
<1>1. ASSUME NEW s \in Syncer, SyncStep(s) \/ ConfigSaved(s) \/ (At(s, "idle") /\ Begin(s))
      PROVE TypeOK'
    <2> DEFINE S == [Syncer -> Sync]
    <2>0. sync[s] \in Sync /\ sync[s].todo \subseteq ConfFile /\ sync[s].fetched \in Files
          /\ official \in Release /\ Release \subseteq Content
        BY <1>1 DEF TypeOK, Sync, Content
    <2>1. ASSUME NEW pc \in {"idle", "compare", "ask"} \cup InSync
          PROVE [sync EXCEPT ![s].pc = pc] \in S
        BY <2>0 DEF TypeOK, Sync
    <2>2. ASSUME NEW pc \in {"idle", "compare", "ask"} \cup InSync, NEW T \in SUBSET ConfFile
          PROVE  [sync EXCEPT ![s].pc = pc, ![s].todo = T] \in S
        BY <2>0 DEF TypeOK, Sync
    <2>3. CASE CheckConfigsDiff(s)
        BY <2>3, <2>1 DEF CheckConfigsDiff, TypeOK
    <2>4. CASE BeginRefused(s) \/ GiveUp(s) \/ Synced(s) \/ EndSyncRollback(s)
        BY <2>4, QuietType DEF BeginRefused, GiveUp, Synced, EndSyncRollback, Leave, TypeOK
    <2>5. CASE Begin(s)
        <3> DEFINE r == [Quiet EXCEPT !.pc = "fetch", !.todo = ConfFile]
        <3>1. r \in Sync
            BY QuietType DEF Sync, InSync
        <3>2. sync' = [sync EXCEPT ![s] = r] /\ syncs' \in Nat
            BY <2>5 DEF Begin, TypeOK
        <3> HIDE DEF r
        <3>3. sync' \in S
            BY <3>1, <3>2 DEF TypeOK
        <3> QED BY <2>5, <3>2, <3>3 DEF Begin, TypeOK
    <2>6. ASSUME NEW f \in ConfFile, Fetch(s, f) PROVE TypeOK'
        <3>1. [sync[s].fetched EXCEPT ![f] = official] \in Files
            BY <2>0 DEF Files
        <3> DEFINE r == [sync[s] EXCEPT !.fetched = [sync[s].fetched EXCEPT ![f] = official],
                                        !.todo = sync[s].todo \ {f},
                                        !.pc = IF sync[s].todo = {f} THEN "backup" ELSE "fetch"]
        <3>2. r \in Sync
            BY <2>0, <3>1 DEF Sync, InSync
        <3>3. sync' = [sync EXCEPT ![s] = r]
            BY <2>6, <2>0 DEF Fetch, TypeOK, Sync
        <3> HIDE DEF r
        <3>4. sync' \in S
            BY <3>2, <3>3 DEF TypeOK
        <3> QED BY <2>6, <3>4 DEF Fetch, TypeOK
    <2>7. CASE Backup(s)
        <3>1. saved' \in Files
            BY <2>7 DEF Backup, TypeOK, Files, Content
        <3> QED BY <2>7, <3>1, <2>1 DEF Backup, TypeOK, InSync
    <2>8. CASE StopForSync(s)
        <3>1. sync' \in S
            BY <2>8, <2>0 DEF StopForSync, TypeOK, Sync, InSync
        <3> QED BY <2>8, <3>1 DEF StopForSync, TypeOK
    <2>9. ASSUME NEW f \in ConfFile, Replace(s, f) PROVE TypeOK'
        <3>1. conf' \in Files
            BY <2>9, <2>0 DEF Replace, TypeOK, Files
        <3>2. CASE sync[s].todo # {f} \/ sync[s].wasRunning
            <4> DEFINE r == [sync[s] EXCEPT !.todo = sync[s].todo \ {f},
                                            !.pc = IF sync[s].todo = {f} THEN "start" ELSE "replace"]
            <4>a. r \in Sync
                BY <2>0 DEF Sync, InSync
            <4>b. sync' = [sync EXCEPT ![s] = r]
                BY <2>9, <3>2, <2>0 DEF Replace, TypeOK, Sync
            <4> HIDE DEF r
            <4>1. sync' \in S
                BY <4>a, <4>b DEF TypeOK
            <4> QED BY <2>9, <3>1, <3>2, <4>1 DEF Replace, TypeOK
        <3>3. CASE ~(sync[s].todo # {f} \/ sync[s].wasRunning)
            <4>1. sync' \in S /\ applying' = FALSE
                BY <2>9, <3>3, QuietType DEF Replace, Leave, TypeOK
            <4> QED BY <2>9, <3>1, <4>1 DEF Replace, TypeOK
        <3> QED BY <3>2, <3>3
    <2>10. CASE StartSynced(s)
        BY <2>10, <2>1 DEF StartSynced, TypeOK, InSync
    <2>11. CASE SyncFails(s)
        BY <2>11, <2>2 DEF SyncFails, TypeOK, InSync
    <2>12. ASSUME NEW f \in ConfFile, CopyBack(s, f) \/ CopyBackFails(s, f) PROVE TypeOK'
        <3>1. conf' \in Files
            BY <2>12 DEF CopyBack, CopyBackFails, TypeOK, Files, Content
        <3>2. sync' \in S
            BY <2>12, <2>0 DEF CopyBack, CopyBackFails, TypeOK, Sync
        <3> QED BY <2>12, <3>1, <3>2 DEF CopyBack, CopyBackFails, TypeOK
    <2>13. CASE ConfigSaved(s)
        BY <2>13, <2>1 DEF ConfigSaved, TypeOK
    <2> QED BY <1>1, <2>3, <2>4, <2>5, <2>6, <2>7, <2>8, <2>9, <2>10, <2>11, <2>12, <2>13
               DEF SyncStep
<1>2. ASSUME NEW f \in ConfFile, Edit(f) PROVE TypeOK'
    BY <1>2 DEF Edit, TypeOK, Files, Content
<1>3. CASE Publish
    BY <1>3, ReleaseAssumption DEF Publish, TypeOK, Release
<1>4. CASE EngineChanges
    BY <1>4 DEF EngineChanges, TypeOK
<1>5. CASE UNCHANGED vars
    BY <1>5 DEF vars, TypeOK
<1> QED BY <1>1, <1>2, <1>3, <1>4, <1>5 DEF Next
-----------------------------------------------------------------------------
(* What a step of one goroutine does to the flag and to the others. *)

LEMMA OtherSyncsStay ==
    ASSUME TypeOK, NEW s \in Syncer, SyncStep(s) \/ ConfigSaved(s) \/ (At(s, "idle") /\ Begin(s))
    PROVE  \A t \in Syncer \ {s} : sync'[t] = sync[t]
<1>1. ASSUME NEW f \in ConfFile, Fetch(s, f) \/ Replace(s, f) \/ CopyBack(s, f)
             \/ CopyBackFails(s, f)
      PROVE  \A t \in Syncer \ {s} : sync'[t] = sync[t]
    BY <1>1 DEF Fetch, Replace, CopyBack, CopyBackFails, Leave, TypeOK
<1>2. CASE ~\E f \in ConfFile : Fetch(s, f) \/ Replace(s, f) \/ CopyBack(s, f)
           \/ CopyBackFails(s, f)
    BY <1>2
       DEF SyncStep, CheckConfigsDiff, BeginRefused, Begin, GiveUp, Backup, StopForSync,
           StartSynced,
        Synced, SyncFails, EndSyncRollback, ConfigSaved, Leave, TypeOK
<1> QED BY <1>1, <1>2

(* The step moves s past the guard with the flag, keeps it there, takes it  *)
(* out with the flag, or happens outside and leaves the flag alone.         *)
LEMMA FlagFollows ==
    ASSUME TypeOK, NEW s \in Syncer, SyncStep(s) \/ ConfigSaved(s) \/ (At(s, "idle") /\ Begin(s))
    PROVE  \/ sync[s].pc \notin InSync /\ sync'[s].pc \notin InSync /\ applying' = applying
           \/ sync[s].pc \notin InSync /\ sync'[s].pc \in InSync /\ ~applying /\ applying'
           \/ sync[s].pc \in InSync /\ sync'[s].pc \in InSync /\ applying' = applying
           \/ sync[s].pc \in InSync /\ sync'[s].pc \notin InSync /\ ~applying'
<1>1. CASE Begin(s)
    BY <1>1 DEF Begin, At, InSync, TypeOK, Quiet, Sync
<1>2. CASE CheckConfigsDiff(s) \/ BeginRefused(s) \/ ConfigSaved(s)
    BY <1>2 DEF CheckConfigsDiff, BeginRefused, ConfigSaved, At, InSync, TypeOK, Quiet, Sync
<1>3. CASE GiveUp(s) \/ Synced(s) \/ EndSyncRollback(s)
    BY <1>3 DEF GiveUp, Synced, EndSyncRollback, Leave, At, InSync, TypeOK, Quiet
<1>4. CASE Backup(s) \/ StopForSync(s) \/ StartSynced(s) \/ SyncFails(s)
    BY <1>4 DEF Backup, StopForSync, StartSynced, SyncFails, At, InSync, TypeOK, Sync
<1>5. ASSUME NEW f \in ConfFile, Fetch(s, f) \/ CopyBack(s, f) \/ CopyBackFails(s, f)
      PROVE  sync[s].pc \in InSync /\ sync'[s].pc \in InSync /\ applying' = applying
    BY <1>5 DEF Fetch, CopyBack, CopyBackFails, At, InSync, TypeOK, Sync
<1>6. ASSUME NEW f \in ConfFile, Replace(s, f)
      PROVE  \/ sync[s].pc \in InSync /\ sync'[s].pc \in InSync /\ applying' = applying
             \/ sync[s].pc \in InSync /\ sync'[s].pc \notin InSync /\ ~applying'
    BY <1>6 DEF Replace, Leave, At, InSync, TypeOK, Quiet, Sync
<1> QED BY <1>1, <1>2, <1>3, <1>4, <1>5, <1>6 DEF SyncStep

LEMMA OneSyncStep == TypeOK /\ OneSynchronisation /\ [Next]_vars => OneSynchronisation'
<1> SUFFICES ASSUME TypeOK, OneSynchronisation, [Next]_vars PROVE OneSynchronisation'
    OBVIOUS
<1>1. ASSUME NEW s \in Syncer, SyncStep(s) \/ ConfigSaved(s) \/ (At(s, "idle") /\ Begin(s))
      PROVE OneSynchronisation'
    BY <1>1, OtherSyncsStay, FlagFollows DEF OneSynchronisation
<1>2. CASE UNCHANGED <<sync, applying>>
    BY <1>2 DEF OneSynchronisation
<1> QED BY <1>1, <1>2 DEF Next, Edit, Publish, EngineChanges, vars
-----------------------------------------------------------------------------
(* The rollback. *)

LEMMA ReportStep == UpdaterInv /\ [Next]_vars => ReportReset'
<1> SUFFICES ASSUME UpdaterInv, [Next]_vars PROVE ReportReset'
    OBVIOUS
<1>1. ASSUME NEW s \in Syncer, EndSyncRollback(s) \/ Begin(s) PROVE ReportReset'
    BY <1>1 DEF EndSyncRollback, Begin, Leave, ReportReset
<1>2. ASSUME NEW s \in Syncer, SyncStep(s) \/ ConfigSaved(s), ~EndSyncRollback(s), ~Begin(s)
      PROVE rolledBack' = rolledBack /\ (applying' => applying)
    <2>1. ASSUME NEW f \in ConfFile, Fetch(s, f) \/ Replace(s, f) \/ CopyBack(s, f)
                 \/ CopyBackFails(s, f)
          PROVE  rolledBack' = rolledBack /\ (applying' => applying)
        BY <2>1 DEF Fetch, Replace, CopyBack, CopyBackFails, Leave
    <2>2. CASE ConfigSaved(s) \/ CheckConfigsDiff(s) \/ BeginRefused(s) \/ GiveUp(s) \/ Backup(s)
        BY <2>2 DEF ConfigSaved, CheckConfigsDiff, BeginRefused, GiveUp, Backup, Leave
    <2>3. CASE StopForSync(s) \/ StartSynced(s) \/ Synced(s) \/ SyncFails(s)
        BY <2>3 DEF StopForSync, StartSynced, Synced, SyncFails, Leave
    <2> QED BY <1>2, <2>1, <2>2, <2>3 DEF SyncStep
<1>3. CASE UNCHANGED <<rolledBack, applying>>
    BY <1>3 DEF UpdaterInv, ReportReset
<1> QED BY <1>1, <1>2, <1>3 DEF Next, Edit, Publish, EngineChanges, vars, UpdaterInv, ReportReset

(* Only a goroutine past the guard writes a file, a backup or lost, apart   *)
(* from an edit, and one that enters.                                       *)
LEMMA WritersAreInside ==
    ASSUME TypeOK, NEW s \in Syncer, SyncStep(s) \/ ConfigSaved(s) \/ (At(s, "idle") /\ Begin(s))
    PROVE  UNCHANGED <<conf, saved, lost>> \/ sync[s].pc \in InSync \/ Begin(s)
<1>1. CASE CheckConfigsDiff(s) \/ BeginRefused(s) \/ ConfigSaved(s)
    BY <1>1 DEF CheckConfigsDiff, BeginRefused, ConfigSaved
<1>2. CASE GiveUp(s) \/ Backup(s) \/ StopForSync(s) \/ StartSynced(s) \/ Synced(s)
           \/ SyncFails(s) \/ EndSyncRollback(s)
    BY <1>2
       DEF GiveUp, Backup, StopForSync, StartSynced, Synced, SyncFails, EndSyncRollback, At,
           InSync
<1>3. ASSUME NEW f \in ConfFile, Fetch(s, f) \/ Replace(s, f) \/ CopyBack(s, f)
             \/ CopyBackFails(s, f)
      PROVE  sync[s].pc \in InSync
    BY <1>3 DEF Fetch, Replace, CopyBack, CopyBackFails, At, InSync
<1> QED BY <1>1, <1>2, <1>3 DEF SyncStep

LEMMA CopiedStep == UpdaterInv /\ [Next]_vars => CopiedBack'
<1> SUFFICES ASSUME UpdaterInv, [Next]_vars PROVE CopiedBack'
    OBVIOUS
<1> USE DEF UpdaterInv
<1>1. ASSUME NEW s \in Syncer, SyncStep(s) \/ ConfigSaved(s) \/ (At(s, "idle") /\ Begin(s))
      PROVE CopiedBack'
    <2> SUFFICES ASSUME NEW t \in Syncer, (sync[t].pc = "rollback")',
                        NEW f \in ConfFile, f \notin lost', f \notin sync'[t].todo,
                           (saved[f] # Missing)'
                 PROVE  (conf[f] \in {saved[f], Edited})'
        BY DEF CopiedBack, At
    <2>1. CASE t # s
        <3>1. sync'[t] = sync[t] /\ sync[t].pc \in InSync
            BY <2>1, <1>1, OtherSyncsStay DEF InSync
        <3>2. sync[s].pc \notin InSync /\ applying
            BY <2>1, <3>1 DEF OneSynchronisation
        <3>3. UNCHANGED <<conf, saved, lost>>
            BY <1>1, <3>2, WritersAreInside DEF Begin
        <3> QED BY <3>1, <3>3 DEF CopiedBack, At
    <2>2. CASE t = s
        <3>0. sync[s] \in Sync
            BY DEF TypeOK
        <3>1. \/ SyncFails(s)
              \/ \E g \in ConfFile : CopyBack(s, g) \/ CopyBackFails(s, g)
            <4>1. ASSUME NEW g \in ConfFile, Fetch(s, g) \/ Replace(s, g)
                  PROVE sync'[s].pc # "rollback"
                <5>1. CASE Fetch(s, g)
                    BY <5>1, <3>0 DEF Fetch, TypeOK, Sync
                <5>2. CASE Replace(s, g)
                    <6>1. CASE sync[s].todo # {g} \/ sync[s].wasRunning
                        BY <5>2, <6>1, <3>0 DEF Replace, TypeOK, Sync
                    <6>2. CASE ~(sync[s].todo # {g} \/ sync[s].wasRunning)
                        BY <5>2, <6>2 DEF Replace, Leave, Quiet, TypeOK
                    <6> QED BY <6>1, <6>2
                <5> QED BY <4>1, <5>1, <5>2
            <4>2. ASSUME Begin(s) \/ CheckConfigsDiff(s) \/ BeginRefused(s) \/ ConfigSaved(s)
                  PROVE sync'[s].pc # "rollback"
                <5>1. CASE CheckConfigsDiff(s)
                    <6>1. PICK pc \in {"ask", "idle"} : sync' = [sync EXCEPT ![s].pc = pc]
                        BY <5>1 DEF CheckConfigsDiff
                    <6> QED BY <6>1, <3>0 DEF TypeOK, Sync
                <5>2. CASE Begin(s)
                    BY <5>2 DEF Begin, Quiet, TypeOK
                <5>3. CASE BeginRefused(s) \/ ConfigSaved(s)
                    BY <5>3, <3>0 DEF BeginRefused, ConfigSaved, Quiet, TypeOK, Sync
                <5> QED BY <4>2, <5>1, <5>2, <5>3
            <4>3. ASSUME GiveUp(s) \/ Backup(s) \/ StopForSync(s) \/ StartSynced(s) \/ Synced(s)
                         \/ EndSyncRollback(s)
                  PROVE  sync'[s].pc # "rollback"
                BY <4>3, <3>0
                   DEF GiveUp, Backup, StopForSync, StartSynced, Synced, EndSyncRollback, Leave,
                       Quiet, TypeOK, Sync
            <4> QED BY <1>1, <2>2, <4>1, <4>2, <4>3 DEF SyncStep
        <3>2. CASE SyncFails(s)
            <4>1. sync'[s].todo = {g \in ConfFile : saved[g] # Missing} /\ saved' = saved
                BY <3>2, <3>0 DEF SyncFails, TypeOK, Sync
            <4> QED BY <4>1, <2>2
        <3>3. ASSUME NEW g \in ConfFile, CopyBack(s, g) PROVE (conf[f] \in {saved[f], Edited})'
            <4>1. sync[s].pc = "rollback" /\ sync'[s].todo = sync[s].todo \ {g}
                BY <3>3, <3>0 DEF CopyBack, At, TypeOK, Sync
            <4>2. conf'[f] = IF f = g THEN saved[f] ELSE conf[f]
                BY <3>3 DEF CopyBack, TypeOK, Files
            <4>3. UNCHANGED <<saved, lost>>
                BY <3>3 DEF CopyBack
            <4> QED BY <4>1, <4>2, <4>3, <2>2 DEF CopiedBack, At
        <3>4. ASSUME NEW g \in ConfFile, CopyBackFails(s, g)
              PROVE (conf[f] \in {saved[f], Edited})'
            <4>1. sync[s].pc = "rollback" /\ sync'[s].todo = sync[s].todo \ {g}
                BY <3>4, <3>0 DEF CopyBackFails, At, TypeOK, Sync
            <4>2. saved' = saved /\ lost' = lost \cup {g}
                BY <3>4 DEF CopyBackFails
            <4>3. f # g
                BY <4>2
            <4>4. conf'[f] = conf[f]
                BY <3>4, <4>3 DEF CopyBackFails, TypeOK, Files
            <4> QED BY <4>1, <4>2, <4>3, <4>4, <2>2 DEF CopiedBack, At
        <3> QED BY <3>1, <3>2, <3>3, <3>4
    <2> QED BY <2>1, <2>2
<1>2. ASSUME NEW g \in ConfFile, Edit(g) PROVE CopiedBack'
    BY <1>2 DEF Edit, CopiedBack, At, TypeOK, Files
<1>3. CASE UNCHANGED <<sync, conf, saved, lost>>
    BY <1>3 DEF CopiedBack, At
<1> QED BY <1>1, <1>2, <1>3 DEF Next, Publish, EngineChanges, vars

LEMMA RollbackStep == UpdaterInv /\ [Next]_vars => RollbackRestoresBackup'
<1> SUFFICES ASSUME UpdaterInv, [Next]_vars, rolledBack', ~applying', NEW f \in ConfFile,
   f \notin lost', saved'[f] # Missing
             PROVE  conf'[f] \in {saved'[f], Edited}
    BY DEF RollbackRestoresBackup
<1> USE DEF UpdaterInv
<1>1. ASSUME NEW s \in Syncer, SyncStep(s) \/ ConfigSaved(s) \/ (At(s, "idle") /\ Begin(s))
      PROVE  conf'[f] \in {saved'[f], Edited}
    <2>1. CASE EndSyncRollback(s)
        <3>1. sync[s].pc = "rollback" /\ sync[s].todo = {} /\ UNCHANGED <<conf, saved, lost>>
            BY <2>1 DEF EndSyncRollback, At
        <3> QED BY <3>1 DEF CopiedBack, At
    <2>2. CASE ~EndSyncRollback(s)
        <3>1. ~Begin(s)
            BY DEF Begin
        <3>2. rolledBack
            BY <1>1, <2>2, <3>1
               DEF SyncStep, ConfigSaved, CheckConfigsDiff, BeginRefused, Fetch, Replace,
                   CopyBack,
                CopyBackFails, GiveUp, Backup, StopForSync, StartSynced, Synced, SyncFails, Leave
        <3>3. ~applying
            BY <3>2 DEF ReportReset
        <3>4. sync[s].pc \notin InSync
            BY <3>3 DEF OneSynchronisation
        <3>5. UNCHANGED <<conf, saved, lost>>
            BY <1>1, <3>1, <3>4, WritersAreInside
        <3> QED BY <3>2, <3>3, <3>5 DEF RollbackRestoresBackup
    <2> QED BY <2>1, <2>2
<1>2. ASSUME NEW g \in ConfFile, Edit(g) PROVE conf'[f] \in {saved'[f], Edited}
    BY <1>2 DEF Edit, RollbackRestoresBackup, TypeOK, Files
<1>3. CASE UNCHANGED <<conf, saved, lost, rolledBack, applying>>
    BY <1>3 DEF RollbackRestoresBackup
<1> QED BY <1>1, <1>2, <1>3 DEF Next, Publish, EngineChanges, vars
-----------------------------------------------------------------------------
LEMMA StepUpdater == UpdaterInv /\ [Next]_vars => UpdaterInv'
BY UpdaterTypeStep, OneSyncStep, ReportStep, CopiedStep, RollbackStep DEF UpdaterInv
-----------------------------------------------------------------------------
(* The onboarding of a replicator.  The key travels with the answer: in    *)
(* the cache, and in the record of the goroutine that is about to announce.*)

LookupsTyped ==
    /\ replicator \in Replicator \cup {NoReplicator}
    /\ account \in [key : Replicator \cup {NoReplicator}, paid : BOOLEAN]
    /\ lookup \in [Onboardings!Fetcher -> Onboardings!Lookup]

(* What the cache says of a key was once so. *)
CacheWasTrue == account.paid => account.key \in paid \cup token

(* Whoever may announce has seen the account of its own key funded. *)
SeenFunded ==
    \A f \in Onboardings!Fetcher :
       lookup[f].pc = "announce" => lookup[f].key \in paid \cup token

Funded == LookupsTyped /\ CacheWasTrue /\ SeenFunded /\ Onboardings!OnboardingIsFunded
-----------------------------------------------------------------------------
LEMMA RestingType == Onboardings!Resting \in Onboardings!Lookup
BY DEF Onboardings!Resting, Onboardings!Lookup

LEMMA InitFunded == Onboardings!Init => Funded
BY RestingType
   DEF Onboardings!Init, Funded, LookupsTyped, CacheWasTrue, SeenFunded,
       Onboardings!OnboardingIsFunded, Onboardings!Resting

(* A judged goroutine rests, or announces for the key it asked about. *)
LEMMA JudgeEffect ==
    ASSUME LookupsTyped, SeenFunded, NEW c \in Onboardings!Fetcher, NEW found \in BOOLEAN,
           found => lookup[c].key \in paid \cup token
    PROVE  /\ Onboardings!Judge(c, found) \in [Onboardings!Fetcher -> Onboardings!Lookup]
           /\ \A f \in Onboardings!Fetcher : Onboardings!Judge(c, found)[f].pc = "announce" =>
                                     Onboardings!Judge(c, found)[f].key \in paid \cup token
<1> DEFINE r == IF lookup[c].why = "onboard" /\ found THEN [lookup[c] EXCEPT !.pc = "announce"]
                ELSE Onboardings!Resting
<1>1. r \in Onboardings!Lookup
    BY RestingType DEF LookupsTyped, Onboardings!Lookup
<1>2. r.pc = "announce" => r.key \in paid \cup token
    BY DEF LookupsTyped, Onboardings!Lookup, Onboardings!Resting
<1>3. Onboardings!Judge(c, found) = [lookup EXCEPT ![c] = r]
    BY DEF Onboardings!Judge
<1> HIDE DEF r
<1> QED BY <1>1, <1>2, <1>3 DEF LookupsTyped, SeenFunded

LEMMA FundedStep == Funded /\ [Onboardings!Next]_(Onboardings!vars) => Funded'
<1> SUFFICES ASSUME Funded, [Onboardings!Next]_(Onboardings!vars) PROVE Funded'
    OBVIOUS
<1> USE DEF Funded
<1>1. ASSUME NEW k \in Replicator, Onboardings!SaveKey(k) PROVE Funded'
    BY <1>1
       DEF Onboardings!SaveKey, Onboardings!chainVars, Onboardings!cacheVars, LookupsTyped,
           CacheWasTrue, SeenFunded, Onboardings!OnboardingIsFunded
<1>2. ASSUME NEW k \in Replicator, Onboardings!ChangeFunds(k) PROVE Funded'
    BY <1>2
       DEF Onboardings!ChangeFunds, Onboardings!cacheVars, LookupsTyped, CacheWasTrue, SeenFunded,
           Onboardings!OnboardingIsFunded
<1>3. CASE Onboardings!ThirtySecondsPass
    BY <1>3
       DEF Onboardings!ThirtySecondsPass, Onboardings!chainVars, LookupsTyped, CacheWasTrue,
           SeenFunded, Onboardings!OnboardingIsFunded
<1>4. ASSUME NEW c \in Client, NEW why \in {"status", "onboard"}, Onboardings!Begin(c, why)
      PROVE Funded'
    <2> DEFINE r == [pc |-> "check", why |-> why, key |-> replicator]
    <2>1. r \in Onboardings!Lookup /\ r.pc # "announce" /\ c \in Onboardings!Fetcher
        BY DEF Onboardings!Lookup, LookupsTyped, Onboardings!Fetcher
    <2>2. lookup' = [lookup EXCEPT ![c] = r]
        BY <1>4 DEF Onboardings!Begin
    <2> HIDE DEF r
    <2>3. LookupsTyped' /\ SeenFunded'
        BY <1>4, <2>1, <2>2
           DEF Onboardings!Begin, Onboardings!chainVars, Onboardings!cacheVars, LookupsTyped,
               SeenFunded
    <2> QED BY <1>4, <2>3
               DEF Onboardings!Begin, Onboardings!chainVars, Onboardings!cacheVars, CacheWasTrue,
                   Onboardings!OnboardingIsFunded
<1>5. ASSUME NEW c \in Client, Onboardings!CheckOnChainAccount(c) PROVE Funded'
    <2> DEFINE k == lookup[c].key
               judged == IF Onboardings!HasCached(k) THEN Onboardings!Judge(c, account.paid)
                         ELSE [lookup EXCEPT ![c].pc = "fetch"]
               r == [Onboardings!Resting EXCEPT !.pc = "fetch", !.key = k]
    <2>1. c \in Onboardings!Fetcher /\ Background \in Onboardings!Fetcher
            /\ lookup[c] \in Onboardings!Lookup /\ account.paid \in BOOLEAN
        BY DEF Onboardings!Fetcher, LookupsTyped
    <2>2. Onboardings!HasCached(k) /\ account.paid => k \in paid \cup token
        BY DEF Onboardings!HasCached, CacheWasTrue
    <2>3. /\ judged \in [Onboardings!Fetcher -> Onboardings!Lookup]
          /\ \A f \in Onboardings!Fetcher : judged[f].pc = "announce" => judged[f].key \in paid \cup token
        <3>1. CASE Onboardings!HasCached(k)
            BY <3>1, <2>1, <2>2, JudgeEffect
        <3>2. CASE ~Onboardings!HasCached(k)
            BY <3>2, <2>1 DEF LookupsTyped, SeenFunded, Onboardings!Lookup
        <3> QED BY <3>1, <3>2
    <2>4. r \in Onboardings!Lookup /\ r.pc = "fetch"
        BY <2>1, RestingType DEF Onboardings!Resting, Onboardings!Lookup
    <2>5. lookup' \in {judged, [judged EXCEPT ![Background] = r]}
        BY <1>5 DEF Onboardings!CheckOnChainAccount
    <2> HIDE DEF judged, r
    <2>6. UNCHANGED <<replicator, Onboardings!chainVars, Onboardings!cacheVars, announced>>
        BY <1>5 DEF Onboardings!CheckOnChainAccount
    <2>7. LookupsTyped' /\ SeenFunded'
        BY <2>1, <2>3, <2>4, <2>5, <2>6
           DEF Onboardings!chainVars, Onboardings!cacheVars, LookupsTyped, SeenFunded
    <2> QED BY <2>6, <2>7
               DEF Onboardings!chainVars, Onboardings!cacheVars, CacheWasTrue,
                   Onboardings!OnboardingIsFunded
<1>6. ASSUME NEW f \in Onboardings!Fetcher, Onboardings!FetchOnChainAccount(f) PROVE Funded'
    <2> DEFINE k == lookup[f].key
    <2>1. PICK found \in BOOLEAN :
              /\ found => k \in paid \cup token
              /\ IF k = NoReplicator THEN UNCHANGED Onboardings!cacheVars
                 ELSE account' = [key |-> k, paid |-> found] /\ lastScan' = "fresh"
              /\ lookup' = IF f = Background THEN [lookup EXCEPT ![f] = Onboardings!Resting]
                           ELSE Onboardings!Judge(f, found)
        BY <1>6 DEF Onboardings!FetchOnChainAccount
    <2>2. found \in BOOLEAN /\ (found => k \in paid \cup token) /\ k \in Replicator \cup {NoReplicator}
        <3>1. found \in BOOLEAN /\ (found => k \in paid \cup token)
            BY <2>1
        <3>2. lookup[f] \in Onboardings!Lookup
            BY DEF LookupsTyped
        <3> QED BY <3>1, <3>2 DEF Onboardings!Lookup
    <2>3. UNCHANGED <<replicator, Onboardings!chainVars, announced>>
        BY <1>6 DEF Onboardings!FetchOnChainAccount
    <2>4. CacheWasTrue' /\ account' \in [key : Replicator \cup {NoReplicator}, paid : BOOLEAN]
        BY <2>1, <2>2, <2>3
           DEF CacheWasTrue, Onboardings!cacheVars, Onboardings!chainVars, LookupsTyped
    <2>5. /\ lookup' \in [Onboardings!Fetcher -> Onboardings!Lookup]
          /\ \A g \in Onboardings!Fetcher : lookup'[g].pc = "announce" => lookup'[g].key \in paid \cup token
        <3>1. CASE f = Background
            BY <3>1, <2>1, RestingType DEF LookupsTyped, SeenFunded, Onboardings!Resting
        <3>2. CASE f # Background
            BY <3>2, <2>1, <2>2, JudgeEffect
        <3> QED BY <3>1, <3>2
    <2> QED BY <2>3, <2>4, <2>5
               DEF Onboardings!chainVars, LookupsTyped, SeenFunded, Onboardings!OnboardingIsFunded
<1>7. ASSUME NEW c \in Client, Onboardings!Announce(c) PROVE Funded'
    <2>1. c \in Onboardings!Fetcher /\ lookup[c].key \in paid \cup token
        BY <1>7 DEF Onboardings!Announce, Onboardings!Fetcher, SeenFunded
    <2>2. announced' \in {announced, announced \cup {lookup[c].key}}
        BY <1>7 DEF Onboardings!Announce
    <2>3. lookup' \in {lookup, [lookup EXCEPT ![c].pc = "poll"], [lookup EXCEPT ![c] = Onboardings!Resting]}
        BY <1>7 DEF Onboardings!Announce
    <2>4. UNCHANGED <<replicator, Onboardings!chainVars, Onboardings!cacheVars>>
        BY <1>7 DEF Onboardings!Announce
    <2>5. lookup' \in [Onboardings!Fetcher -> Onboardings!Lookup]
        BY <2>1, <2>3, RestingType DEF LookupsTyped, Onboardings!Lookup
    <2>6. \A f \in Onboardings!Fetcher : lookup'[f].pc = "announce" => lookup'[f] = lookup[f]
        BY <2>1, <2>3 DEF LookupsTyped, Onboardings!Lookup, Onboardings!Resting
    <2> QED BY <2>1, <2>2, <2>4, <2>5, <2>6
            DEF Onboardings!chainVars, Onboardings!cacheVars, LookupsTyped, CacheWasTrue,
                    SeenFunded, Onboardings!OnboardingIsFunded
<1>8. ASSUME NEW c \in Client, Onboardings!PollStatus(c) PROVE Funded'
    <2>1. lookup' \in [Onboardings!Fetcher -> Onboardings!Lookup]
          /\ \A f \in Onboardings!Fetcher : lookup'[f].pc = "announce" => lookup'[f] = lookup[f]
        BY <1>8, RestingType
           DEF Onboardings!PollStatus, Onboardings!Fetcher, LookupsTyped, Onboardings!Resting
    <2> QED BY <1>8, <2>1
               DEF Onboardings!PollStatus, Onboardings!chainVars, Onboardings!cacheVars,
                   LookupsTyped, CacheWasTrue, SeenFunded, Onboardings!OnboardingIsFunded
<1>9. CASE UNCHANGED Onboardings!vars
    BY <1>9
       DEF Onboardings!vars, Onboardings!chainVars, Onboardings!cacheVars, LookupsTyped,
           CacheWasTrue, SeenFunded, Onboardings!OnboardingIsFunded
<1> QED BY <1>1, <1>2, <1>3, <1>4, <1>5, <1>6, <1>7, <1>8, <1>9 DEF Onboardings!Next
-----------------------------------------------------------------------------
(* The rest of the types. *)
RestTyped ==
    /\ paid \subseteq Replicator /\ token \subseteq Replicator /\ announced \subseteq Replicator
    /\ lastScan \in {"never", "old", "fresh"} /\ fetching \in BOOLEAN
    /\ fetching <=> lookup[Background].pc = "fetch"
    /\ losses \in 0..MaxLosses

LEMMA InitRest == Onboardings!Init => RestTyped
<1> SUFFICES ASSUME Onboardings!Init PROVE RestTyped
    OBVIOUS
<1>1. lookup[Background] = Onboardings!Resting /\ Onboardings!Resting.pc # "fetch"
        /\ fetching = FALSE
    BY DEF Onboardings!Init, Onboardings!Resting, Onboardings!Fetcher
<1>2. losses \in 0..MaxLosses
    BY ClientAssumption DEF Onboardings!Init
<1> QED BY <1>1, <1>2 DEF Onboardings!Init, RestTyped

LEMMA RestStep == Funded /\ RestTyped /\ [Onboardings!Next]_(Onboardings!vars) => RestTyped'
<1> SUFFICES ASSUME Funded, RestTyped, [Onboardings!Next]_(Onboardings!vars) PROVE RestTyped'
    OBVIOUS
<1> USE DEF RestTyped
<1>t. /\ lookup \in [Onboardings!Fetcher -> Onboardings!Lookup]
      /\ Background \in Onboardings!Fetcher
      /\ \A c \in Client : c \in Onboardings!Fetcher /\ c # Background
    BY ClientAssumption DEF Funded, LookupsTyped, Onboardings!Fetcher
<1>1. ASSUME NEW k \in Replicator, Onboardings!SaveKey(k) PROVE RestTyped'
    BY <1>1 DEF Onboardings!SaveKey, Onboardings!chainVars, Onboardings!cacheVars
<1>2. ASSUME NEW k \in Replicator, Onboardings!ChangeFunds(k) PROVE RestTyped'
    BY <1>2 DEF Onboardings!ChangeFunds, Onboardings!cacheVars, Funded, LookupsTyped
<1>3. CASE Onboardings!ThirtySecondsPass
    BY <1>3 DEF Onboardings!ThirtySecondsPass, Onboardings!chainVars
<1>4. ASSUME NEW c \in Client, NEW why \in {"status", "onboard"}, Onboardings!Begin(c, why)
      PROVE RestTyped'
    <2>1. lookup'[Background] = lookup[Background]
        BY <1>t, <1>4 DEF Onboardings!Begin
    <2> QED BY <1>4, <2>1 DEF Onboardings!Begin, Onboardings!chainVars, Onboardings!cacheVars
<1>5. ASSUME NEW c \in Client, Onboardings!CheckOnChainAccount(c) PROVE RestTyped'
    <2> DEFINE k == lookup[c].key
               refresh == Onboardings!HasCached(k) /\ lastScan = "old" /\ ~fetching
               judged == IF Onboardings!HasCached(k) THEN Onboardings!Judge(c, account.paid)
                         ELSE [lookup EXCEPT ![c].pc = "fetch"]
    <2>1. /\ fetching' = (fetching \/ refresh)
          /\ lookup' = IF refresh
                       THEN [judged EXCEPT ![Background] = [Onboardings!Resting EXCEPT !.pc = "fetch", !.key = k]]
                       ELSE judged
          /\ UNCHANGED <<Onboardings!chainVars, Onboardings!cacheVars, announced, losses>>
        BY <1>5 DEF Onboardings!CheckOnChainAccount
    <2>2. DOMAIN judged = Onboardings!Fetcher /\ judged[Background] = lookup[Background]
        BY <1>t DEF Onboardings!Judge
    <2> HIDE DEF judged, refresh
    <2>3. fetching' <=> lookup'[Background].pc = "fetch"
        <3>1. CASE refresh
            <4>1. lookup'[Background] = [Onboardings!Resting EXCEPT !.pc = "fetch", !.key = k]
                BY <1>t, <2>1, <2>2, <3>1
            <4>2. lookup'[Background].pc = "fetch"
                BY <4>1 DEF Onboardings!Resting
            <4> QED BY <2>1, <3>1, <4>2
        <3>2. CASE ~refresh
            BY <2>1, <2>2, <3>2
        <3> QED BY <3>1, <3>2
    <2>4. fetching' \in BOOLEAN
        BY <2>1 DEF refresh
    <2> QED BY <2>1, <2>3, <2>4 DEF Onboardings!chainVars, Onboardings!cacheVars
<1>6. ASSUME NEW c \in Client, Onboardings!Announce(c) PROVE RestTyped'
    <2>1. lookup[c].key \in Replicator
        BY <1>6, <1>t DEF Onboardings!Announce, Funded, SeenFunded
    <2>2. announced' \subseteq announced \cup {lookup[c].key}
        BY <1>6 DEF Onboardings!Announce
    <2>3. losses' \in 0..MaxLosses
        <3>1. losses' = losses \/ (losses < MaxLosses /\ losses' = losses + 1)
            BY <1>6 DEF Onboardings!Announce
        <3> QED BY <3>1, ClientAssumption 
    <2>4. lookup'[Background] = lookup[Background]
        <3>1. \/ lookup' = [lookup EXCEPT ![c].pc = "poll"] \/ lookup' = lookup
              \/ lookup' = [lookup EXCEPT ![c] = Onboardings!Resting]
            BY <1>6 DEF Onboardings!Announce
        <3> QED BY <1>t, <3>1
    <2> QED BY <1>6, <2>1, <2>2, <2>3, <2>4
               DEF Onboardings!Announce, Onboardings!chainVars, Onboardings!cacheVars
<1>7. ASSUME NEW c \in Client, Onboardings!PollStatus(c) PROVE RestTyped'
    <2>1. lookup'[Background] = lookup[Background]
        BY <1>t, <1>7 DEF Onboardings!PollStatus
    <2> QED BY <1>7, <2>1 DEF Onboardings!PollStatus, Onboardings!chainVars, Onboardings!cacheVars
<1>8. ASSUME NEW f \in Onboardings!Fetcher, Onboardings!FetchOnChainAccount(f) PROVE RestTyped'
    <2>1. /\ UNCHANGED <<Onboardings!chainVars, announced, losses>>
          /\ lastScan' \in {lastScan, "fresh"} /\ fetching' = (fetching /\ f # Background)
        BY <1>8 DEF Onboardings!FetchOnChainAccount, Onboardings!cacheVars
    <2>2. PICK found \in BOOLEAN :
             lookup' = IF f = Background THEN [lookup EXCEPT ![f] = Onboardings!Resting]
                       ELSE Onboardings!Judge(f, found)
        BY <1>8 DEF Onboardings!FetchOnChainAccount
    <2>3. CASE f = Background
        <3>1. lookup'[Background] = Onboardings!Resting
            BY <1>t, <2>2, <2>3
        <3>2. lookup'[Background].pc # "fetch"
            BY <3>1 DEF Onboardings!Resting
        <3> QED BY <2>1, <2>3, <3>2 DEF Onboardings!chainVars
    <2>4. CASE f # Background
        <3>1. lookup'[Background] = lookup[Background]
            BY <1>t, <2>2, <2>4 DEF Onboardings!Judge
        <3> QED BY <2>1, <2>4, <3>1 DEF Onboardings!chainVars
    <2> QED BY <2>3, <2>4
<1>9. CASE UNCHANGED Onboardings!vars
    BY <1>9 DEF Onboardings!vars
<1> QED BY <1>1, <1>2, <1>3, <1>4, <1>5, <1>6, <1>7, <1>8, <1>9 DEF Onboardings!Next

(* Every variable keeps its type, and what is announced was funded. *)
OnboardingInv == Funded /\ RestTyped

LEMMA InitOnboarding == Onboardings!Init => OnboardingInv
BY InitFunded, InitRest DEF OnboardingInv

LEMMA StepOnboarding == OnboardingInv /\ [Onboardings!Next]_(Onboardings!vars) => OnboardingInv'
BY FundedStep, RestStep DEF OnboardingInv

LEMMA OnboardingHolds == OnboardingInv => Onboardings!OnboardingIsFunded /\ Onboardings!TypeOK
BY DEF OnboardingInv, Funded, LookupsTyped, RestTyped, Onboardings!TypeOK
-----------------------------------------------------------------------------
(* The watchdog.  How long a recovery may already be due is bounded by     *)
(* what the watchdog remembers: the ages of its last restart and of the    *)
(* advance it last saw, with one round of its loop for what it has still   *)
(* to see.                                                                 *)

(* What was read from the chain is not above it, until it is set back.      *)
ReadsBelow == ~setBack => observed <= localHeight /\ dog.local <= localHeight

(* The age of the advance that was noted is that of an advance.             *)
AgeIsTrue == ~setBack /\ observed = localHeight => age.advance <= still

(* A recovery is called for while the node is due.                          *)
PendingIsDue ==
    /\ pending > 0 => Watches!Due /\ dog.pc # "restart"
    /\ age.start < Grace => pending <= age.start
    /\ age.stall < Cooldown => pending <= age.stall

(* The time that may pass before the watchdog has to tick.                  *)
Slack == IF dog.ticked THEN 1 ELSE 0

(* The height was read in this tick, or it has just changed. *)
ReadIsFresh == dog.pc = "decide" /\ dog.local # localHeight => pending + Slack <= 1

(* Before the last advance is seen, and since. *)
UnseenInTime ==
    observed < localHeight => pending + Slack <= Cooldown + (IF dog.pc = "sleep" THEN 0 ELSE 1)

SeenInTime ==
    observed >= localHeight =>
        /\ age.advance < Patience => pending <= age.advance + Cooldown + 1
        /\ age.advance = Patience =>
             pending + Slack <= Patience + Cooldown + (IF dog.pc = "sleep" THEN 1 ELSE 2)

WatchInv == /\ Watches!TypeOK /\ ReadsBelow /\ AgeIsTrue /\ PendingIsDue /\ ReadIsFresh
        /\ UnseenInTime /\ SeenInTime /\ Watches!RestartMeansStall
LEMMA InitWatch == Watches!Init => WatchInv
<1> SUFFICES ASSUME Watches!Init PROVE WatchInv
    OBVIOUS
<1>1. Watches!TypeOK
    <2>1. age \in [start : 0..Grace, advance : 0..Patience, stall : 0..Cooldown]
        BY TimesAssumption DEF Watches!Init
    <2>2. dog \in [pc : {"sleep", "ask", "decide", "restart"}, local : 0..TopHeight,
                   ticked : BOOLEAN]
        BY TimesAssumption DEF Watches!Init
    <2>3. localHeight \in Watches!Height /\ network \in Watches!Height /\ cachedNet \in 0..network
        BY TimesAssumption DEF Watches!Init, Watches!Height
    <2>4. node \in [up : BOOLEAN, wanted : BOOLEAN, enabled : BOOLEAN]
        BY DEF Watches!Init
    <2>5. observed \in 0..TopHeight /\ still \in 0..Patience /\ pending \in 0..Watches!Overdue
        <3>1. observed = 0 /\ still = 0 /\ pending = 0
            BY DEF Watches!Init
        <3> QED BY <3>1, TimesAssumption DEF Watches!Overdue
    <2>6. setBack \in BOOLEAN
        BY DEF Watches!Init
    <2> QED BY <2>1, <2>2, <2>3, <2>4, <2>5, <2>6 DEF Watches!TypeOK
<1>2. ReadsBelow /\ AgeIsTrue /\ PendingIsDue /\ ReadIsFresh /\ Watches!RestartMeansStall
    BY TimesAssumption
       DEF Watches!Init, ReadsBelow, AgeIsTrue, PendingIsDue, ReadIsFresh,
           Watches!RestartMeansStall, Watches!Due
<1>3. UnseenInTime /\ SeenInTime
    BY TimesAssumption DEF Watches!Init, UnseenInTime, SeenInTime, Slack
<1> QED BY <1>1, <1>2, <1>3 DEF WatchInv

LEMMA OlderType == ASSUME NEW most \in Nat, NEW a \in 0..most
                   PROVE Watches!Older(a, most) \in 0..most
BY DEF Watches!Older

LEMMA WatchTypeStep == Watches!TypeOK /\ [Watches!Next]_(Watches!vars) => Watches!TypeOK'
<1> SUFFICES ASSUME Watches!TypeOK, [Watches!Next]_(Watches!vars) PROVE Watches!TypeOK'
    OBVIOUS
<1> DEFINE Ages == [start : 0..Grace, advance : 0..Patience, stall : 0..Cooldown]
           Dogs == [pc : {"sleep", "ask", "decide", "restart"}, local : 0..TopHeight, ticked : BOOLEAN]
           Nodes == [up : BOOLEAN, wanted : BOOLEAN, enabled : BOOLEAN]
<1>0. /\ age \in Ages /\ dog \in Dogs /\ node \in Nodes
      /\ localHeight \in 1..TopHeight /\ network \in 1..TopHeight /\ cachedNet \in 0..network
      /\ observed \in 0..TopHeight /\ still \in 0..Patience /\ pending \in 0..Watches!Overdue
      /\ setBack \in BOOLEAN /\ Watches!Overdue \in Nat
      /\ 0 \in 0..Grace /\ 0 \in 0..Patience /\ 0 \in 0..Cooldown
      /\ 1..TopHeight \subseteq 0..TopHeight /\ 0 \in 0..TopHeight
    BY TimesAssumption DEF Watches!TypeOK, Watches!Height, Watches!Overdue
<1>1. age' \in Ages
    <2>1. CASE Watches!TimePasses
        BY <2>1, <1>0, OlderType, TimesAssumption DEF Watches!TimePasses
    <2>2. ASSUME NEW n, Watches!Started(n) PROVE age' \in Ages
        BY <2>2, <1>0, TimesAssumption DEF Watches!Started
    <2>3. CASE Watches!Syncs \/ Watches!StallDetected
        <3>1. age' \in {[age EXCEPT !.advance = 0], [age EXCEPT !.advance = 0, !.stall = 0]}
            BY <2>3 DEF Watches!Syncs, Watches!StallDetected
        <3> QED BY <3>1, <1>0
    <2>4. CASE UNCHANGED age
        BY <2>4, <1>0
    <2> QED BY <2>1, <2>2, <2>3, <2>4
               DEF Watches!Next, Watches!vars, Watches!dogVars, Watches!Advance,
                   Watches!NetworkGrows, Watches!PollNetworkHeight, Watches!StartNode,
                   Watches!NodeEnds, Watches!SetAutoRecovery, Watches!SetChainBack,
                   Watches!TickIdle, Watches!TickRestartsEnded, Watches!TickAsks,
                   Watches!HeightsFail, Watches!GetLocalHeight, Watches!NotYet,
                   Watches!RestartNode
<1>2. dog' \in Dogs
    <2>1. CASE Watches!TimePasses
        BY <2>1, <1>0 DEF Watches!TimePasses
    <2>2. ASSUME NEW pc \in {"sleep", "ask"}, Watches!Wake(pc) PROVE dog' \in Dogs
        BY <2>2, <1>0 DEF Watches!Wake
    <2>3. CASE Watches!Sleep
        BY <2>3, <1>0 DEF Watches!Sleep
    <2>4. CASE Watches!GetLocalHeight \/ Watches!StallDetected
        <3>1. localHeight \in 0..TopHeight
            BY <1>0
        <3>2. dog' \in {[dog EXCEPT !.pc = "decide", !.local = localHeight], [dog EXCEPT !.pc = "restart"]}
            BY <2>4 DEF Watches!GetLocalHeight, Watches!StallDetected
        <3> QED BY <3>1, <3>2, <1>0
    <2>5. CASE UNCHANGED dog
        BY <2>5, <1>0
    <2> QED BY <2>1, <2>2, <2>3, <2>4, <2>5
               DEF Watches!Next, Watches!vars, Watches!dogVars, Watches!Advance,
                   Watches!NetworkGrows, Watches!PollNetworkHeight, Watches!StartNode,
                   Watches!NodeEnds, Watches!SetAutoRecovery, Watches!SetChainBack,
                   Watches!TickIdle, Watches!TickRestartsEnded, Watches!TickAsks,
                   Watches!HeightsFail, Watches!Syncs, Watches!NotYet, Watches!RestartNode
<1>3. node' \in Nodes
    <2>1. Watches!Running \in Nodes /\ Watches!Stopped \in Nodes
            /\ [node EXCEPT !.up = FALSE] \in Nodes /\ [node EXCEPT !.enabled = ~@] \in Nodes
        BY <1>0 DEF Watches!Running, Watches!Stopped
    <2>2. node' \in {node, Watches!Running, Watches!Stopped, [node EXCEPT !.up = FALSE], [node EXCEPT !.enabled = ~@]}
        BY
           DEF Watches!Next, Watches!vars, Watches!dogVars, Watches!Started, Watches!TimePasses,
               Watches!Advance, Watches!NetworkGrows, Watches!PollNetworkHeight,
               Watches!StartNode, Watches!NodeEnds, Watches!SetAutoRecovery, Watches!SetChainBack,
               Watches!TickIdle, Watches!TickRestartsEnded, Watches!TickAsks, Watches!HeightsFail,
               Watches!GetLocalHeight, Watches!Syncs, Watches!NotYet, Watches!StallDetected,
               Watches!RestartNode
    <2> QED BY <2>1, <2>2, <1>0
<1>4. localHeight' \in 1..TopHeight /\ network' \in 1..TopHeight /\ cachedNet' \in 0..network'
    <2>1. CASE Watches!Advance \/ Watches!NetworkGrows \/ Watches!PollNetworkHeight
               \/ Watches!SetChainBack
        BY <2>1, <1>0, TimesAssumption
           DEF Watches!Advance, Watches!NetworkGrows, Watches!PollNetworkHeight,
               Watches!SetChainBack
    <2>2. CASE UNCHANGED Watches!chainVars
        BY <2>2, <1>0 DEF Watches!chainVars
    <2> QED BY <2>1, <2>2
               DEF Watches!Next, Watches!vars, Watches!chainVars, Watches!TimePasses,
                   Watches!StartNode, Watches!NodeEnds, Watches!SetAutoRecovery, Watches!TickIdle,
                   Watches!TickRestartsEnded, Watches!TickAsks, Watches!HeightsFail,
                   Watches!GetLocalHeight, Watches!Syncs, Watches!NotYet, Watches!StallDetected,
                   Watches!RestartNode
<1>5. observed' \in 0..TopHeight /\ setBack' \in BOOLEAN
    <2>1. CASE Watches!Syncs \/ Watches!SetChainBack
        BY <2>1, <1>0 DEF Watches!Syncs, Watches!SetChainBack
    <2>2. CASE UNCHANGED <<observed, setBack>>
        BY <2>2, <1>0
    <2> QED BY <2>1, <2>2
               DEF Watches!Next, Watches!vars, Watches!dogVars, Watches!histories,
                   Watches!TimePasses, Watches!Advance, Watches!NetworkGrows,
                   Watches!PollNetworkHeight, Watches!StartNode, Watches!NodeEnds,
                   Watches!SetAutoRecovery, Watches!TickIdle, Watches!TickRestartsEnded,
                   Watches!TickAsks, Watches!HeightsFail, Watches!GetLocalHeight, Watches!NotYet,
                   Watches!StallDetected, Watches!RestartNode
<1>6. still' \in 0..Patience /\ pending' \in 0..Watches!Overdue
    <2>1. CASE Watches!TimePasses
        BY <2>1, <1>0, OlderType, TimesAssumption DEF Watches!TimePasses
    <2>2. CASE still' \in {0, still} /\ pending' \in {0, pending}
        BY <2>2, <1>0, TimesAssumption
    <2> QED BY <2>1, <2>2
               DEF Watches!Next, Watches!vars, Watches!histories, Watches!Started,
                   Watches!Advance, Watches!NetworkGrows, Watches!PollNetworkHeight,
                   Watches!StartNode, Watches!NodeEnds, Watches!SetAutoRecovery,
                   Watches!SetChainBack, Watches!TickIdle, Watches!TickRestartsEnded,
                   Watches!TickAsks, Watches!HeightsFail, Watches!GetLocalHeight, Watches!Syncs,
                   Watches!NotYet, Watches!StallDetected, Watches!RestartNode
<1> QED BY <1>1, <1>2, <1>3, <1>4, <1>5, <1>6 DEF Watches!TypeOK, Watches!Height, Watches!Overdue

LEMMA StepWatch == WatchInv /\ [Watches!Next]_(Watches!vars) => WatchInv'
<1> SUFFICES ASSUME WatchInv, [Watches!Next]_(Watches!vars) PROVE WatchInv'
    OBVIOUS
<1>0. Watches!TypeOK /\ Watches!TypeOK'
    BY WatchTypeStep DEF WatchInv
<1> USE TimesAssumption, <1>0 
<1>1. CASE Watches!TimePasses
    BY <1>1
       DEF WatchInv, Watches!TypeOK, Watches!TimePasses, ReadsBelow, AgeIsTrue, PendingIsDue,
           ReadIsFresh, UnseenInTime, SeenInTime, Watches!RestartMeansStall, Watches!Due,
           Watches!Watched, Slack, Watches!Older, Watches!Overdue, Watches!Started,
           Watches!Running, Watches!Stopped, Watches!Wake, Watches!Sleep, Watches!Patient,
           Watches!Stalled, Watches!Height, Watches!vars, Watches!chainVars, Watches!dogVars,
           Watches!histories
<1>2. CASE Watches!Advance
    BY <1>2
       DEF WatchInv, Watches!TypeOK, Watches!Advance, ReadsBelow, AgeIsTrue, PendingIsDue,
           ReadIsFresh, UnseenInTime, SeenInTime, Watches!RestartMeansStall, Watches!Due,
           Watches!Watched, Slack, Watches!Older, Watches!Overdue, Watches!Started,
           Watches!Running, Watches!Stopped, Watches!Wake, Watches!Sleep, Watches!Patient,
           Watches!Stalled, Watches!Height, Watches!vars, Watches!chainVars, Watches!dogVars,
           Watches!histories
<1>3. CASE Watches!NetworkGrows
    BY <1>3
       DEF WatchInv, Watches!TypeOK, Watches!NetworkGrows, ReadsBelow, AgeIsTrue, PendingIsDue,
           ReadIsFresh, UnseenInTime, SeenInTime, Watches!RestartMeansStall, Watches!Due,
           Watches!Watched, Slack, Watches!Older, Watches!Overdue, Watches!Started,
           Watches!Running, Watches!Stopped, Watches!Wake, Watches!Sleep, Watches!Patient,
           Watches!Stalled, Watches!Height, Watches!vars, Watches!chainVars, Watches!dogVars,
           Watches!histories
<1>4. CASE Watches!PollNetworkHeight
    BY <1>4
       DEF WatchInv, Watches!TypeOK, Watches!PollNetworkHeight, ReadsBelow, AgeIsTrue,
           PendingIsDue, ReadIsFresh, UnseenInTime, SeenInTime, Watches!RestartMeansStall,
           Watches!Due, Watches!Watched, Slack, Watches!Older, Watches!Overdue, Watches!Started,
           Watches!Running, Watches!Stopped, Watches!Wake, Watches!Sleep, Watches!Patient,
           Watches!Stalled, Watches!Height, Watches!vars, Watches!chainVars, Watches!dogVars,
           Watches!histories
<1>5. CASE Watches!StartNode
    BY <1>5
       DEF WatchInv, Watches!TypeOK, Watches!StartNode, ReadsBelow, AgeIsTrue, PendingIsDue,
           ReadIsFresh, UnseenInTime, SeenInTime, Watches!RestartMeansStall, Watches!Due,
           Watches!Watched, Slack, Watches!Older, Watches!Overdue, Watches!Started,
           Watches!Running, Watches!Stopped, Watches!Wake, Watches!Sleep, Watches!Patient,
           Watches!Stalled, Watches!Height, Watches!vars, Watches!chainVars, Watches!dogVars,
           Watches!histories
<1>6. CASE Watches!NodeEnds
    BY <1>6
       DEF WatchInv, Watches!TypeOK, Watches!NodeEnds, ReadsBelow, AgeIsTrue, PendingIsDue,
           ReadIsFresh, UnseenInTime, SeenInTime, Watches!RestartMeansStall, Watches!Due,
           Watches!Watched, Slack, Watches!Older, Watches!Overdue, Watches!Started,
           Watches!Running, Watches!Stopped, Watches!Wake, Watches!Sleep, Watches!Patient,
           Watches!Stalled, Watches!Height, Watches!vars, Watches!chainVars, Watches!dogVars,
           Watches!histories
<1>7. CASE Watches!SetAutoRecovery
    BY <1>7
       DEF WatchInv, Watches!TypeOK, Watches!SetAutoRecovery, ReadsBelow, AgeIsTrue, PendingIsDue,
           ReadIsFresh, UnseenInTime, SeenInTime, Watches!RestartMeansStall, Watches!Due,
           Watches!Watched, Slack, Watches!Older, Watches!Overdue, Watches!Started,
           Watches!Running, Watches!Stopped, Watches!Wake, Watches!Sleep, Watches!Patient,
           Watches!Stalled, Watches!Height, Watches!vars, Watches!chainVars, Watches!dogVars,
           Watches!histories
<1>8. CASE Watches!SetChainBack
    <2>1. ~node.up /\ setBack' = TRUE /\ localHeight' \in Nat /\ localHeight' < localHeight
          /\ UNCHANGED <<network, cachedNet, node, observed, age, dog, still, pending>>
        BY <1>8 DEF Watches!SetChainBack, Watches!TypeOK, Watches!Height
    <2>2. pending = 0 /\ (dog.ticked => Slack = 1) /\ Slack \in 0..1 /\ Slack' = Slack
        BY <2>1 DEF WatchInv, Watches!TypeOK, PendingIsDue, Watches!Due, Slack, Watches!Overdue
    <2> QED BY <2>1, <2>2
               DEF WatchInv, Watches!TypeOK, Watches!Due, Watches!Height, ReadsBelow, AgeIsTrue,
                   PendingIsDue, ReadIsFresh, UnseenInTime, SeenInTime, Watches!RestartMeansStall
<1>9. CASE Watches!TickIdle
    BY <1>9
       DEF WatchInv, Watches!TypeOK, Watches!TickIdle, ReadsBelow, AgeIsTrue, PendingIsDue,
           ReadIsFresh, UnseenInTime, SeenInTime, Watches!RestartMeansStall, Watches!Due,
           Watches!Watched, Slack, Watches!Older, Watches!Overdue, Watches!Started,
           Watches!Running, Watches!Stopped, Watches!Wake, Watches!Sleep, Watches!Patient,
           Watches!Stalled, Watches!Height, Watches!vars, Watches!chainVars, Watches!dogVars,
           Watches!histories
<1>10. CASE Watches!TickRestartsEnded
    BY <1>10
       DEF WatchInv, Watches!TypeOK, Watches!TickRestartsEnded, ReadsBelow, AgeIsTrue,
           PendingIsDue, ReadIsFresh, UnseenInTime, SeenInTime, Watches!RestartMeansStall,
           Watches!Due, Watches!Watched, Slack, Watches!Older, Watches!Overdue, Watches!Started,
           Watches!Running, Watches!Stopped, Watches!Wake, Watches!Sleep, Watches!Patient,
           Watches!Stalled, Watches!Height, Watches!vars, Watches!chainVars, Watches!dogVars,
           Watches!histories
<1>11. CASE Watches!TickAsks
    BY <1>11
       DEF WatchInv, Watches!TypeOK, Watches!TickAsks, ReadsBelow, AgeIsTrue, PendingIsDue,
           ReadIsFresh, UnseenInTime, SeenInTime, Watches!RestartMeansStall, Watches!Due,
           Watches!Watched, Slack, Watches!Older, Watches!Overdue, Watches!Started,
           Watches!Running, Watches!Stopped, Watches!Wake, Watches!Sleep, Watches!Patient,
           Watches!Stalled, Watches!Height, Watches!vars, Watches!chainVars, Watches!dogVars,
           Watches!histories
<1>12. CASE Watches!HeightsFail
    BY <1>12
       DEF WatchInv, Watches!TypeOK, Watches!HeightsFail, ReadsBelow, AgeIsTrue, PendingIsDue,
           ReadIsFresh, UnseenInTime, SeenInTime, Watches!RestartMeansStall, Watches!Due,
           Watches!Watched, Slack, Watches!Older, Watches!Overdue, Watches!Started,
           Watches!Running, Watches!Stopped, Watches!Wake, Watches!Sleep, Watches!Patient,
           Watches!Stalled, Watches!Height, Watches!vars, Watches!chainVars, Watches!dogVars,
           Watches!histories
<1>13. CASE Watches!GetLocalHeight
    BY <1>13
       DEF WatchInv, Watches!TypeOK, Watches!GetLocalHeight, ReadsBelow, AgeIsTrue, PendingIsDue,
           ReadIsFresh, UnseenInTime, SeenInTime, Watches!RestartMeansStall, Watches!Due,
           Watches!Watched, Slack, Watches!Older, Watches!Overdue, Watches!Started,
           Watches!Running, Watches!Stopped, Watches!Wake, Watches!Sleep, Watches!Patient,
           Watches!Stalled, Watches!Height, Watches!vars, Watches!chainVars, Watches!dogVars,
           Watches!histories
<1>14. CASE Watches!Syncs
    BY <1>14
       DEF WatchInv, Watches!TypeOK, Watches!Syncs, ReadsBelow, AgeIsTrue, PendingIsDue,
           ReadIsFresh, UnseenInTime, SeenInTime, Watches!RestartMeansStall, Watches!Due,
           Watches!Watched, Slack, Watches!Older, Watches!Overdue, Watches!Started,
           Watches!Running, Watches!Stopped, Watches!Wake, Watches!Sleep, Watches!Patient,
           Watches!Stalled, Watches!Height, Watches!vars, Watches!chainVars, Watches!dogVars,
           Watches!histories
<1>15. CASE Watches!NotYet
    BY <1>15
       DEF WatchInv, Watches!TypeOK, Watches!NotYet, ReadsBelow, AgeIsTrue, PendingIsDue,
           ReadIsFresh, UnseenInTime, SeenInTime, Watches!RestartMeansStall, Watches!Due,
           Watches!Watched, Slack, Watches!Older, Watches!Overdue, Watches!Started,
           Watches!Running, Watches!Stopped, Watches!Wake, Watches!Sleep, Watches!Patient,
           Watches!Stalled, Watches!Height, Watches!vars, Watches!chainVars, Watches!dogVars,
           Watches!histories
<1>16. CASE Watches!StallDetected
    BY <1>16
       DEF WatchInv, Watches!TypeOK, Watches!StallDetected, ReadsBelow, AgeIsTrue, PendingIsDue,
           ReadIsFresh, UnseenInTime, SeenInTime, Watches!RestartMeansStall, Watches!Due,
           Watches!Watched, Slack, Watches!Older, Watches!Overdue, Watches!Started,
           Watches!Running, Watches!Stopped, Watches!Wake, Watches!Sleep, Watches!Patient,
           Watches!Stalled, Watches!Height, Watches!vars, Watches!chainVars, Watches!dogVars,
           Watches!histories
<1>17. CASE Watches!RestartNode
    BY <1>17
       DEF WatchInv, Watches!TypeOK, Watches!RestartNode, ReadsBelow, AgeIsTrue, PendingIsDue,
           ReadIsFresh, UnseenInTime, SeenInTime, Watches!RestartMeansStall, Watches!Due,
           Watches!Watched, Slack, Watches!Older, Watches!Overdue, Watches!Started,
           Watches!Running, Watches!Stopped, Watches!Wake, Watches!Sleep, Watches!Patient,
           Watches!Stalled, Watches!Height, Watches!vars, Watches!chainVars, Watches!dogVars,
           Watches!histories
<1>20. CASE UNCHANGED Watches!vars
    BY <1>20
       DEF WatchInv, Watches!TypeOK, ReadsBelow, AgeIsTrue, PendingIsDue, ReadIsFresh,
           UnseenInTime, SeenInTime, Watches!RestartMeansStall, Watches!vars, Watches!Due,
           Watches!Watched, Slack
<1> QED BY <1>1, <1>2, <1>3, <1>4, <1>5, <1>6, <1>7, <1>8, <1>9, <1>10, <1>11, <1>12, <1>13,
           <1>14, <1>15, <1>16, <1>17, <1>20
           DEF Watches!Next

LEMMA StallsAreMet == WatchInv => Watches!RestartMeansStall /\ Watches!StallMeansRestart
<1> SUFFICES ASSUME WatchInv PROVE Watches!StallMeansRestart
    BY DEF WatchInv
<1>1. Watches!TypeOK /\ UnseenInTime /\ SeenInTime
    BY DEF WatchInv
<1>2. /\ observed \in 0..TopHeight /\ localHeight \in 1..TopHeight /\ pending \in 0..Watches!Overdue
      /\ age.advance \in 0..Patience
    BY <1>1 DEF Watches!TypeOK, Watches!Height
<1>3. CASE observed < localHeight
    BY <1>1, <1>2, <1>3, TimesAssumption
       DEF UnseenInTime, Slack, Watches!StallMeansRestart, Watches!Overdue
<1>4. CASE observed >= localHeight
    BY <1>1, <1>2, <1>4, TimesAssumption
       DEF SeenInTime, Slack, Watches!StallMeansRestart, Watches!Overdue
<1> QED BY <1>2, <1>3, <1>4, TimesAssumption
-----------------------------------------------------------------------------
(* The engine under Windows.  One half of the invariant says who holds     *)
(* which lock and that a start is alone, unless its pgrep has failed; the  *)
(* other that, until something was killed, left behind or lost sight of,   *)
(* every live engine has its wrapper and its reaper, so that none is alive *)
(* once the stop has seen them go.                                         *)

(* Where a start holds its lock, where a stop does, from where on it has    *)
(* told the engine to end, and from where on it has seen it gone.           *)
StartingAt == {"prepare", "wipe", "recover", "spawn"}
StoppingAt == {"begin", "signal", "poll", "join", "finish", "clear", "reconcile"}
AfterSignal == {"signal", "poll", "join", "finish", "clear", "reconcile", "mutate"}
Signalled == {"join", "finish", "clear", "reconcile", "mutate"}

(* Who holds which lock, and who has set the flag that keeps starts out.    *)
LocksHaveHolders ==
    /\ \A c \in Caller : hostMu = c <=> call[c] \in StartingAt
    /\ \A c \in Caller : quitMu = c <=> call[c] \in StoppingAt
    /\ flags.stopping => \E c \in Caller : call[c] \in {"signal", "poll", "join", "finish"}

(* There is one engine, and none while a start is under way, unless a start *)
(* did not see the one that lives.                                          *)
AloneWhileStarting ==
    "unseen" \notin mishaps =>
        /\ \A g, h \in Engines!Alive : g = h
        /\ hostMu # NoCaller => Engines!Alive = {}

(* A start that does not overlap a stop overlaps no change of the data, and *)
(* no reaper of an earlier engine.                                          *)
NoOverlap ==
    mishaps \cap {"overlap", "unseen"} = {} =>
        /\ \A b, c \in Caller : ~(call[b] \in StartingAt /\ call[c] \in AfterSignal)
        /\ \A g, h \in Guest : reaper[g] # "none" /\ reaper[h] # "none" => g = h
        /\ hostMu # NoCaller => \A g \in Guest : reaper[g] = "none"

(* Until one was killed, left behind, lost sight of or overlapped, every    *)
(* live engine has its wrapper and its reaper, and none is alive once a     *)
(* stop has seen it go.                                                     *)
EveryEngineIsKnown ==
    mishaps \cap {"overlap", "killed", "orphan", "lost", "unseen"} = {} =>
        /\ \A g \in Engines!Alive : g \in wrapper /\ reaper[g] = "wait" /\ flags.running
        /\ \A c \in Caller : call[c] \in Signalled => Engines!Alive = {}

(* A chain that was synchronised is whole, and nothing is writing a seed or *)
(* removing its state.                                                      *)
NothingTakesTheChain ==
    synced /\ mishaps \cap {"raced", "unread", "unseen"} = {} =>
        /\ index = 2 /\ stateDb = 2 /\ script = "idle"
        /\ \A c \in Caller : call[c] # "wipe"

EngineInv ==
    /\ Engines!TypeOK /\ LocksHaveHolders /\ AloneWhileStarting /\ NoOverlap
    /\ EveryEngineIsKnown /\ NothingTakesTheChain

LEMMA InitEngine == Engines!Init => EngineInv
<1> SUFFICES ASSUME Engines!Init PROVE EngineInv
    OBVIOUS
<1>1. Engines!TypeOK
    <2>1. /\ {hostMu, quitMu} \subseteq Caller \cup {NoCaller} /\ flags \in Engines!Flags
          /\ call \in [Caller -> Engines!Steps] /\ script \in {"idle", "write"}
          /\ guest \in [Guest -> {"down", "up"}]
        BY DEF Engines!Init, Engines!Flags, Engines!Steps
    <2>2. /\ wrapper \subseteq Guest /\ reaper \in [Guest -> {"none", "wait", "reap"}]
          /\ synced \in BOOLEAN /\ mishaps \subseteq Engines!Mishap \cup {"overlap", "raced", "unseen"}
        BY DEF Engines!Init
    <2>3. index \in 0..2 /\ stateDb \in 0..2 /\ exits \in 0..MaxExits
        BY EngineAssumption DEF Engines!Init
    <2> QED BY <2>1, <2>2, <2>3 DEF Engines!TypeOK
<1>2. LocksHaveHolders
    BY EngineAssumption DEF Engines!Init, LocksHaveHolders, StartingAt, StoppingAt
<1>3. AloneWhileStarting
    BY EngineAssumption DEF Engines!Init, AloneWhileStarting, Engines!Alive
<1>4. NoOverlap
    BY EngineAssumption DEF Engines!Init, NoOverlap, StartingAt, AfterSignal
<1>5. EveryEngineIsKnown
    BY EngineAssumption DEF Engines!Init, EveryEngineIsKnown, Engines!Alive, Signalled
<1>6. NothingTakesTheChain
    BY EngineAssumption DEF Engines!Init, NothingTakesTheChain
<1> QED BY <1>1, <1>2, <1>3, <1>4, <1>5, <1>6 DEF EngineInv

LEMMA StepEngine == EngineInv /\ [Engines!Next]_(Engines!vars) => EngineInv'
<1> SUFFICES ASSUME EngineInv, [Engines!Next]_(Engines!vars) PROVE EngineInv'
    OBVIOUS
<1> USE EngineAssumption DEF EngineInv, Engines!At, Engines!Goto, Engines!Return,
   Engines!lockVars, Engines!processVars, Engines!chainVars, Engines!TypeOK, Engines!Flags,
   Engines!Steps, Engines!Mishap, Engines!MayHappen, Engines!Happens, Engines!Unseen,
   Engines!MayBeUnseen
<1>1. ASSUME NEW c \in Caller, NEW pc \in {"start", "stop"}, Engines!Request(c, pc)
      PROVE EngineInv'
    <2>1. Engines!TypeOK'
        BY <1>1 DEF Engines!Request
    <2>2. LocksHaveHolders'
        BY <1>1 DEF Engines!Request, LocksHaveHolders, StartingAt, StoppingAt
    <2>3. AloneWhileStarting'
        BY <1>1
           DEF Engines!Request, AloneWhileStarting, Engines!Alive, LocksHaveHolders, StartingAt,
               StoppingAt
    <2>4. NoOverlap'
        BY <1>1
           DEF Engines!Request, NoOverlap, StartingAt, AfterSignal, LocksHaveHolders, StoppingAt
    <2>5. EveryEngineIsKnown'
        BY <1>1
           DEF Engines!Request, EveryEngineIsKnown, Engines!Alive, Signalled, LocksHaveHolders,
               NoOverlap, AloneWhileStarting, StartingAt, StoppingAt, AfterSignal
    <2>6. NothingTakesTheChain'
        BY <1>1 DEF Engines!Request, NothingTakesTheChain
    <2> QED BY <2>1, <2>2, <2>3, <2>4, <2>5, <2>6
<1>2. ASSUME NEW c \in Caller, Engines!StartRefused(c) PROVE EngineInv'
    <2>1. Engines!TypeOK'
        BY <1>2 DEF Engines!StartRefused
    <2>2. LocksHaveHolders'
        BY <1>2 DEF Engines!StartRefused, LocksHaveHolders, StartingAt, StoppingAt
    <2>3. AloneWhileStarting'
        BY <1>2
           DEF Engines!StartRefused, AloneWhileStarting, Engines!Alive, LocksHaveHolders,
               StartingAt, StoppingAt
    <2>4. NoOverlap'
        BY <1>2
           DEF Engines!StartRefused, NoOverlap, StartingAt, AfterSignal, LocksHaveHolders,
               StoppingAt
    <2>5. EveryEngineIsKnown'
        BY <1>2
           DEF Engines!StartRefused, EveryEngineIsKnown, Engines!Alive, Signalled,
               LocksHaveHolders, NoOverlap, AloneWhileStarting, StartingAt, StoppingAt,
               AfterSignal
    <2>6. NothingTakesTheChain'
        BY <1>2 DEF Engines!StartRefused, NothingTakesTheChain
    <2> QED BY <2>1, <2>2, <2>3, <2>4, <2>5, <2>6
<1>3. ASSUME NEW c \in Caller, Engines!StartNode(c) PROVE EngineInv'
    <2>1. Engines!TypeOK'
        <3>1. {hostMu, quitMu}' \subseteq Caller \cup {NoCaller}
            BY <1>3 DEF Engines!StartNode
        <3>0. flags' \in Engines!Flags
            <4>1. flags' \in {flags, [flags EXCEPT !.running = TRUE]} /\ flags \in Engines!Flags
                BY <1>3 DEF Engines!StartNode
            <4> QED BY <4>1
        <3>2. call' \in [Caller -> Engines!Steps]
                /\ mishaps' \subseteq Engines!Mishap \cup {"overlap", "raced", "unseen"}
            BY <1>3 DEF Engines!StartNode
        <3>3. UNCHANGED <<quitMu, Engines!processVars, Engines!chainVars, exits>>
            BY <1>3 DEF Engines!StartNode
        <3> QED BY <3>0, <3>1, <3>2, <3>3
    <2>2. LocksHaveHolders'
        BY <1>3
           DEF Engines!StartNode, Engines!EngineDetected, Engines!Overlaps, Engines!Pgrep,
               Engines!Alive, LocksHaveHolders, StartingAt, StoppingAt
    <2>3. AloneWhileStarting'
        BY <1>3
           DEF Engines!StartNode, Engines!EngineDetected, Engines!Overlaps, Engines!Pgrep,
               Engines!Alive, AloneWhileStarting, LocksHaveHolders, StartingAt, StoppingAt
    <2>4. NoOverlap'
        BY <1>3
           DEF Engines!StartNode, Engines!EngineDetected, Engines!Overlaps, Engines!Pgrep,
               Engines!Alive, NoOverlap, StartingAt, AfterSignal, LocksHaveHolders, StoppingAt
    <2>5. EveryEngineIsKnown'
        BY <1>3
           DEF Engines!StartNode, Engines!EngineDetected, Engines!Overlaps, Engines!Pgrep,
               Engines!Alive, EveryEngineIsKnown, Signalled, LocksHaveHolders, NoOverlap,
               AloneWhileStarting, StartingAt, StoppingAt, AfterSignal
    <2>6. NothingTakesTheChain'
        BY <1>3
           DEF Engines!StartNode, Engines!EngineDetected, Engines!Overlaps, Engines!Pgrep,
               Engines!Alive, NothingTakesTheChain
    <2> QED BY <2>1, <2>2, <2>3, <2>4, <2>5, <2>6
<1>4. ASSUME NEW c \in Caller, Engines!StartFails(c) PROVE EngineInv'
    <2>1. Engines!TypeOK'
        BY <1>4 DEF Engines!StartFails
    <2>2. LocksHaveHolders'
        BY <1>4 DEF Engines!StartFails, LocksHaveHolders, StartingAt, StoppingAt
    <2>3. AloneWhileStarting'
        BY <1>4
           DEF Engines!StartFails, AloneWhileStarting, Engines!Alive, LocksHaveHolders,
               StartingAt, StoppingAt
    <2>4. NoOverlap'
        BY <1>4
           DEF Engines!StartFails, NoOverlap, StartingAt, AfterSignal, LocksHaveHolders,
               StoppingAt
    <2>5. EveryEngineIsKnown'
        BY <1>4
           DEF Engines!StartFails, EveryEngineIsKnown, Engines!Alive, Signalled, LocksHaveHolders,
               NoOverlap, AloneWhileStarting, StartingAt, StoppingAt, AfterSignal
    <2>6. NothingTakesTheChain'
        BY <1>4 DEF Engines!StartFails, NothingTakesTheChain
    <2> QED BY <2>1, <2>2, <2>3, <2>4, <2>5, <2>6
<1>5. ASSUME NEW c \in Caller, Engines!PrepareData(c) PROVE EngineInv'
    <2>1. Engines!TypeOK'
        BY <1>5 DEF Engines!PrepareData
    <2>2. LocksHaveHolders'
        BY <1>5 DEF Engines!PrepareData, LocksHaveHolders, StartingAt, StoppingAt
    <2>3. AloneWhileStarting'
        BY <1>5
           DEF Engines!PrepareData, AloneWhileStarting, Engines!Alive, LocksHaveHolders,
               StartingAt, StoppingAt
    <2>4. NoOverlap'
        BY <1>5
           DEF Engines!PrepareData, NoOverlap, StartingAt, AfterSignal, LocksHaveHolders,
               StoppingAt
    <2>5. EveryEngineIsKnown'
        BY <1>5
           DEF Engines!PrepareData, EveryEngineIsKnown, Engines!Alive, Signalled,
               LocksHaveHolders, NoOverlap, AloneWhileStarting, StartingAt, StoppingAt,
               AfterSignal
    <2>6. NothingTakesTheChain'
        BY <1>5 DEF Engines!PrepareData, NothingTakesTheChain
    <2> QED BY <2>1, <2>2, <2>3, <2>4, <2>5, <2>6
<1>6. ASSUME NEW c \in Caller, Engines!StartRecovered(c) PROVE EngineInv'
    <2>1. Engines!TypeOK'
        BY <1>6 DEF Engines!StartRecovered
    <2>2. LocksHaveHolders'
        BY <1>6 DEF Engines!StartRecovered, LocksHaveHolders, StartingAt, StoppingAt
    <2>3. AloneWhileStarting'
        BY <1>6
           DEF Engines!StartRecovered, AloneWhileStarting, Engines!Alive, LocksHaveHolders,
               StartingAt, StoppingAt
    <2>4. NoOverlap'
        BY <1>6
           DEF Engines!StartRecovered, NoOverlap, StartingAt, AfterSignal, LocksHaveHolders,
               StoppingAt
    <2>5. EveryEngineIsKnown'
        BY <1>6
           DEF Engines!StartRecovered, EveryEngineIsKnown, Engines!Alive, Signalled,
               LocksHaveHolders, NoOverlap, AloneWhileStarting, StartingAt, StoppingAt,
               AfterSignal
    <2>6. NothingTakesTheChain'
        BY <1>6 DEF Engines!StartRecovered, NothingTakesTheChain
    <2> QED BY <2>1, <2>2, <2>3, <2>4, <2>5, <2>6
<1>7. ASSUME NEW c \in Caller, Engines!Spawn(c) PROVE EngineInv'
    <2>1. Engines!TypeOK'
        BY <1>7 DEF Engines!Spawn
    <2>2. LocksHaveHolders'
        BY <1>7 DEF Engines!Spawn, LocksHaveHolders, StartingAt, StoppingAt
    <2>3. AloneWhileStarting'
        BY <1>7
           DEF Engines!Spawn, AloneWhileStarting, Engines!Alive, LocksHaveHolders, StartingAt,
               StoppingAt
    <2>4. NoOverlap'
        BY <1>7
           DEF Engines!Spawn, NoOverlap, StartingAt, AfterSignal, LocksHaveHolders, StoppingAt
    <2>5. EveryEngineIsKnown'
        BY <1>7
           DEF Engines!Spawn, EveryEngineIsKnown, Engines!Alive, Signalled, LocksHaveHolders,
               NoOverlap, AloneWhileStarting, StartingAt, StoppingAt, AfterSignal
    <2>6. NothingTakesTheChain'
        BY <1>7 DEF Engines!Spawn, NothingTakesTheChain
    <2> QED BY <2>1, <2>2, <2>3, <2>4, <2>5, <2>6
<1>8. ASSUME NEW c \in Caller, Engines!StopNode(c) PROVE EngineInv'
    <2>1. Engines!TypeOK'
        BY <1>8 DEF Engines!StopNode
    <2>2. LocksHaveHolders'
        BY <1>8 DEF Engines!StopNode, LocksHaveHolders, StartingAt, StoppingAt
    <2>3. AloneWhileStarting'
        BY <1>8
           DEF Engines!StopNode, AloneWhileStarting, Engines!Alive, LocksHaveHolders, StartingAt,
               StoppingAt
    <2>4. NoOverlap'
        BY <1>8
           DEF Engines!StopNode, NoOverlap, StartingAt, AfterSignal, LocksHaveHolders, StoppingAt
    <2>5. EveryEngineIsKnown'
        BY <1>8
           DEF Engines!StopNode, EveryEngineIsKnown, Engines!Alive, Signalled, LocksHaveHolders,
               NoOverlap, AloneWhileStarting, StartingAt, StoppingAt, AfterSignal
    <2>6. NothingTakesTheChain'
        BY <1>8 DEF Engines!StopNode, NothingTakesTheChain
    <2> QED BY <2>1, <2>2, <2>3, <2>4, <2>5, <2>6
<1>9. ASSUME NEW c \in Caller, Engines!StopNothing(c) PROVE EngineInv'
    <2>1. Engines!TypeOK'
        BY <1>9 DEF Engines!StopNothing, Engines!AfterStop
    <2>2. LocksHaveHolders'
        BY <1>9
           DEF Engines!StopNothing, Engines!AfterStop, LocksHaveHolders, StartingAt, StoppingAt
    <2>3. AloneWhileStarting'
        BY <1>9
           DEF Engines!StopNothing, Engines!AfterStop, AloneWhileStarting, Engines!Alive,
               LocksHaveHolders, StartingAt, StoppingAt
    <2>4. NoOverlap'
        BY <1>9
           DEF Engines!StopNothing, Engines!AfterStop, NoOverlap, StartingAt, AfterSignal,
               LocksHaveHolders, StoppingAt
    <2>5. EveryEngineIsKnown'
        BY <1>9
           DEF Engines!StopNothing, Engines!AfterStop, EveryEngineIsKnown, Engines!Alive,
               Signalled, LocksHaveHolders, NoOverlap, AloneWhileStarting, StartingAt, StoppingAt,
               AfterSignal
    <2>6. NothingTakesTheChain'
        BY <1>9 DEF Engines!StopNothing, Engines!AfterStop, NothingTakesTheChain
    <2> QED BY <2>1, <2>2, <2>3, <2>4, <2>5, <2>6
<1>10. ASSUME NEW c \in Caller, Engines!StopBegin(c) PROVE EngineInv'
    <2>1. Engines!TypeOK'
        BY <1>10 DEF Engines!StopBegin
    <2>2. LocksHaveHolders'
        BY <1>10 DEF Engines!StopBegin, LocksHaveHolders, StartingAt, StoppingAt
    <2>3. AloneWhileStarting'
        BY <1>10
           DEF Engines!StopBegin, AloneWhileStarting, Engines!Alive, LocksHaveHolders, StartingAt,
               StoppingAt
    <2>4. NoOverlap'
        BY <1>10
           DEF Engines!StopBegin, NoOverlap, StartingAt, AfterSignal, LocksHaveHolders, StoppingAt
    <2>5. EveryEngineIsKnown'
        BY <1>10
           DEF Engines!StopBegin, EveryEngineIsKnown, Engines!Alive, Signalled, LocksHaveHolders,
               NoOverlap, AloneWhileStarting, StartingAt, StoppingAt, AfterSignal
    <2>6. NothingTakesTheChain'
        BY <1>10 DEF Engines!StopBegin, NothingTakesTheChain
    <2> QED BY <2>1, <2>2, <2>3, <2>4, <2>5, <2>6
<1>11. ASSUME NEW c \in Caller, Engines!StopSignals(c) PROVE EngineInv'
    <2>1. Engines!TypeOK'
        BY <1>11 DEF Engines!StopSignals, Engines!Alive
    <2>2. LocksHaveHolders'
        BY <1>11 DEF Engines!StopSignals, Engines!Alive, LocksHaveHolders, StartingAt, StoppingAt
    <2>3. AloneWhileStarting'
        BY <1>11
           DEF Engines!StopSignals, Engines!Alive, AloneWhileStarting, LocksHaveHolders,
               StartingAt, StoppingAt
    <2>4. NoOverlap'
        BY <1>11
           DEF Engines!StopSignals, Engines!Alive, NoOverlap, StartingAt, AfterSignal,
               LocksHaveHolders, StoppingAt
    <2>5. EveryEngineIsKnown'
        BY <1>11
           DEF Engines!StopSignals, Engines!Alive, EveryEngineIsKnown, Signalled,
               LocksHaveHolders, NoOverlap, AloneWhileStarting, StartingAt, StoppingAt,
               AfterSignal
    <2>6. NothingTakesTheChain'
        BY <1>11 DEF Engines!StopSignals, Engines!Alive, NothingTakesTheChain
    <2> QED BY <2>1, <2>2, <2>3, <2>4, <2>5, <2>6
<1>12. ASSUME NEW c \in Caller, Engines!StopSeesNone(c) PROVE EngineInv'
    <2>1. Engines!TypeOK'
        BY <1>12 DEF Engines!StopSeesNone, Engines!Pgrep, Engines!Alive
    <2>2. LocksHaveHolders'
        BY <1>12
           DEF Engines!StopSeesNone, Engines!Pgrep, Engines!Alive, LocksHaveHolders, StartingAt,
               StoppingAt
    <2>3. AloneWhileStarting'
        BY <1>12
           DEF Engines!StopSeesNone, Engines!Pgrep, Engines!Alive, AloneWhileStarting,
               LocksHaveHolders, StartingAt, StoppingAt
    <2>4. NoOverlap'
        BY <1>12
           DEF Engines!StopSeesNone, Engines!Pgrep, Engines!Alive, NoOverlap, StartingAt,
               AfterSignal, LocksHaveHolders, StoppingAt
    <2>5. EveryEngineIsKnown'
        BY <1>12
           DEF Engines!StopSeesNone, Engines!Pgrep, Engines!Alive, EveryEngineIsKnown, Signalled,
               LocksHaveHolders, NoOverlap, AloneWhileStarting, StartingAt, StoppingAt,
               AfterSignal
    <2>6. NothingTakesTheChain'
        BY <1>12 DEF Engines!StopSeesNone, Engines!Pgrep, Engines!Alive, NothingTakesTheChain
    <2> QED BY <2>1, <2>2, <2>3, <2>4, <2>5, <2>6
<1>13. ASSUME NEW c \in Caller, Engines!StopKills(c) PROVE EngineInv'
    <2>1. Engines!TypeOK'
        BY <1>13 DEF Engines!StopKills, Engines!Pgrep, Engines!Alive
    <2>2. LocksHaveHolders'
        BY <1>13
           DEF Engines!StopKills, Engines!Pgrep, Engines!Alive,
               LocksHaveHolders, StartingAt, StoppingAt
    <2>3. AloneWhileStarting'
        BY <1>13
           DEF Engines!StopKills, Engines!Pgrep, Engines!Alive,
               AloneWhileStarting, LocksHaveHolders, StartingAt, StoppingAt
    <2>4. NoOverlap'
        BY <1>13
           DEF Engines!StopKills, Engines!Pgrep, Engines!Alive, NoOverlap,
               StartingAt, AfterSignal, LocksHaveHolders, StoppingAt
    <2>5. EveryEngineIsKnown'
        BY <1>13
           DEF Engines!StopKills, Engines!Pgrep, Engines!Alive,
               EveryEngineIsKnown, Signalled, LocksHaveHolders, NoOverlap, AloneWhileStarting,
               StartingAt, StoppingAt, AfterSignal
    <2>6. NothingTakesTheChain'
        BY <1>13
           DEF Engines!StopKills, Engines!Pgrep, Engines!Alive,
               NothingTakesTheChain
    <2> QED BY <2>1, <2>2, <2>3, <2>4, <2>5, <2>6
<1>14. ASSUME NEW c \in Caller, Engines!StopJoins(c) PROVE EngineInv'
    <2>1. Engines!TypeOK'
        BY <1>14 DEF Engines!StopJoins
    <2>2. LocksHaveHolders'
        BY <1>14 DEF Engines!StopJoins, LocksHaveHolders, StartingAt, StoppingAt
    <2>3. AloneWhileStarting'
        BY <1>14
           DEF Engines!StopJoins, AloneWhileStarting, Engines!Alive, LocksHaveHolders, StartingAt,
               StoppingAt
    <2>4. NoOverlap'
        BY <1>14
           DEF Engines!StopJoins, NoOverlap, StartingAt, AfterSignal, LocksHaveHolders, StoppingAt
    <2>5. EveryEngineIsKnown'
        BY <1>14
           DEF Engines!StopJoins, EveryEngineIsKnown, Engines!Alive, Signalled, LocksHaveHolders,
               NoOverlap, AloneWhileStarting, StartingAt, StoppingAt, AfterSignal
    <2>6. NothingTakesTheChain'
        BY <1>14 DEF Engines!StopJoins, NothingTakesTheChain
    <2> QED BY <2>1, <2>2, <2>3, <2>4, <2>5, <2>6
<1>15. ASSUME NEW c \in Caller, Engines!StopFinishes(c) PROVE EngineInv'
    <2>1. Engines!TypeOK'
        BY <1>15 DEF Engines!StopFinishes
    <2>2. LocksHaveHolders'
        BY <1>15 DEF Engines!StopFinishes, LocksHaveHolders, StartingAt, StoppingAt
    <2>3. AloneWhileStarting'
        BY <1>15
           DEF Engines!StopFinishes, AloneWhileStarting, Engines!Alive, LocksHaveHolders,
               StartingAt, StoppingAt
    <2>4. NoOverlap'
        BY <1>15
           DEF Engines!StopFinishes, NoOverlap, StartingAt, AfterSignal, LocksHaveHolders,
               StoppingAt
    <2>5. EveryEngineIsKnown'
        BY <1>15
           DEF Engines!StopFinishes, EveryEngineIsKnown, Engines!Alive, Signalled,
               LocksHaveHolders, NoOverlap, AloneWhileStarting, StartingAt, StoppingAt,
               AfterSignal
    <2>6. NothingTakesTheChain'
        BY <1>15 DEF Engines!StopFinishes, NothingTakesTheChain
    <2> QED BY <2>1, <2>2, <2>3, <2>4, <2>5, <2>6
<1>16. ASSUME NEW c \in Caller, Engines!StopClears(c) PROVE EngineInv'
    <2>1. Engines!TypeOK'
        BY <1>16 DEF Engines!StopClears, Engines!AfterStop
    <2>2. LocksHaveHolders'
        BY <1>16
           DEF Engines!StopClears, Engines!AfterStop, LocksHaveHolders, StartingAt, StoppingAt
    <2>3. AloneWhileStarting'
        BY <1>16
           DEF Engines!StopClears, Engines!AfterStop, AloneWhileStarting, Engines!Alive,
               LocksHaveHolders, StartingAt, StoppingAt
    <2>4. NoOverlap'
        BY <1>16
           DEF Engines!StopClears, Engines!AfterStop, NoOverlap, StartingAt, AfterSignal,
               LocksHaveHolders, StoppingAt
    <2>5. EveryEngineIsKnown'
        BY <1>16
           DEF Engines!StopClears, Engines!AfterStop, EveryEngineIsKnown, Engines!Alive,
               Signalled, LocksHaveHolders, NoOverlap, AloneWhileStarting, StartingAt, StoppingAt,
               AfterSignal
    <2>6. NothingTakesTheChain'
        BY <1>16 DEF Engines!StopClears, Engines!AfterStop, NothingTakesTheChain
    <2> QED BY <2>1, <2>2, <2>3, <2>4, <2>5, <2>6
<1>17. ASSUME NEW c \in Caller, Engines!StopReconciled(c) PROVE EngineInv'
    <2>1. Engines!TypeOK'
        BY <1>17 DEF Engines!StopReconciled, Engines!AfterStop
    <2>2. LocksHaveHolders'
        BY <1>17
           DEF Engines!StopReconciled, Engines!AfterStop, LocksHaveHolders, StartingAt, StoppingAt
    <2>3. AloneWhileStarting'
        BY <1>17
           DEF Engines!StopReconciled, Engines!AfterStop, AloneWhileStarting, Engines!Alive,
               LocksHaveHolders, StartingAt, StoppingAt
    <2>4. NoOverlap'
        BY <1>17
           DEF Engines!StopReconciled, Engines!AfterStop, NoOverlap, StartingAt, AfterSignal,
               LocksHaveHolders, StoppingAt
    <2>5. EveryEngineIsKnown'
        BY <1>17
           DEF Engines!StopReconciled, Engines!AfterStop, EveryEngineIsKnown, Engines!Alive,
               Signalled, LocksHaveHolders, NoOverlap, AloneWhileStarting, StartingAt, StoppingAt,
               AfterSignal
    <2>6. NothingTakesTheChain'
        BY <1>17 DEF Engines!StopReconciled, Engines!AfterStop, NothingTakesTheChain
    <2> QED BY <2>1, <2>2, <2>3, <2>4, <2>5, <2>6
<1>18. ASSUME NEW c \in Caller, Engines!ResetChain(c) PROVE EngineInv'
    <2>1. Engines!TypeOK'
        <3>1. call' \in [Caller -> Engines!Steps]
            BY <1>18 DEF Engines!ResetChain
        <3>2. index' \in 0..2 /\ stateDb' \in 0..2
            BY <1>18 DEF Engines!ResetChain
        <3>3. synced' \in BOOLEAN
                /\ UNCHANGED <<Engines!lockVars, flags, Engines!processVars, script, exits, mishaps>>
            BY <1>18 DEF Engines!ResetChain
        <3> QED BY <3>1, <3>2, <3>3
    <2>2. LocksHaveHolders'
        BY <1>18 DEF Engines!ResetChain, LocksHaveHolders, StartingAt, StoppingAt
    <2>3. AloneWhileStarting'
        BY <1>18
           DEF Engines!ResetChain, AloneWhileStarting, Engines!Alive, LocksHaveHolders,
               StartingAt, StoppingAt
    <2>4. NoOverlap'
        BY <1>18
           DEF Engines!ResetChain, NoOverlap, StartingAt, AfterSignal, LocksHaveHolders,
               StoppingAt
    <2>5. EveryEngineIsKnown'
        BY <1>18
           DEF Engines!ResetChain, EveryEngineIsKnown, Engines!Alive, Signalled, LocksHaveHolders,
               NoOverlap, AloneWhileStarting, StartingAt, StoppingAt, AfterSignal
    <2>6. NothingTakesTheChain'
        BY <1>18 DEF Engines!ResetChain, NothingTakesTheChain
    <2> QED BY <2>1, <2>2, <2>3, <2>4, <2>5, <2>6
<1>19. ASSUME NEW g \in Guest, Engines!WrapperReaped(g) PROVE EngineInv'
    <2>1. Engines!TypeOK'
        BY <1>19 DEF Engines!WrapperReaped
    <2>2. LocksHaveHolders'
        BY <1>19 DEF Engines!WrapperReaped, LocksHaveHolders, StartingAt, StoppingAt
    <2>3. AloneWhileStarting'
        BY <1>19
           DEF Engines!WrapperReaped, AloneWhileStarting, Engines!Alive, LocksHaveHolders,
               StartingAt, StoppingAt
    <2>4. NoOverlap'
        BY <1>19
           DEF Engines!WrapperReaped, NoOverlap, StartingAt, AfterSignal, LocksHaveHolders,
               StoppingAt
    <2>5. EveryEngineIsKnown'
        BY <1>19
           DEF Engines!WrapperReaped, EveryEngineIsKnown, Engines!Alive, Signalled,
               LocksHaveHolders, NoOverlap, AloneWhileStarting, StartingAt, StoppingAt,
               AfterSignal
    <2>6. NothingTakesTheChain'
        BY <1>19 DEF Engines!WrapperReaped, NothingTakesTheChain
    <2> QED BY <2>1, <2>2, <2>3, <2>4, <2>5, <2>6
<1>20. ASSUME NEW g \in Guest, Engines!ReaperResets(g) PROVE EngineInv'
    <2>1. Engines!TypeOK'
        BY <1>20 DEF Engines!ReaperResets
    <2>2. LocksHaveHolders'
        BY <1>20 DEF Engines!ReaperResets, LocksHaveHolders, StartingAt, StoppingAt
    <2>3. AloneWhileStarting'
        BY <1>20
           DEF Engines!ReaperResets, AloneWhileStarting, Engines!Alive, LocksHaveHolders,
               StartingAt, StoppingAt
    <2>4. NoOverlap'
        BY <1>20
           DEF Engines!ReaperResets, NoOverlap, StartingAt, AfterSignal, LocksHaveHolders,
               StoppingAt
    <2>5. EveryEngineIsKnown'
        BY <1>20
           DEF Engines!ReaperResets, EveryEngineIsKnown, Engines!Alive, Signalled,
               LocksHaveHolders, NoOverlap, AloneWhileStarting, StartingAt, StoppingAt,
               AfterSignal
    <2>6. NothingTakesTheChain'
        BY <1>20 DEF Engines!ReaperResets, NothingTakesTheChain
    <2> QED BY <2>1, <2>2, <2>3, <2>4, <2>5, <2>6
<1>21. ASSUME NEW g \in Guest, Engines!CommitState(g) PROVE EngineInv'
    <2>1. Engines!TypeOK'
        BY <1>21 DEF Engines!CommitState, Engines!Alive
    <2>2. LocksHaveHolders'
        BY <1>21 DEF Engines!CommitState, Engines!Alive, LocksHaveHolders, StartingAt, StoppingAt
    <2>3. AloneWhileStarting'
        BY <1>21
           DEF Engines!CommitState, Engines!Alive, AloneWhileStarting, LocksHaveHolders,
               StartingAt, StoppingAt
    <2>4. NoOverlap'
        BY <1>21
           DEF Engines!CommitState, Engines!Alive, NoOverlap, StartingAt, AfterSignal,
               LocksHaveHolders, StoppingAt
    <2>5. EveryEngineIsKnown'
        BY <1>21
           DEF Engines!CommitState, Engines!Alive, EveryEngineIsKnown, Signalled,
               LocksHaveHolders, NoOverlap, AloneWhileStarting, StartingAt, StoppingAt,
               AfterSignal
    <2>6. NothingTakesTheChain'
        BY <1>21 DEF Engines!CommitState, Engines!Alive, NothingTakesTheChain
    <2> QED BY <2>1, <2>2, <2>3, <2>4, <2>5, <2>6
<1>22. ASSUME NEW g \in Guest, Engines!CommitIndex(g) PROVE EngineInv'
    <2>1. Engines!TypeOK'
        BY <1>22 DEF Engines!CommitIndex, Engines!Alive
    <2>2. LocksHaveHolders'
        BY <1>22 DEF Engines!CommitIndex, Engines!Alive, LocksHaveHolders, StartingAt, StoppingAt
    <2>3. AloneWhileStarting'
        BY <1>22
           DEF Engines!CommitIndex, Engines!Alive, AloneWhileStarting, LocksHaveHolders,
               StartingAt, StoppingAt
    <2>4. NoOverlap'
        BY <1>22
           DEF Engines!CommitIndex, Engines!Alive, NoOverlap, StartingAt, AfterSignal,
               LocksHaveHolders, StoppingAt
    <2>5. EveryEngineIsKnown'
        BY <1>22
           DEF Engines!CommitIndex, Engines!Alive, EveryEngineIsKnown, Signalled,
               LocksHaveHolders, NoOverlap, AloneWhileStarting, StartingAt, StoppingAt,
               AfterSignal
    <2>6. NothingTakesTheChain'
        BY <1>22
           DEF Engines!CommitIndex, Engines!Alive, NothingTakesTheChain, AloneWhileStarting,
               LocksHaveHolders, StartingAt
    <2> QED BY <2>1, <2>2, <2>3, <2>4, <2>5, <2>6
<1>23. ASSUME NEW g \in Guest, Engines!GuestEnds(g) PROVE EngineInv'
    <2>1. Engines!TypeOK'
        BY <1>23 DEF Engines!GuestEnds, Engines!Alive
    <2>2. LocksHaveHolders'
        BY <1>23 DEF Engines!GuestEnds, Engines!Alive, LocksHaveHolders, StartingAt, StoppingAt
    <2>3. AloneWhileStarting'
        BY <1>23
           DEF Engines!GuestEnds, Engines!Alive, AloneWhileStarting, LocksHaveHolders, StartingAt,
               StoppingAt
    <2>4. NoOverlap'
        BY <1>23
           DEF Engines!GuestEnds, Engines!Alive, NoOverlap, StartingAt, AfterSignal,
               LocksHaveHolders, StoppingAt
    <2>5. EveryEngineIsKnown'
        BY <1>23
           DEF Engines!GuestEnds, Engines!Alive, EveryEngineIsKnown, Signalled, LocksHaveHolders,
               NoOverlap, AloneWhileStarting, StartingAt, StoppingAt, AfterSignal
    <2>6. NothingTakesTheChain'
        BY <1>23 DEF Engines!GuestEnds, Engines!Alive, NothingTakesTheChain
    <2> QED BY <2>1, <2>2, <2>3, <2>4, <2>5, <2>6
<1>24. ASSUME NEW g \in Guest, Engines!WrapperEnds(g) PROVE EngineInv'
    <2>1. Engines!TypeOK'
        BY <1>24 DEF Engines!WrapperEnds, Engines!Alive
    <2>2. LocksHaveHolders'
        BY <1>24
           DEF Engines!WrapperEnds, Engines!Alive, LocksHaveHolders,
               StartingAt, StoppingAt
    <2>3. AloneWhileStarting'
        BY <1>24
           DEF Engines!WrapperEnds, Engines!Alive, AloneWhileStarting,
               LocksHaveHolders, StartingAt, StoppingAt
    <2>4. NoOverlap'
        BY <1>24
           DEF Engines!WrapperEnds, Engines!Alive, NoOverlap, StartingAt,
               AfterSignal, LocksHaveHolders, StoppingAt
    <2>5. EveryEngineIsKnown'
        BY <1>24
           DEF Engines!WrapperEnds, Engines!Alive, EveryEngineIsKnown,
               Signalled, LocksHaveHolders, NoOverlap, AloneWhileStarting, StartingAt, StoppingAt,
               AfterSignal
    <2>6. NothingTakesTheChain'
        BY <1>24 DEF Engines!WrapperEnds, Engines!Alive, NothingTakesTheChain
    <2> QED BY <2>1, <2>2, <2>3, <2>4, <2>5, <2>6
<1>25. ASSUME Engines!GetStatus PROVE EngineInv'
    <2>1. Engines!TypeOK'
        BY <1>25 DEF Engines!GetStatus, Engines!Pgrep, Engines!Alive
    <2>2. LocksHaveHolders'
        BY <1>25
           DEF Engines!GetStatus, Engines!Pgrep, Engines!Alive, LocksHaveHolders, StartingAt,
               StoppingAt
    <2>3. AloneWhileStarting'
        BY <1>25
           DEF Engines!GetStatus, Engines!Pgrep, Engines!Alive, AloneWhileStarting,
               LocksHaveHolders, StartingAt, StoppingAt
    <2>4. NoOverlap'
        BY <1>25
           DEF Engines!GetStatus, Engines!Pgrep, Engines!Alive, NoOverlap, StartingAt,
               AfterSignal, LocksHaveHolders, StoppingAt
    <2>5. EveryEngineIsKnown'
        BY <1>25
           DEF Engines!GetStatus, Engines!Pgrep, Engines!Alive, EveryEngineIsKnown, Signalled,
               LocksHaveHolders, NoOverlap, AloneWhileStarting, StartingAt, StoppingAt,
               AfterSignal
    <2>6. NothingTakesTheChain'
        BY <1>25 DEF Engines!GetStatus, Engines!Pgrep, Engines!Alive, NothingTakesTheChain
    <2> QED BY <2>1, <2>2, <2>3, <2>4, <2>5, <2>6
<1>26. ASSUME Engines!ManagerEnds PROVE EngineInv'
    <2>1. Engines!TypeOK'
        BY <1>26 DEF Engines!ManagerEnds, Engines!Alive
    <2>2. LocksHaveHolders'
        BY <1>26
           DEF Engines!ManagerEnds, Engines!Alive, LocksHaveHolders,
               StartingAt, StoppingAt
    <2>3. AloneWhileStarting'
        BY <1>26
           DEF Engines!ManagerEnds, Engines!Alive, AloneWhileStarting,
               LocksHaveHolders, StartingAt, StoppingAt
    <2>4. NoOverlap'
        BY <1>26
           DEF Engines!ManagerEnds, Engines!Alive, NoOverlap, StartingAt,
               AfterSignal, LocksHaveHolders, StoppingAt
    <2>5. EveryEngineIsKnown'
        BY <1>26
           DEF Engines!ManagerEnds, Engines!Alive, EveryEngineIsKnown,
               Signalled, LocksHaveHolders, NoOverlap, AloneWhileStarting, StartingAt, StoppingAt,
               AfterSignal
    <2>6. NothingTakesTheChain'
        BY <1>26 DEF Engines!ManagerEnds, Engines!Alive, NothingTakesTheChain
    <2> QED BY <2>1, <2>2, <2>3, <2>4, <2>5, <2>6
<1>27. ASSUME Engines!ScriptLooks PROVE EngineInv'
    <2>1. Engines!TypeOK'
        BY <1>27 DEF Engines!ScriptLooks, Engines!IndexMissing
    <2>2. LocksHaveHolders'
        BY <1>27
           DEF Engines!ScriptLooks, Engines!IndexMissing, LocksHaveHolders, StartingAt, StoppingAt
    <2>3. AloneWhileStarting'
        BY <1>27
           DEF Engines!ScriptLooks, Engines!IndexMissing, AloneWhileStarting, Engines!Alive,
               LocksHaveHolders, StartingAt, StoppingAt
    <2>4. NoOverlap'
        BY <1>27
           DEF Engines!ScriptLooks, Engines!IndexMissing, NoOverlap, StartingAt, AfterSignal,
               LocksHaveHolders, StoppingAt
    <2>5. EveryEngineIsKnown'
        BY <1>27
           DEF Engines!ScriptLooks, Engines!IndexMissing, EveryEngineIsKnown, Engines!Alive,
               Signalled, LocksHaveHolders, NoOverlap, AloneWhileStarting, StartingAt, StoppingAt,
               AfterSignal
    <2>6. NothingTakesTheChain'
        BY <1>27 DEF Engines!ScriptLooks, Engines!IndexMissing, NothingTakesTheChain
    <2> QED BY <2>1, <2>2, <2>3, <2>4, <2>5, <2>6
<1>28. ASSUME Engines!ScriptWrites PROVE EngineInv'
    <2>1. Engines!TypeOK'
        BY <1>28 DEF Engines!ScriptWrites
    <2>2. LocksHaveHolders'
        BY <1>28 DEF Engines!ScriptWrites, LocksHaveHolders, StartingAt, StoppingAt
    <2>3. AloneWhileStarting'
        BY <1>28
           DEF Engines!ScriptWrites, AloneWhileStarting, Engines!Alive, LocksHaveHolders,
               StartingAt, StoppingAt
    <2>4. NoOverlap'
        BY <1>28
           DEF Engines!ScriptWrites, NoOverlap, StartingAt, AfterSignal, LocksHaveHolders,
               StoppingAt
    <2>5. EveryEngineIsKnown'
        BY <1>28
           DEF Engines!ScriptWrites, EveryEngineIsKnown, Engines!Alive, Signalled,
               LocksHaveHolders, NoOverlap, AloneWhileStarting, StartingAt, StoppingAt,
               AfterSignal
    <2>6. NothingTakesTheChain'
        BY <1>28 DEF Engines!ScriptWrites, NothingTakesTheChain
    <2> QED BY <2>1, <2>2, <2>3, <2>4, <2>5, <2>6
<1>30. ASSUME NEW c \in Caller, Engines!StartUnaware(c) PROVE EngineInv'
    <2>1. Engines!TypeOK'
        BY <1>30 DEF Engines!StartUnaware
    <2>2. LocksHaveHolders'
        BY <1>30 DEF Engines!StartUnaware, LocksHaveHolders, StartingAt, StoppingAt
    <2>3. AloneWhileStarting'
        BY <1>30
           DEF Engines!StartUnaware, AloneWhileStarting, Engines!Alive, LocksHaveHolders,
               StartingAt, StoppingAt
    <2>4. NoOverlap'
        BY <1>30
           DEF Engines!StartUnaware, NoOverlap, StartingAt, AfterSignal, LocksHaveHolders,
               StoppingAt
    <2>5. EveryEngineIsKnown'
        BY <1>30
           DEF Engines!StartUnaware, EveryEngineIsKnown, Engines!Alive, Signalled, LocksHaveHolders,
               NoOverlap, AloneWhileStarting, StartingAt, StoppingAt, AfterSignal
    <2>6. NothingTakesTheChain'
        BY <1>30 DEF Engines!StartUnaware, NothingTakesTheChain
    <2> QED BY <2>1, <2>2, <2>3, <2>4, <2>5, <2>6
<1>31. ASSUME NEW c \in Caller, Engines!EnsureNemesisSeed(c) PROVE EngineInv'
    <2>1. Engines!TypeOK'
        BY <1>31 DEF Engines!EnsureNemesisSeed
    <2>2. LocksHaveHolders'
        BY <1>31 DEF Engines!EnsureNemesisSeed, LocksHaveHolders, StartingAt, StoppingAt
    <2>3. AloneWhileStarting'
        BY <1>31
           DEF Engines!EnsureNemesisSeed, AloneWhileStarting, Engines!Alive, LocksHaveHolders,
               StartingAt, StoppingAt
    <2>4. NoOverlap'
        BY <1>31
           DEF Engines!EnsureNemesisSeed, NoOverlap, StartingAt, AfterSignal, LocksHaveHolders,
               StoppingAt
    <2>5. EveryEngineIsKnown'
        BY <1>31
           DEF Engines!EnsureNemesisSeed, EveryEngineIsKnown, Engines!Alive, Signalled, LocksHaveHolders,
               NoOverlap, AloneWhileStarting, StartingAt, StoppingAt, AfterSignal
    <2>6. NothingTakesTheChain'
        BY <1>31 DEF Engines!EnsureNemesisSeed, NothingTakesTheChain
    <2> QED BY <2>1, <2>2, <2>3, <2>4, <2>5, <2>6
<1>32. ASSUME NEW c \in Caller, Engines!IndexUnread(c) PROVE EngineInv'
    <2>1. Engines!TypeOK'
        BY <1>32 DEF Engines!IndexUnread
    <2>2. LocksHaveHolders'
        BY <1>32 DEF Engines!IndexUnread, LocksHaveHolders, StartingAt, StoppingAt
    <2>3. AloneWhileStarting'
        BY <1>32
           DEF Engines!IndexUnread, AloneWhileStarting, Engines!Alive, LocksHaveHolders,
               StartingAt, StoppingAt
    <2>4. NoOverlap'
        BY <1>32
           DEF Engines!IndexUnread, NoOverlap, StartingAt, AfterSignal, LocksHaveHolders,
               StoppingAt
    <2>5. EveryEngineIsKnown'
        BY <1>32
           DEF Engines!IndexUnread, EveryEngineIsKnown, Engines!Alive, Signalled, LocksHaveHolders,
               NoOverlap, AloneWhileStarting, StartingAt, StoppingAt, AfterSignal
    <2>6. NothingTakesTheChain'
        BY <1>32 DEF Engines!IndexUnread, NothingTakesTheChain
    <2> QED BY <2>1, <2>2, <2>3, <2>4, <2>5, <2>6
<1>33. ASSUME NEW c \in Caller, Engines!WipeState(c) PROVE EngineInv'
    <2>1. Engines!TypeOK'
        BY <1>33 DEF Engines!WipeState
    <2>2. LocksHaveHolders'
        BY <1>33 DEF Engines!WipeState, LocksHaveHolders, StartingAt, StoppingAt
    <2>3. AloneWhileStarting'
        BY <1>33
           DEF Engines!WipeState, AloneWhileStarting, Engines!Alive, LocksHaveHolders,
               StartingAt, StoppingAt
    <2>4. NoOverlap'
        BY <1>33
           DEF Engines!WipeState, NoOverlap, StartingAt, AfterSignal, LocksHaveHolders,
               StoppingAt
    <2>5. EveryEngineIsKnown'
        BY <1>33
           DEF Engines!WipeState, EveryEngineIsKnown, Engines!Alive, Signalled, LocksHaveHolders,
               NoOverlap, AloneWhileStarting, StartingAt, StoppingAt, AfterSignal
    <2>6. NothingTakesTheChain'
        BY <1>33 DEF Engines!WipeState, NothingTakesTheChain
    <2> QED BY <2>1, <2>2, <2>3, <2>4, <2>5, <2>6
<1>34. ASSUME NEW c \in Caller, Engines!StopLosesSight(c) PROVE EngineInv'
    <2>1. Engines!TypeOK'
        BY <1>34 DEF Engines!StopLosesSight
    <2>2. LocksHaveHolders'
        BY <1>34 DEF Engines!StopLosesSight, LocksHaveHolders, StartingAt, StoppingAt
    <2>3. AloneWhileStarting'
        BY <1>34
           DEF Engines!StopLosesSight, AloneWhileStarting, Engines!Alive, LocksHaveHolders,
               StartingAt, StoppingAt
    <2>4. NoOverlap'
        BY <1>34
           DEF Engines!StopLosesSight, NoOverlap, StartingAt, AfterSignal, LocksHaveHolders,
               StoppingAt
    <2>5. EveryEngineIsKnown'
        BY <1>34
           DEF Engines!StopLosesSight, EveryEngineIsKnown, Engines!Alive, Signalled, LocksHaveHolders,
               NoOverlap, AloneWhileStarting, StartingAt, StoppingAt, AfterSignal
    <2>6. NothingTakesTheChain'
        BY <1>34 DEF Engines!StopLosesSight, NothingTakesTheChain
    <2> QED BY <2>1, <2>2, <2>3, <2>4, <2>5, <2>6
<1>29. ASSUME UNCHANGED Engines!vars PROVE EngineInv'
    <2>1. Engines!TypeOK'
        BY <1>29 DEF Engines!vars
    <2>2. LocksHaveHolders'
        BY <1>29 DEF Engines!vars, LocksHaveHolders, StartingAt, StoppingAt
    <2>3. AloneWhileStarting'
        BY <1>29
           DEF Engines!vars, AloneWhileStarting, Engines!Alive, LocksHaveHolders, StartingAt,
               StoppingAt
    <2>4. NoOverlap'
        BY <1>29
           DEF Engines!vars, NoOverlap, StartingAt, AfterSignal, LocksHaveHolders, StoppingAt
    <2>5. EveryEngineIsKnown'
        BY <1>29
           DEF Engines!vars, EveryEngineIsKnown, Engines!Alive, Signalled, LocksHaveHolders,
               NoOverlap, AloneWhileStarting, StartingAt, StoppingAt, AfterSignal
    <2>6. NothingTakesTheChain'
        BY <1>29 DEF Engines!vars, NothingTakesTheChain
    <2> QED BY <2>1, <2>2, <2>3, <2>4, <2>5, <2>6
<1> QED BY <1>1, <1>2, <1>3, <1>4, <1>5, <1>6, <1>7, <1>8, <1>9, <1>10, <1>11, <1>12, <1>13,
           <1>14, <1>15, <1>16, <1>17, <1>18, <1>19, <1>20, <1>21, <1>22, <1>23, <1>24, <1>25,
           <1>26, <1>27, <1>28, <1>29, <1>30, <1>31, <1>32, <1>33, <1>34
           DEF Engines!Next, Engines!Serve

LEMMA OneEngine == EngineInv => Engines!OneEngineOnData
<1> SUFFICES ASSUME EngineInv, mishaps \cap {"overlap", "killed", "unseen"} = {}
             PROVE  /\ Cardinality(Engines!Alive) <= 1
                    /\ \A c \in Caller :
                          \/ call[c] \in StartingAt
                          \/ /\ call[c] \in {"clear", "reconcile", "mutate"}
                             /\ mishaps \cap {"orphan", "lost"} = {}
                          => Engines!Alive = {}
    BY EnginesCardinality DEF Engines!OneEngineOnData, StartingAt
<1>1. Cardinality(Engines!Alive) <= 1
    <2>1. CASE Engines!Alive = {}
        BY <2>1, FS_EmptySet
    <2>2. CASE Engines!Alive # {}
        <3>1. PICK g \in Engines!Alive : TRUE
            BY <2>2
        <3>2. Engines!Alive = {g}
            BY <3>1 DEF EngineInv, AloneWhileStarting
        <3>3. Cardinality({g}) = 1
            BY FS_Singleton
        <3> QED BY <3>2, <3>3
    <2> QED BY <2>1, <2>2
<1>2. ASSUME NEW c \in Caller, call[c] \in StartingAt PROVE Engines!Alive = {}
    BY EngineAssumption, <1>2 DEF EngineInv, LocksHaveHolders, AloneWhileStarting
<1>3. ASSUME NEW c \in Caller, call[c] \in {"clear", "reconcile", "mutate"},
             mishaps \cap {"orphan", "lost"} = {}
      PROVE  Engines!Alive = {}
    BY <1>3 DEF EngineInv, EveryEngineIsKnown, Signalled
<1> QED BY <1>1, <1>2, <1>3
-----------------------------------------------------------------------------
(* The setup of Windows.  What the script knows of the distribution it     *)
(* works on stays true while other windows change the list.                *)

(* What a run of the script knows of the distribution it works on.         *)
ScriptFits(x) ==
    /\ x.action = "InstallDistro" => x.asked \in Distro
    /\ x.pc \in {"list", "catalog", "convert"} => x.action = "InstallDistro"
    /\ x.pc = "packages" /\ x.back = "list" => x.action = "InstallDistro"
    /\ x.pc = "features" => x.action = "EnableWSL"
    /\ x.pc \in {"convert", "packages"} => x.name \in Setups!Installed
    /\ x.pc = "convert" => x.name \in Setups!SameAs(x.asked)
    /\ /\ x.action = "InstallDistro" /\ x.clean
       /\ x.pc = "done" \/ (x.pc = "packages" /\ x.back = "done")
       => x.name \in Setups!SameAs(x.asked) \cap Setups!Installed /\ version[x.name] = 2

SetupInv ==
    /\ Setups!TypeOK
    /\ listing \in Seq(Distro)
    /\ listing # <<>> => feature = "on"
    /\ \A w \in Window : ScriptFits(window[w])

LEMMA LeastNatural ==
    ASSUME NEW T, T \subseteq Nat, T # {}
    PROVE  \E x \in T : \A y \in T : x <= y
<1>1. PICK x \in T : \A y \in T : ~(<<y, x>> \in OpToRel(<, Nat))
    BY NatLessThanWellFounded, WFMin
<1>2. ASSUME NEW y \in T PROVE x <= y
    <2> DEFINE pair == <<y, x>>
    <2>1. pair \in Nat \X Nat /\ pair[1] = y /\ pair[2] = x
        OBVIOUS
    <2>2. pair \notin {ss \in Nat \X Nat : ss[1] < ss[2]}
        BY <1>1 DEF OpToRel
    <2> HIDE DEF pair
    <2>3. ~(pair[1] < pair[2])
        BY <2>1, <2>2
    <2> QED BY <2>1, <2>3
<1> QED BY <1>2

(* The first and the last element of s that is in T.                       *)
FirstIn(s, T) == LET I == {i \in 1..Len(s) : s[i] \in T}
                 IN  IF I # {} THEN CHOOSE x \in I : \A y \in I : x <= y ELSE 0
LastIn(s, T) == LET I == {i \in 1..Len(s) : s[i] \in T}
                IN  IF I # {} THEN CHOOSE x \in I : \A y \in I : x >= y ELSE 0

LEMMA FirstOne ==
    ASSUME NEW S, NEW s \in Seq(S), NEW T
    PROVE  /\ FirstIn(s, T) \in 0..Len(s)
           /\ FirstIn(s, T) # 0 => s[FirstIn(s, T)] \in S /\ s[FirstIn(s, T)] \in T
<1> DEFINE I == {i \in 1..Len(s) : s[i] \in T}
<1>1. I \subseteq Nat
    OBVIOUS
<1>2. I # {} => \E x \in I : \A y \in I : x <= y
    BY <1>1, LeastNatural
<1>3. FirstIn(s, T) = IF I # {} THEN CHOOSE x \in I : \A y \in I : x <= y ELSE 0
    BY DEF FirstIn
<1>4. I # {} => FirstIn(s, T) \in I
    BY <1>2, <1>3
<1>5. I = {} => FirstIn(s, T) = 0
    BY <1>3
<1> HIDE DEF FirstIn
<1>6. Len(s) \in Nat
    OBVIOUS
<1> QED BY <1>4, <1>5, <1>6

LEMMA LastOne ==
    ASSUME NEW S, NEW s \in Seq(S), NEW T
    PROVE  /\ LastIn(s, T) \in 0..Len(s)
           /\ LastIn(s, T) # 0 => s[LastIn(s, T)] \in T
           /\ LastIn(s, T) = 0 => \A i \in 1..Len(s) : s[i] \notin T
<1> DEFINE I == {i \in 1..Len(s) : s[i] \in T}
<1>1. ASSUME I # {} PROVE \E x \in I : \A y \in I : x >= y
    <2> DEFINE J == {Len(s) - i : i \in I}
    <2>1. J \subseteq Nat /\ J # {}
        BY <1>1
    <2>2. PICK j \in J : \A y \in J : j <= y
        BY <2>1, LeastNatural
    <2>3. PICK x \in I : j = Len(s) - x
        BY <2>2
    <2>4. \A y \in I : Len(s) - y \in J
        OBVIOUS
    <2> HIDE DEF J
    <2>5. \A y \in I : x >= y
        BY <2>2, <2>3, <2>4
    <2> QED BY <2>5
<1>2. LastIn(s, T) = IF I # {} THEN CHOOSE x \in I : \A y \in I : x >= y ELSE 0
    BY DEF LastIn
<1>3. I # {} => LastIn(s, T) \in I
    BY <1>1, <1>2
<1>4. I = {} => LastIn(s, T) = 0
    BY <1>2
<1>5. Len(s) \in Nat /\ 0 \notin I
    OBVIOUS
<1> QED BY <1>3, <1>4, <1>5

LEMMA SelectedIn ==
    Setups!Selected = LET last == LastIn(listing, Ubuntu)
               IN  IF last = 0 THEN Head(listing) ELSE listing[last]
BY DEF Setups!Selected, Setups!SelectLastInSeq, Setups!Max, LastIn

LEMMA UnusedType == Setups!Unused \in Setups!Script
BY DEF Setups!Unused, Setups!Script

LEMMA InitSetup == Setups!Init => SetupInv
<1> SUFFICES ASSUME Setups!Init PROVE SetupInv
    OBVIOUS
<1>1. /\ listing \in Seq(Distro) /\ Len(listing) <= 1
      /\ \A i \in 1..Len(listing) : listing[i] \in Distro
    <2>1. listing = <<>> => listing \in Seq(Distro) /\ Len(listing) <= 1
        OBVIOUS
    <2>2. ASSUME NEW d \in Distro, listing = <<d>>
          PROVE  listing \in Seq(Distro) /\ Len(listing) = 1
        BY <2>2
    <2>3. listing = <<>> \/ \E d \in Distro : listing = <<d>>
        BY DEF Setups!Init
    <2>4. listing \in Seq(Distro) /\ Len(listing) <= 1
        <3>1. CASE listing = <<>>
            BY <2>1, <3>1
        <3>2. ASSUME NEW d \in Distro, listing = <<d>>
              PROVE  listing \in Seq(Distro) /\ Len(listing) <= 1
            <4>1. listing \in Seq(Distro) /\ Len(listing) = 1
                BY <2>2, <3>2
            <4> QED BY <4>1
        <3> QED BY <2>3, <3>1, <3>2
    <2> QED BY <2>4
<1>2. Setups!IsInjective(listing) /\ Setups!Installed \subseteq Distro
    <2>1. DOMAIN listing = 1..Len(listing) /\ Len(listing) \in Nat
        BY <1>1
    <2>2. \A i, j \in 1..Len(listing) : i = j
        BY <1>1, <2>1
    <2>3. Setups!IsInjective(listing)
        BY <2>1, <2>2 DEF Setups!IsInjective
    <2>4. Setups!Installed \subseteq Distro
        BY <1>1, <2>1 DEF Setups!Installed, Setups!ToSet
    <2> QED BY <2>3, <2>4
<1>3. window \in [Window -> Setups!Script]
    BY UnusedType DEF Setups!Init
<1>4. failures \in 0..MaxFailures /\ reboots \in 0..MaxReboots
    BY DistroAssumption DEF Setups!Init
<1>5. version \in [Distro -> 1..2] /\ atomic \subseteq Setups!Installed
    BY DEF Setups!Init
<1>6. /\ feature \in {"off", "pending", "on"} /\ modern \in BOOLEAN /\ defaultTwo \in BOOLEAN
      /\ package \in {"none", "part", "whole"} /\ marker \in BOOLEAN /\ believed \in BOOLEAN
    BY DEF Setups!Init
<1>7. \A w \in Window : ScriptFits(window[w])
    BY DEF Setups!Init, Setups!Unused, ScriptFits
<1>8. listing # <<>> => feature = "on"
    BY DEF Setups!Init
<1> QED BY <1>1, <1>2, <1>3, <1>4, <1>5, <1>6, <1>7, <1>8 DEF SetupInv, Setups!TypeOK

(* What one run does leaves what the others know as it is, as long as no   *)
(* distribution goes away or goes back to version 1.                       *)
LEMMA OneWindow ==
    ASSUME SetupInv, NEW w \in Window, NEW x \in Setups!Script,
           window' = [window EXCEPT ![w] = x], ScriptFits(x)',
           Setups!Installed \subseteq Setups!Installed',
           \A d \in Setups!Installed : version[d] = 2 => version'[d] = 2
    PROVE  /\ window' \in [Window -> Setups!Script]
           /\ \A v \in Window : ScriptFits(window[v])'
<1>1. window' \in [Window -> Setups!Script]
    BY DEF SetupInv, Setups!TypeOK
<1>2. ASSUME NEW v \in Window, v # w
      PROVE  ScriptFits(window[v])'
    <2>1. window'[v] = window[v] /\ ScriptFits(window[v])
        BY <1>2 DEF SetupInv, Setups!TypeOK
    <2> QED BY <2>1 DEF ScriptFits, Setups!SameAs
<1>3. ScriptFits(window[w])'
    BY DEF SetupInv, Setups!TypeOK
<1> QED BY <1>1, <1>2, <1>3

(* The cases in which the guests stay as they are.                         *)
LEMMA GuestsStay ==
    ASSUME SetupInv, UNCHANGED <<listing, version>>
    PROVE  /\ Setups!Installed' = Setups!Installed /\ Setups!IsInjective(listing)'
           /\ Setups!Installed' \subseteq Distro
           /\ version' \in [Distro -> 1..2] /\ listing' \in Seq(Distro)
           /\ \A x : ScriptFits(x)' = ScriptFits(x)
BY
   DEF SetupInv, Setups!TypeOK, Setups!Installed, Setups!ToSet, Setups!IsInjective, ScriptFits,
       Setups!SameAs

LEMMA WindowsRest ==
    ASSUME SetupInv, UNCHANGED <<listing, version, window>>
    PROVE  window' \in [Window -> Setups!Script] /\ \A v \in Window : ScriptFits(window[v])'
BY DEF SetupInv, Setups!TypeOK, ScriptFits, Setups!SameAs, Setups!Installed, Setups!ToSet

LEMMA WindowOpened ==
    ASSUME SetupInv, NEW w \in Window, NEW a \in Setups!Action, NEW d \in Distro \cup {NoDistro},
           a = "InstallDistro" => d \in Distro,
           Setups!OpenWindow(w, a, d), UNCHANGED <<listing, version>>
    PROVE  window' \in [Window -> Setups!Script] /\ \A v \in Window : ScriptFits(window[v])'
<1>1. CASE UNCHANGED window
    BY <1>1, WindowsRest
<1>2. CASE ~UNCHANGED window
    <2> DEFINE pc == IF a = "EnableWSL" THEN "features"
                     ELSE IF a = "InstallDistro" /\ modern THEN "list" ELSE "update"
               x == [Setups!Unused EXCEPT !.action = a, !.asked = d, !.pc = pc]
    <2>1. window' = [window EXCEPT ![w] = x]
        BY <1>2 DEF Setups!OpenWindow
    <2>2. x \in Setups!Script /\ x.pc = pc /\ x.action = a /\ x.asked = d
        BY DEF Setups!Unused, Setups!Script
    <2> HIDE DEF x
    <2>3. ScriptFits(x)
        BY <2>2 DEF ScriptFits
    <2>4. PICK y \in Setups!Script : window' = [window EXCEPT ![w] = y] /\ ScriptFits(y)
        BY <2>1, <2>2, <2>3
    <2>5. ScriptFits(y)' /\ Setups!Installed' = Setups!Installed
        BY <2>4, GuestsStay
    <2> QED BY <2>4, <2>5, OneWindow
<1> QED BY <1>1, <1>2

(* A step of a window that leaves the guests and its variables alone.      *)
LEMMA WindowGone ==
    ASSUME SetupInv, NEW w \in Window, NEW pc \in {"list", "done", "download", "package"},
           UNCHANGED <<listing, version>>,
           NEW x \in Setups!Script, window' = [window EXCEPT ![w] = x],
           x.action = window[w].action, x.asked = window[w].asked, x.name = window[w].name,
           x.pc = pc, pc = "list" => x.action = "InstallDistro",
           pc = "done" /\ x.action = "InstallDistro" /\ x.clean =>
              window[w].pc = "packages" /\ window[w].back = "done" /\ window[w].clean
    PROVE  window' \in [Window -> Setups!Script] /\ \A v \in Window : ScriptFits(window[v])'
<1>1. ScriptFits(window[w])
    BY DEF SetupInv
<1>2. ScriptFits(x)
    BY <1>1 DEF ScriptFits
<1>3. ScriptFits(x)'
    BY <1>2, GuestsStay
<1>4. Setups!Installed' = Setups!Installed
    BY GuestsStay
<1> QED BY <1>3, <1>4, OneWindow

(* The fields that Goto and Fails change. *)
LEMMA WindowMoved ==
    ASSUME SetupInv, NEW w \in Window,
           NEW pc \in {"list", "done", "download", "package", "packages"}
    PROVE  /\ Setups!Goto(w, pc) => \E x \in Setups!Script :
                /\ window' = [window EXCEPT ![w] = x]
                /\ x.pc = pc /\ x.clean = window[w].clean /\ x.back = window[w].back
                /\ x.action = window[w].action /\ x.asked = window[w].asked
                /\ x.name = window[w].name
           /\ Setups!Fails(w, pc) => \E x \in Setups!Script :
                /\ window' = [window EXCEPT ![w] = x]
                /\ x.pc = pc /\ ~x.clean /\ x.back = window[w].back
                /\ x.action = window[w].action /\ x.asked = window[w].asked
                /\ x.name = window[w].name
<1> DEFINE y == [window[w] EXCEPT !.pc = pc]
           z == [window[w] EXCEPT !.pc = pc, !.clean = FALSE]
<1>1. window[w] \in Setups!Script
    BY DEF SetupInv, Setups!TypeOK
<1>2. /\ y \in Setups!Script /\ y.pc = pc /\ y.clean = window[w].clean /\ y.back = window[w].back
      /\ y.action = window[w].action /\ y.asked = window[w].asked /\ y.name = window[w].name
    BY <1>1 DEF Setups!Script
<1>3. /\ z \in Setups!Script /\ z.pc = pc /\ ~z.clean /\ z.back = window[w].back
      /\ z.action = window[w].action /\ z.asked = window[w].asked /\ z.name = window[w].name
    BY <1>1 DEF Setups!Script
<1>4. Setups!Goto(w, pc) => window' = [window EXCEPT ![w] = y]
    BY DEF Setups!Goto
<1>5. Setups!Fails(w, pc) => window' = [window EXCEPT ![w] = z]
    <2>1. window \in [Window -> Setups!Script]
        BY DEF SetupInv, Setups!TypeOK
    <2> QED BY <2>1 DEF Setups!Fails
<1> HIDE DEF y, z
<1> QED BY <1>2, <1>3, <1>4, <1>5

LEMMA FailsCounts ==
    ASSUME failures \in 0..MaxFailures, failures < MaxFailures, failures' = failures + 1
    PROVE  failures' \in 0..MaxFailures
BY DistroAssumption

LEMMA AfterUpdateMoves ==
    ASSUME SetupInv, NEW w \in Window, Setups!AfterUpdate(w), UNCHANGED <<listing, version>>
    PROVE  window' \in [Window -> Setups!Script] /\ \A v \in Window : ScriptFits(window[v])'
<1> DEFINE first == FirstIn(listing, Ubuntu)
           back == IF window[w].action = "InstallDistro" THEN "list" ELSE "done"
           pc == IF first = 0 THEN back ELSE "packages"
           name == IF first = 0 THEN NoDistro ELSE listing[first]
           x == [window[w] EXCEPT !.pc = pc, !.name = name, !.back = back]
<1>1. /\ first \in 0..Len(listing)
      /\ first # 0 => listing[first] \in Distro /\ listing[first] \in Ubuntu
    BY FirstOne DEF SetupInv
<1>2. window' = [window EXCEPT ![w] = x]
    <2>1. window \in [Window -> Setups!Script]
        BY DEF SetupInv, Setups!TypeOK
    <2>2. window' = [window EXCEPT ![w].pc = pc, ![w].name = name, ![w].back = back]
        BY DEF Setups!AfterUpdate, Setups!SelectInSeq, Setups!Min, FirstIn
    <2> QED BY <2>1, <2>2
<1> HIDE DEF first
<1>3. first # 0 => listing[first] \in Setups!Installed
    <2>1. DOMAIN listing = 1..Len(listing) /\ Len(listing) \in Nat
        BY DEF SetupInv
    <2> QED BY <1>1, <2>1 DEF Setups!Installed, Setups!ToSet
<1>4. name \in Distro \cup {NoDistro} /\ (first # 0 => name \in Setups!Installed)
    BY <1>1, <1>3
<1> HIDE DEF name
<1>5. window[w] \in Setups!Script /\ ScriptFits(window[w])
    BY DEF SetupInv, Setups!TypeOK
<1>6. /\ x \in Setups!Script /\ x.pc = pc /\ x.name = name /\ x.back = back
      /\ x.action = window[w].action
      /\ x.asked = window[w].asked
    BY <1>4, <1>5 DEF Setups!Script
<1> HIDE DEF x
<1>7. ScriptFits(x)
    BY <1>4, <1>5, <1>6 DEF ScriptFits
<1>8. PICK y \in Setups!Script : window' = [window EXCEPT ![w] = y] /\ ScriptFits(y)
    BY <1>2, <1>6, <1>7
<1>9. ScriptFits(y)' /\ Setups!Installed' = Setups!Installed
    BY <1>8, GuestsStay
<1> QED BY <1>8, <1>9, OneWindow

LEMMA StepSetup == SetupInv /\ [Setups!Next]_(Setups!vars) => SetupInv'
<1> SUFFICES ASSUME SetupInv, [Setups!Next]_(Setups!vars) PROVE SetupInv'
    OBVIOUS
<1> DEFINE WindowsFit == window \in [Window -> Setups!Script] /\ \A v \in Window : ScriptFits(window[v])
           NumbersFit == failures \in 0..MaxFailures /\ reboots \in 0..MaxReboots
           HostFits == /\ feature \in {"off", "pending", "on"} /\ modern \in BOOLEAN
                       /\ defaultTwo \in BOOLEAN /\ package \in {"none", "part", "whole"}
                       /\ marker \in BOOLEAN /\ believed \in BOOLEAN
                       /\ listing # <<>> => feature = "on"
           GuestsFit == /\ listing \in Seq(Distro) /\ Setups!IsInjective(listing) /\ Setups!Installed \subseteq Distro
                        /\ version \in [Distro -> 1..2] /\ atomic \subseteq Setups!Installed
<1>0. WindowsFit /\ NumbersFit /\ HostFits /\ GuestsFit
    BY DEF SetupInv, Setups!TypeOK
<1>g. ASSUME UNCHANGED <<listing, version, atomic>> PROVE GuestsFit'
    BY <1>g, GuestsStay, <1>0
<1>q. ASSUME WindowsFit', NumbersFit', HostFits', GuestsFit' PROVE SetupInv'
    BY <1>q DEF SetupInv, Setups!TypeOK
<1>1. CASE Setups!ProbeWSLStatus
    <2>1. HostFits' /\ NumbersFit'
        BY <1>0, <1>1 DEF Setups!ProbeWSLStatus, Setups!hostVars, Setups!guestVars
    <2>2. WindowsFit' /\ GuestsFit'
        BY <1>1, <1>g, WindowsRest DEF Setups!ProbeWSLStatus, Setups!guestVars
    <2> QED BY <2>1, <2>2, <1>q
<1>2. CASE Setups!FiveSecondsPass
    <2>1. HostFits' /\ NumbersFit'
        BY <1>0, <1>2 DEF Setups!FiveSecondsPass, Setups!hostVars, Setups!guestVars
    <2>2. WindowsFit' /\ GuestsFit'
        BY <1>2, <1>g, WindowsRest DEF Setups!FiveSecondsPass, Setups!guestVars
    <2> QED BY <2>1, <2>2, <1>q
<1>3. ASSUME NEW w \in Window, Setups!InitiateWSLInstall(w) PROVE SetupInv'
    <2>1. HostFits' /\ NumbersFit'
        BY <1>0, <1>3 DEF Setups!InitiateWSLInstall, Setups!hostVars, Setups!guestVars
    <2>2. WindowsFit' /\ GuestsFit'
        BY <1>3, <1>g, WindowOpened DEF Setups!InitiateWSLInstall, Setups!guestVars, Setups!Action
    <2> QED BY <2>1, <2>2, <1>q
<1>4. ASSUME NEW w \in Window, Setups!UpdateWSL(w) PROVE SetupInv'
    <2>1. HostFits' /\ NumbersFit'
        BY <1>0, <1>4 DEF Setups!UpdateWSL, Setups!hostVars, Setups!guestVars
    <2>2. WindowsFit' /\ GuestsFit'
        BY <1>4, <1>g, WindowOpened DEF Setups!UpdateWSL, Setups!guestVars, Setups!Action
    <2> QED BY <2>1, <2>2, <1>q
<1>5. ASSUME NEW w \in Window, NEW d \in Distro, Setups!SetupWSLDistro(w, d) PROVE SetupInv'
    <2>1. HostFits' /\ NumbersFit'
        BY <1>0, <1>5 DEF Setups!SetupWSLDistro, Setups!hostVars, Setups!guestVars
    <2>2. WindowsFit' /\ GuestsFit'
        BY <1>5, <1>g, WindowOpened DEF Setups!SetupWSLDistro, Setups!guestVars, Setups!Action
    <2> QED BY <2>1, <2>2, <1>q
<1>6. ASSUME NEW w \in Window, Setups!EnableWSLFeatures(w) PROVE SetupInv'
    <2>1. HostFits' /\ NumbersFit'
        BY <1>0, <1>6, FailsCounts
           DEF Setups!EnableWSLFeatures, Setups!Fails, Setups!guestVars, Setups!probeVars
    <2>2. window[w].action = "EnableWSL" /\ UNCHANGED <<listing, version, atomic>>
        BY <1>0, <1>6 DEF Setups!EnableWSLFeatures, Setups!At, ScriptFits, Setups!guestVars
    <2>3. Setups!Goto(w, "done") \/ Setups!Fails(w, "done")
        BY <1>6 DEF Setups!EnableWSLFeatures
    <2>4. WindowsFit'
        BY <2>2, <2>3, WindowMoved, WindowGone
    <2> QED BY <2>1, <2>2, <2>4, <1>g, <1>q
<1>7. ASSUME NEW w \in Window, Setups!StandardUpdate(w) PROVE SetupInv'
    <2>1. HostFits' /\ NumbersFit'
        BY <1>0, <1>7, FailsCounts
           DEF Setups!StandardUpdate, Setups!Fails, Setups!AfterUpdate, Setups!guestVars,
               Setups!probeVars
    <2>2. UNCHANGED <<listing, version, atomic>>
        BY <1>7 DEF Setups!StandardUpdate, Setups!guestVars
    <2>3. Setups!AfterUpdate(w) \/ Setups!Goto(w, "download") \/ Setups!Fails(w, "download")
        BY <1>7 DEF Setups!StandardUpdate
    <2>4. WindowsFit'
        BY <2>2, <2>3, WindowMoved, WindowGone, AfterUpdateMoves
    <2> QED BY <2>1, <2>2, <2>4, <1>g, <1>q
<1>8. ASSUME NEW w \in Window, Setups!DownloadPackage(w) PROVE SetupInv'
    <2>1. HostFits' /\ NumbersFit'
        BY <1>0, <1>8, FailsCounts
           DEF Setups!DownloadPackage, Setups!AfterUpdate, Setups!guestVars, Setups!probeVars
    <2>2. UNCHANGED <<listing, version, atomic>>
        BY <1>8 DEF Setups!DownloadPackage, Setups!guestVars
    <2>3. Setups!AfterUpdate(w) \/ Setups!Goto(w, "package")
        BY <1>8 DEF Setups!DownloadPackage
    <2>4. WindowsFit'
        BY <2>2, <2>3, WindowMoved, WindowGone, AfterUpdateMoves
    <2> QED BY <2>1, <2>2, <2>4, <1>g, <1>q
<1>9. ASSUME NEW w \in Window, Setups!InstallPackage(w) PROVE SetupInv'
    <2>1. HostFits' /\ NumbersFit'
        BY <1>0, <1>9
           DEF Setups!InstallPackage, Setups!AfterUpdate, Setups!guestVars, Setups!probeVars
    <2>2. WindowsFit' /\ GuestsFit'
        BY <1>9, <1>g, AfterUpdateMoves DEF Setups!InstallPackage, Setups!guestVars
    <2> QED BY <2>1, <2>2, <1>q
<1>10. ASSUME NEW w \in Window, Setups!FindInstalled(w) PROVE SetupInv'
    <2>1. HostFits' /\ NumbersFit' /\ UNCHANGED <<listing, version, atomic>>
        BY <1>0, <1>10
           DEF Setups!FindInstalled, Setups!hostVars, Setups!guestVars, Setups!probeVars
    <2> DEFINE first == FirstIn(listing, Setups!SameAs(window[w].asked))
               pc == IF first = 0 THEN "catalog" ELSE "convert"
               name == IF first = 0 THEN NoDistro ELSE listing[first]
               x == [window[w] EXCEPT !.pc = pc, !.name = name]
    <2>2. window' = [window EXCEPT ![w].pc = pc, ![w].name = name]
        BY <1>10 DEF Setups!FindInstalled, Setups!SelectInSeq, Setups!Min, FirstIn
    <2>3. window' = [window EXCEPT ![w] = x]
        BY <1>0, <2>2
    <2>4. first # 0 => name \in Setups!SameAs(window[w].asked) /\ name \in Setups!Installed
        <3>1. /\ first \in 0..Len(listing)
              /\ first # 0 => listing[first] \in Setups!SameAs(window[w].asked)
            BY <1>0, FirstOne
        <3>2. DOMAIN listing = 1..Len(listing) /\ Len(listing) \in Nat
            BY <1>0
        <3> QED BY <3>1, <3>2 DEF Setups!Installed, Setups!ToSet
    <2> HIDE DEF first
    <2>5. name \in Distro \cup {NoDistro}
        BY <1>0, <2>4
    <2>6. window[w] \in Setups!Script /\ ScriptFits(window[w]) /\ window[w].pc = "list"
        BY <1>0, <1>10 DEF Setups!FindInstalled, Setups!At
    <2> HIDE DEF name
    <2>7. /\ x \in Setups!Script /\ x.pc = pc /\ x.name = name /\ x.back = window[w].back
          /\ x.action = window[w].action /\ x.asked = window[w].asked
        BY <2>5, <2>6 DEF Setups!Script
    <2> HIDE DEF x
    <2>8. ScriptFits(x)
        BY <2>4, <2>6, <2>7 DEF ScriptFits
    <2>9. PICK y \in Setups!Script : window' = [window EXCEPT ![w] = y] /\ ScriptFits(y)
        BY <2>3, <2>7, <2>8
    <2>10. ScriptFits(y)' /\ Setups!Installed' = Setups!Installed
        BY <2>1, <2>9, GuestsStay
    <2>11. WindowsFit'
        BY <2>1, <2>9, <2>10, OneWindow
    <2> QED BY <2>1, <2>11, <1>g, <1>q
<1>11. ASSUME NEW w \in Window, Setups!InstallFromCatalog(w) PROVE SetupInv'
    <2>0. /\ window[w] \in Setups!Script /\ ScriptFits(window[w]) /\ window[w].pc = "catalog"
          /\ window[w].asked \in Distro
        BY <1>0, <1>11 DEF Setups!InstallFromCatalog, Setups!At, ScriptFits
    <2>1. CASE Setups!Fails(w, "done") /\ UNCHANGED <<listing, version>>
        <3>1. HostFits' /\ NumbersFit' /\ GuestsFit'
            BY <1>0, <1>11, <2>1, <1>g, FailsCounts
               DEF Setups!InstallFromCatalog, Setups!Fails, Setups!hostVars, Setups!probeVars
        <3>2. WindowsFit'
            BY <2>1, WindowMoved, WindowGone
        <3> QED BY <3>1, <3>2, <1>q
    <2>2. ASSUME NEW d \in Setups!SameAs(window[w].asked) \ Setups!Installed,
                 feature = "on", listing' = Append(listing, d),
                 version' = [version EXCEPT ![d] = IF defaultTwo THEN 2 ELSE 1],
                 window' = [window EXCEPT ![w].pc = "convert", ![w].name = d],
                 UNCHANGED failures
          PROVE  SetupInv'
        <3>1. d \in Distro
            BY <2>0, DistroAssumption DEF Setups!SameAs
        <3>2. /\ Len(listing) \in Nat /\ DOMAIN listing = 1..Len(listing)
              /\ DOMAIN listing' = 1..(Len(listing) + 1)
              /\ listing' \in Seq(Distro)
              /\ \A i \in 1..Len(listing) : listing'[i] = listing[i]
              /\ listing'[Len(listing) + 1] = d
            BY <1>0, <2>2, <3>1
        <3>3. Setups!Installed' = Setups!Installed \cup {d}
            BY <3>2 DEF Setups!Installed, Setups!ToSet
        <3>4. \A i \in 1..Len(listing) : listing[i] # d
            BY <3>2 DEF Setups!Installed, Setups!ToSet
        <3>5. Setups!IsInjective(listing)'
            BY <1>0, <3>2, <3>4 DEF Setups!IsInjective
        <3>6. /\ version' \in [Distro -> 1..2]
              /\ \A e \in Setups!Installed : version'[e] = version[e]
            BY <1>0, <2>2, <3>1
        <3>7. UNCHANGED <<Setups!hostVars, atomic, Setups!probeVars, reboots>>
            BY <1>11 DEF Setups!InstallFromCatalog
        <3>8. GuestsFit'
            BY <1>0, <3>1, <3>2, <3>3, <3>5, <3>6, <3>7
        <3>9. HostFits' /\ NumbersFit'
            BY <1>0, <2>2, <3>7 DEF Setups!hostVars, Setups!probeVars
        <3> DEFINE x == [window[w] EXCEPT !.pc = "convert", !.name = d]
        <3>10. window' = [window EXCEPT ![w] = x]
            BY <1>0, <2>2
        <3>11. /\ x \in Setups!Script /\ x.pc = "convert" /\ x.name = d /\ x.back = window[w].back
               /\ x.action = window[w].action /\ x.asked = window[w].asked
            BY <2>0, <3>1 DEF Setups!Script
        <3> HIDE DEF x
        <3>12. PICK y \in Setups!Script :
                  /\ window' = [window EXCEPT ![w] = y]
                  /\ y.pc = "convert" /\ y.name = d
                  /\ y.action = "InstallDistro" /\ y.asked = window[w].asked
            BY <2>0, <3>10, <3>11 DEF ScriptFits
        <3>13. ScriptFits(y)'
            BY <2>0, <3>3, <3>12 DEF ScriptFits, Setups!SameAs
        <3>14. WindowsFit'
            BY <3>3, <3>6, <3>12, <3>13, OneWindow
        <3> QED BY <3>8, <3>9, <3>14, <1>q
    <2> QED BY <1>11, <2>1, <2>2 DEF Setups!InstallFromCatalog
<1>12. ASSUME NEW w \in Window, Setups!ConvertDistro(w) PROVE SetupInv'
    <2>0. /\ window[w] \in Setups!Script /\ ScriptFits(window[w]) /\ window[w].pc = "convert"
          /\ window[w].name \in Setups!SameAs(window[w].asked) \cap Setups!Installed
          /\ window[w].action = "InstallDistro"
          /\ UNCHANGED <<Setups!hostVars, listing, atomic, Setups!probeVars, reboots>>
        BY <1>0, <1>12 DEF Setups!ConvertDistro, Setups!At, ScriptFits
    <2>1. Setups!Installed' = Setups!Installed
        BY <2>0 DEF Setups!Installed, Setups!ToSet
    <2>2. CASE /\ version' = [version EXCEPT ![window[w].name] = 2]
               /\ window' = [window EXCEPT ![w].pc = "packages", ![w].back = "done"]
               /\ UNCHANGED failures
        <3>1. /\ version' \in [Distro -> 1..2] /\ version'[window[w].name] = 2
              /\ \A d \in Setups!Installed : version[d] = 2 => version'[d] = 2
            BY <1>0, <2>0, <2>2
        <3>2. GuestsFit'
            BY <1>0, <2>0, <2>1, <3>1 DEF Setups!IsInjective
        <3>3. HostFits' /\ NumbersFit'
            BY <1>0, <2>0, <2>2 DEF Setups!hostVars, Setups!probeVars
        <3> DEFINE x == [window[w] EXCEPT !.pc = "packages", !.back = "done"]
        <3>4. window' = [window EXCEPT ![w] = x]
            BY <1>0, <2>2
        <3>5. /\ x \in Setups!Script /\ x.pc = "packages" /\ x.back = "done"
              /\ x.name = window[w].name
              /\ x.action = window[w].action /\ x.asked = window[w].asked
            BY <2>0 DEF Setups!Script
        <3> HIDE DEF x
        <3>6. PICK y \in Setups!Script :
                 /\ window' = [window EXCEPT ![w] = y]
                 /\ y.pc = "packages" /\ y.back = "done" /\ y.name = window[w].name
                 /\ y.action = window[w].action /\ y.asked = window[w].asked
            BY <3>4, <3>5
        <3>7. ScriptFits(y)'
            BY <2>0, <2>1, <3>1, <3>6 DEF ScriptFits, Setups!SameAs
        <3>8. WindowsFit'
            BY <2>1, <3>1, <3>6, <3>7, OneWindow
        <3> QED BY <3>2, <3>3, <3>8, <1>q
    <2>3. CASE Setups!Fails(w, "packages") /\ UNCHANGED version
        <3>1. HostFits' /\ NumbersFit'
            BY <1>0, <2>0, <2>3, FailsCounts DEF Setups!Fails, Setups!hostVars, Setups!probeVars
        <3>2. GuestsFit'
            BY <2>0, <2>3, <1>g
        <3>3. PICK y \in Setups!Script :
                 /\ window' = [window EXCEPT ![w] = y]
                 /\ y.pc = "packages" /\ ~y.clean /\ y.name = window[w].name
                 /\ y.action = window[w].action /\ y.asked = window[w].asked
            BY <2>3, WindowMoved
        <3>4. ScriptFits(y)'
            BY <2>0, <2>1, <3>3 DEF ScriptFits, Setups!SameAs
        <3>5. WindowsFit'
            BY <2>1, <2>3, <3>3, <3>4, OneWindow
        <3> QED BY <3>1, <3>2, <3>5, <1>q
    <2> QED BY <1>12, <2>2, <2>3 DEF Setups!ConvertDistro
<1>13. ASSUME NEW w \in Window, Setups!InstallPackages(w) PROVE SetupInv'
    <2>0. /\ window[w] \in Setups!Script /\ ScriptFits(window[w]) /\ window[w].pc = "packages"
          /\ window[w].back \in {"list", "done"} /\ window[w].name \in Setups!Installed
          /\ UNCHANGED <<Setups!hostVars, listing, version, Setups!probeVars, reboots>>
        BY <1>0, <1>13 DEF Setups!InstallPackages, Setups!At, ScriptFits, Setups!Script
    <2>1. HostFits' /\ NumbersFit'
        BY <1>0, <1>13, <2>0, FailsCounts
           DEF Setups!InstallPackages, Setups!Fails, Setups!hostVars, Setups!probeVars
    <2>2. GuestsFit'
        <3>1. atomic' \subseteq Setups!Installed
            BY <1>0, <1>13, <2>0 DEF Setups!InstallPackages
        <3> QED BY <1>0, <2>0, <3>1, GuestsStay
    <2>3. Setups!Goto(w, window[w].back) \/ Setups!Fails(w, window[w].back)
        BY <1>13 DEF Setups!InstallPackages
    <2>4. PICK y \in Setups!Script :
             /\ window' = [window EXCEPT ![w] = y] /\ y.pc = window[w].back
             /\ y.clean => window[w].clean
             /\ y.action = window[w].action /\ y.asked = window[w].asked
             /\ y.name = window[w].name
        BY <2>0, <2>3, WindowMoved
    <2>5. WindowsFit'
        <3>1. window[w].back = "list" => y.action = "InstallDistro"
            BY <2>0, <2>4 DEF ScriptFits
        <3> DEFINE pc == window[w].back
        <3>2. pc \in {"list", "done", "download", "package"} /\ y.pc = pc
            BY <2>0, <2>4
        <3> QED BY <2>0, <2>4, <3>1, <3>2, WindowGone
    <2> QED BY <2>1, <2>2, <2>5, <1>q
<1>14. CASE Setups!Reboot
    <2>1. HostFits' /\ NumbersFit'
        <3>1. reboots' = reboots + 1 /\ reboots < MaxReboots /\ UNCHANGED failures
            BY <1>14 DEF Setups!Reboot
        <3>2. NumbersFit'
            BY <1>0, <3>1, DistroAssumption
        <3>3. HostFits'
            BY <1>0, <1>14 DEF Setups!Reboot, Setups!guestVars
        <3> QED BY <3>2, <3>3
    <2>2. GuestsFit' /\ UNCHANGED <<listing, version>>
        BY <1>14, <1>g DEF Setups!Reboot, Setups!guestVars
    <2>3. ASSUME NEW v \in Window
          PROVE  window'[v] \in Setups!Script /\ ScriptFits(window'[v])
        <3>1. window[v] \in Setups!Script /\ ScriptFits(window[v])
            BY <1>0
        <3>2. CASE window[v].pc \in {"idle", "done"}
            BY <1>14, <3>1, <3>2 DEF Setups!Reboot
        <3>3. CASE window[v].pc \notin {"idle", "done"}
            <4> DEFINE x == [window[v] EXCEPT !.pc = "done", !.clean = FALSE]
            <4>1. window'[v] = x
                BY <1>14, <3>3 DEF Setups!Reboot
            <4>2. /\ x \in Setups!Script /\ x.pc = "done" /\ ~x.clean
                  /\ x.action = window[v].action /\ x.asked = window[v].asked
                BY <3>1 DEF Setups!Script
            <4> HIDE DEF x
            <4>3. ScriptFits(x)
                BY <3>1, <4>2 DEF ScriptFits
            <4> QED BY <4>1, <4>2, <4>3
        <3> QED BY <3>2, <3>3
    <2>4. window' \in [Window -> Setups!Script]
        <3>1. window' = [v \in Window |-> window'[v]]
            BY <1>14 DEF Setups!Reboot
        <3> QED BY <2>3, <3>1
    <2>5. \A v \in Window : ScriptFits(window[v])'
        <3> SUFFICES ASSUME NEW v \in Window PROVE ScriptFits(window[v])'
            OBVIOUS
        <3>1. ScriptFits(window'[v])
            BY <2>3
        <3> QED BY <2>2, <3>1 DEF ScriptFits, Setups!SameAs, Setups!Installed, Setups!ToSet
    <2> QED BY <2>1, <2>2, <2>4, <2>5, <1>q
<1>15. CASE UNCHANGED Setups!vars
    <2>1. HostFits' /\ NumbersFit'
        BY <1>0, <1>15 DEF Setups!vars
    <2>2. WindowsFit' /\ GuestsFit'
        BY <1>15, <1>g, WindowsRest DEF Setups!vars
    <2> QED BY <2>1, <2>2, <1>q
<1> QED BY <1>1, <1>2, <1>3, <1>4, <1>5, <1>6, <1>7, <1>8, <1>9, <1>10, <1>11, <1>12, <1>13,
           <1>14, <1>15 DEF Setups!Next, Setups!RunScript

LEMMA ReadyIsSeen == SetupInv => Setups!SetupMakesReady
<1> SUFFICES ASSUME SetupInv, NEW w \in Window,
                    Setups!At(w, "done"), window[w].clean, window[w].action = "InstallDistro",
                    window[w].asked = Jammy, Cardinality(Setups!Installed \cap Ubuntu) <= 1
             PROVE  Setups!Seen = "Ready"
    BY SetupsCardinality DEF Setups!SetupMakesReady
<1> DEFINE name == window[w].name
<1>1. name \in Setups!Installed /\ name \in Ubuntu /\ version[name] = 2
    <2>1. ScriptFits(window[w]) /\ window[w].pc = "done"
        BY DEF SetupInv, Setups!At
    <2> DEFINE x == window[w]
    <2>2. /\ ScriptFits(x) /\ x.pc = "done" /\ x.action = "InstallDistro" /\ x.clean
          /\ x.asked = Jammy
        BY <2>1
    <2> HIDE DEF x
    <2>3. x.name \in Setups!SameAs(x.asked) \cap Setups!Installed /\ version[x.name] = 2
        BY <2>2 DEF ScriptFits
    <2>4. x.name \in {Jammy, Generic}
        BY <2>2, <2>3 DEF Setups!SameAs
    <2> QED BY <2>3, <2>4, DistroAssumption DEF x
<1>2. \A d \in Setups!Installed \cap Ubuntu : d = name
    <2> SUFFICES ASSUME NEW d \in Setups!Installed \cap Ubuntu, d # name PROVE FALSE
        OBVIOUS
    <2>1. IsFiniteSet(Setups!Installed \cap Ubuntu)
        BY DistroAssumption, FS_Subset
    <2>2. {d, name} \in SUBSET (Setups!Installed \cap Ubuntu)
        BY <1>1
    <2>3. Cardinality({d, name}) <= Cardinality(Setups!Installed \cap Ubuntu)
        BY <2>1, <2>2, FS_Subset
    <2>4. IsFiniteSet({name}) /\ Cardinality({name}) = 1
        BY FS_Singleton
    <2>5. Cardinality({d, name}) = 2
        <3>1. {name} \cup {d} = {d, name} /\ d \notin {name}
            OBVIOUS
        <3>2. Cardinality({name} \cup {d}) = Cardinality({name}) + 1
            BY <2>4, <3>1, FS_AddElement
        <3> QED BY <2>4, <3>1, <3>2
    <2>6. Cardinality(Setups!Installed \cap Ubuntu) \in Nat
        BY <2>1, FS_CardinalityType
    <2> QED BY <2>3, <2>5, <2>6
<1>3. Len(listing) \in Nat /\ DOMAIN listing = 1..Len(listing)
    BY DEF SetupInv
<1>4. PICK i \in 1..Len(listing) : listing[i] = name
    BY <1>1, <1>3 DEF Setups!Installed, Setups!ToSet
<1>5. Setups!Selected = name
    <2> DEFINE last == LastIn(listing, Ubuntu)
    <2>1. last \in 1..Len(listing) /\ listing[last] \in Ubuntu
        BY <1>1, <1>3, <1>4, LastOne DEF SetupInv
    <2>2. Setups!Selected = listing[last]
        BY <2>1, SelectedIn
    <2>3. listing[last] \in Setups!Installed
        BY <1>3, <2>1 DEF Setups!Installed, Setups!ToSet
    <2> QED BY <1>2, <2>1, <2>2, <2>3
<1>6. listing # <<>> /\ feature = "on"
    BY <1>4 DEF SetupInv
<1> QED BY <1>1, <1>5, <1>6 DEF Setups!Seen
-----------------------------------------------------------------------------
(* The harvester tracker.  A block that leaves the list of records is      *)
(* behind every block that somebody may still look at: were it not, the    *)
(* list and the new record would be KeepBlocks + 1 blocks close to it.     *)

(* Who looks at blocks, or will, is not further behind than Reach.          *)
LooksAreNear ==
    /\ cachedHeight > 0 => height <= cachedHeight + MaxLag
    /\ \A w \in Harvests!Walker : Harvests!Walking(w) => height <= scan[w].next + Harvests!Reach

(* No block is recorded twice, and a later record is not much older.        *)
RecordsInOrder ==
    \A i, j \in 1..Len(stats.blocks) :
        i < j => /\ stats.blocks[i] # stats.blocks[j]
                 /\ stats.blocks[j] <= stats.blocks[i] + Harvests!Reach

(* Blocks near enough to be looked at again are among the records.          *)
NoneForgotten ==
    /\ counted \subseteq 1..height
    /\ \A i \in 1..Len(stats.blocks) : stats.blocks[i] \in counted
    /\ \A h \in counted : height <= h + Harvests!Reach =>
          \E i \in 1..Len(stats.blocks) : stats.blocks[i] = h

HarvestInv ==
    /\ Harvests!TypeOK /\ LooksAreNear /\ RecordsInOrder /\ NoneForgotten
    /\ Harvests!CountedOnce

LEMMA InitHarvest == Harvests!Init => HarvestInv
<1> SUFFICES ASSUME Harvests!Init PROVE HarvestInv
    OBVIOUS
<1>1. stats = Harvests!NoStats /\ statsFile = Harvests!NoStats /\ counted = {}
        /\ stats.blocks = <<>> /\ stats.total = 0
    BY DEF Harvests!Init, Harvests!NoStats
<1>2. Harvests!NoStats \in Harvests!Stats /\ Len(stats.blocks) = 0
    BY <1>1 DEF Harvests!NoStats, Harvests!Stats
<1>3. scan \in [Harvests!Walker -> [on : BOOLEAN, next : 0..MaxHeight + 1, last : 0..MaxHeight]]
    <2>1. Harvests!NoBlocks \in [on : BOOLEAN, next : 0..MaxHeight + 1, last : 0..MaxHeight]
        BY LooksAssumption DEF Harvests!NoBlocks
    <2> QED BY <2>1 DEF Harvests!Init
<1>4. Harvests!TypeOK
    BY <1>1, <1>2, <1>3, LooksAssumption DEF Harvests!Init, Harvests!TypeOK, Harvests!Height
<1>5. LooksAreNear
    BY DEF Harvests!Init, LooksAreNear, Harvests!Walking, Harvests!NoBlocks
<1>6. RecordsInOrder /\ NoneForgotten
    BY <1>1, <1>2 DEF RecordsInOrder, NoneForgotten
<1>7. Harvests!CountedOnce
    BY <1>1, FS_EmptySet, HarvestsCardinality DEF Harvests!CountedOnce
<1> QED BY <1>4, <1>5, <1>6, <1>7 DEF HarvestInv

(* What Kept leaves of a sequence with one more element. *)
LEMMA KeptEffect ==
    ASSUME NEW B \in Seq(Harvests!Height), Len(B) <= KeepBlocks, NEW h \in Harvests!Height
    PROVE  \E n \in Nat :
              /\ n <= Len(B) + 1 /\ (n < Len(B) + 1 => n = KeepBlocks /\ n = Len(B))
              /\ Harvests!Kept(<<h>> \o B) \in Seq(Harvests!Height)
              /\ Len(Harvests!Kept(<<h>> \o B)) = n /\ n <= KeepBlocks
              /\ \A i \in 1..n : Harvests!Kept(<<h>> \o B)[i] = IF i = 1 THEN h ELSE B[i - 1]
<1> DEFINE M == <<h>> \o B
           n == IF Len(B) + 1 > KeepBlocks THEN KeepBlocks ELSE Len(B) + 1
<1>1. /\ M \in Seq(Harvests!Height) /\ Len(M) = Len(B) + 1 /\ Len(B) \in Nat
      /\ \A i \in 1..Len(M) : M[i] = IF i = 1 THEN h ELSE B[i - 1]
    OBVIOUS
<1>2. Harvests!Kept(M) = SubSeq(M, 1, n)
    BY <1>1 DEF Harvests!Kept
<1> HIDE DEF M
<1>3. n \in 0..Len(M)
    BY <1>1, LooksAssumption
<1> HIDE DEF n
<1>4. SubSeq(M, 1, n) \in Seq(Harvests!Height) /\ Len(SubSeq(M, 1, n)) = n
      /\ \A i \in 1..n : SubSeq(M, 1, n)[i] = M[i]
    BY <1>1, <1>3
<1>5. n \in Nat /\ n <= KeepBlocks /\ n <= Len(B) + 1 /\ (n < Len(B) + 1 => n = KeepBlocks /\ n = Len(B))
    BY <1>1, LooksAssumption DEF n
<1>6. \A i \in 1..n : M[i] = IF i = 1 THEN h ELSE B[i - 1]
    BY <1>1, <1>3
<1> QED BY <1>2, <1>4, <1>5, <1>6 DEF M

(* A block that is recorded was not in the total, and no block that        *)
(* somebody may still look at is forgotten for it.                         *)
LEMMA RecordStep ==
    ASSUME HarvestInv, NEW h \in 1..height, h \in Signed, height <= h + Harvests!Reach,
           Harvests!RecordValidatedBlock(h), height' = height
    PROVE  /\ stats' \in Harvests!Stats /\ statsFile' = stats' /\ Len(stats'.blocks) <= KeepBlocks
           /\ counted' \subseteq Signed
           /\ RecordsInOrder' /\ NoneForgotten' /\ Harvests!CountedOnce'
<1> DEFINE B == stats.blocks
<1>1. /\ B \in Seq(Harvests!Height) /\ Len(B) \in Nat /\ Len(B) <= KeepBlocks
      /\ DOMAIN B = 1..Len(B)
      /\ stats.total \in Nat /\ height \in Harvests!Height
      /\ \A i \in 1..Len(B) : B[i] \in Harvests!Height
    BY DEF HarvestInv, Harvests!TypeOK, Harvests!Stats
<1>n. Len(B) \in Nat
    BY <1>1
<1>2. CASE h \in Harvests!Range(stats.blocks)
    <2>1. UNCHANGED <<stats, statsFile, counted>>
        BY <1>2 DEF Harvests!RecordValidatedBlock
    <2> QED BY <2>1
               DEF HarvestInv, Harvests!TypeOK, RecordsInOrder, NoneForgotten,
                   Harvests!CountedOnce
<1>3. CASE h \notin Harvests!Range(stats.blocks)
    <2>1. /\ stats' = [blocks |-> Harvests!Kept(<<h>> \o B), total |-> stats.total + 1]
          /\ statsFile' = stats' /\ counted' = counted \cup {h}
        BY <1>3 DEF Harvests!RecordValidatedBlock
    <2>2. \A i \in 1..Len(B) : B[i] # h
        BY <1>1, <1>3 DEF Harvests!Range
    <2>3. h \notin counted
        BY <2>2 DEF HarvestInv, NoneForgotten
    <2>4. h \in Harvests!Height
        BY <1>1, LooksAssumption DEF Harvests!Height
    <2>a. B \in Seq(Harvests!Height) /\ Len(B) <= KeepBlocks
        BY <1>1
    <2> HIDE DEF B
    <2>5. PICK n \in Nat :
             /\ n <= Len(B) + 1 /\ (n < Len(B) + 1 => n = KeepBlocks /\ n = Len(B))
             /\ Harvests!Kept(<<h>> \o B) \in Seq(Harvests!Height)
             /\ Len(Harvests!Kept(<<h>> \o B)) = n
             /\ n <= KeepBlocks
             /\ \A i \in 1..n : Harvests!Kept(<<h>> \o B)[i] = IF i = 1 THEN h ELSE B[i - 1]
        BY <2>a, <2>4, KeptEffect, Zenon
    <2>p. PICK N : N = Harvests!Kept(<<h>> \o B)
        OBVIOUS
    <2>6. /\ N \in Seq(Harvests!Height) /\ Len(N) = n /\ Len(N) <= KeepBlocks
          /\ \A i \in 1..n : N[i] = IF i = 1 THEN h ELSE B[i - 1]
        BY <2>5, <2>p
    <2>7. n \in Nat /\ n <= Len(B) + 1 /\ (n < Len(B) + 1 => n = KeepBlocks /\ n = Len(B))
        BY <2>5
    <2>8. stats'.blocks = N /\ stats'.total = stats.total + 1
        BY <2>1, <2>p
    <2>9. stats' \in Harvests!Stats /\ statsFile' = stats' /\ Len(stats'.blocks) <= KeepBlocks
        BY <1>1, <2>1, <2>p, <2>6 DEF Harvests!Stats
    <2>10. counted' \subseteq Signed /\ counted' \subseteq 1..height'
        BY <2>1 DEF HarvestInv, Harvests!TypeOK, NoneForgotten
    <2>11. RecordsInOrder'
        <3>1. ASSUME NEW i \in 1..n, NEW j \in 1..n, i < j
              PROVE  N[i] # N[j] /\ N[j] <= N[i] + Harvests!Reach
            <4>1. j - 1 \in 1..Len(B) /\ N[j] = B[j - 1] /\ B[j - 1] \in 1..height
                <5>1. j - 1 \in 1..Len(B)
                    BY <1>n, <2>7, <3>1
                <5>2. N[j] = B[j - 1]
                    BY <2>6, <3>1
                <5>3. B[j - 1] \in 1..height
                    BY <5>1 DEF HarvestInv, NoneForgotten, B
                <5> QED BY <5>1, <5>2, <5>3
            <4>2. CASE i = 1
                <5>1. N[i] = h
                    BY <2>6, <4>2
                <5> QED BY <1>1, <2>2, <4>1, <5>1, LooksAssumption
                           DEF Harvests!Reach, Harvests!Height
            <4>3. CASE i # 1
                <5>1. i - 1 \in 1..Len(B) /\ N[i] = B[i - 1] /\ i - 1 < j - 1
                    BY <1>n, <2>6, <2>7, <3>1, <4>3
                <5> QED BY <4>1, <5>1 DEF HarvestInv, RecordsInOrder, B
            <4> QED BY <4>2, <4>3
        <3> QED BY <2>6, <2>8, <3>1 DEF RecordsInOrder
    <2>12. \A i \in 1..n : N[i] \in counted'
        <3> SUFFICES ASSUME NEW i \in 1..n PROVE N[i] \in counted'
            OBVIOUS
        <3>1. CASE i = 1
            BY <2>1, <2>6, <3>1
        <3>2. CASE i # 1
            <4>1. i - 1 \in 1..Len(B) /\ N[i] = B[i - 1]
                BY <1>n, <2>6, <2>7, <3>2
            <4> QED BY <2>1, <4>1 DEF HarvestInv, NoneForgotten, B
        <3> QED BY <3>1, <3>2
    <2>13. ASSUME NEW g \in counted', height <= g + Harvests!Reach
           PROVE  \E i \in 1..n : N[i] = g
        <3> SUFFICES ASSUME \A i \in 1..n : N[i] # g PROVE FALSE
            OBVIOUS
        (* The block g was the last one, and there is no room for it. *)
        <3>1. PICK k \in 0..Len(B) : IF k = 0 THEN g = h ELSE g = B[k]
            <4>1. CASE g = h
                BY <1>1, <4>1
            <4>2. CASE g \in counted
                <5>1. PICK k \in 1..Len(B) : B[k] = g
                    BY <2>13, <4>2 DEF HarvestInv, NoneForgotten, B
                <5> QED BY <1>1, <5>1
            <4> QED BY <2>1, <4>1, <4>2
        <3>2. k + 1 \notin 1..n
            <4> SUFFICES ASSUME k + 1 \in 1..n PROVE FALSE
                OBVIOUS
            <4>1. N[k + 1] = IF k + 1 = 1 THEN h ELSE B[k + 1 - 1]
                BY <2>6
            <4>2. k + 1 - 1 = k /\ (k + 1 = 1 <=> k = 0)
                BY <1>n
            <4>3. N[k + 1] = g
                BY <3>1, <4>1, <4>2
            <4> QED BY <4>3
        <3>3. k = KeepBlocks /\ n = KeepBlocks /\ Len(B) = KeepBlocks
            BY <1>n, <2>7, <3>1, <3>2
        <3> DEFINE F == [i \in 0..KeepBlocks |-> IF i = 0 THEN h ELSE B[i]]
        <3>4. \A i \in 0..KeepBlocks : /\ F[i] \in 1..height /\ F[i] \in Signed
            <4>1. \A i \in 1..Len(B) : B[i] \in 1..height /\ B[i] \in Signed
                BY DEF HarvestInv, NoneForgotten, Harvests!TypeOK, B
            <4> QED BY <3>3, <4>1
        <3>5. \A i \in 0..KeepBlocks : g <= F[i] + Harvests!Reach
            <4> SUFFICES ASSUME NEW i \in 0..KeepBlocks PROVE g <= F[i] + Harvests!Reach
                OBVIOUS
            <4>1. CASE i = k
                BY <3>1, <3>3, <3>4, <4>1, LooksAssumption DEF Harvests!Reach
            <4>2. CASE i = 0 /\ i # k
                <5>1. g \in 1..height /\ F[i] = h
                    BY <2>10, <4>2, height' = height
                <5> QED BY <1>1, <5>1, LooksAssumption DEF Harvests!Reach, Harvests!Height
            <4>3. CASE i # 0 /\ i # k
                <5>1. i \in 1..Len(B) /\ k \in 1..Len(B) /\ i < k /\ F[i] = B[i] /\ g = B[k]
                    BY <1>1, <3>1, <3>3, <4>3, LooksAssumption
                <5> QED BY <5>1 DEF HarvestInv, RecordsInOrder, B
            <4> QED BY <4>1, <4>2, <4>3
        <3>6. ASSUME NEW i \in 0..KeepBlocks, NEW j \in 0..KeepBlocks, i < j PROVE F[i] # F[j]
            <4>1. j \in 1..Len(B) /\ F[j] = B[j]
                BY <3>3, <3>6, LooksAssumption
            <4>2. CASE i = 0
                BY <2>2, <4>1, <4>2 DEF B
            <4>3. CASE i # 0
                <5>1. i \in 1..Len(B) /\ F[i] = B[i]
                    BY <3>3, <4>3
                <5> QED BY <3>6, <4>1, <5>1 DEF HarvestInv, RecordsInOrder, B
            <4> QED BY <4>2, <4>3
        <3> HIDE DEF F
        <3>7. g \in Harvests!Height /\ g \in 1..height
            BY <1>1, <2>10, height' = height, LooksAssumption DEF Harvests!Height
        <3>8. \A i \in 0..KeepBlocks : F[i] \in Harvests!Around(g)
            <4> SUFFICES ASSUME NEW i \in 0..KeepBlocks PROVE F[i] \in Harvests!Around(g)
                OBVIOUS
            <4>1. F[i] \in Harvests!Height /\ F[i] <= g + Harvests!Reach
                <5>1. F[i] \in 1..height /\ height \in 1..MaxHeight
                    BY <1>1, <3>4 DEF Harvests!Height
                <5> QED BY <2>13, <3>7, <5>1, LooksAssumption DEF Harvests!Height, Harvests!Reach
            <4> QED BY <3>4, <3>5, <4>1 DEF Harvests!Around
        <3>9. F \in [0..KeepBlocks -> Harvests!Around(g)]
            BY <3>8 DEF F
        <3>10. IsFiniteSet(0..KeepBlocks) /\ Cardinality(0..KeepBlocks) = KeepBlocks + 1
            <4>1. 0 \in Int /\ KeepBlocks \in Int /\ ~(0 > KeepBlocks)
                    /\ KeepBlocks - 0 + 1 = KeepBlocks + 1
                BY LooksAssumption
            <4> QED BY <4>1, FS_Interval
        <3>11. IsFiniteSet(Harvests!Around(g))
            <4>1. IsFiniteSet(1..MaxHeight)
                BY FS_Interval, LooksAssumption
            <4>2. Harvests!Around(g) \in SUBSET (1..MaxHeight)
                BY DEF Harvests!Around, Harvests!Height
            <4> QED BY <4>1, <4>2, FS_Subset
        <3>12. Cardinality(Harvests!Around(g)) < Cardinality(0..KeepBlocks)
            <4>1. Cardinality(Harvests!Around(g)) <= KeepBlocks
                BY <3>7, KeepsAssumption, HarvestsCardinality DEF Harvests!KeepsEnough
            <4>2. Cardinality(Harvests!Around(g)) \in Nat
                BY <3>11, FS_CardinalityType
            <4> QED BY <3>10, <4>1, <4>2, LooksAssumption
        <3>13. PICK i, j \in 0..KeepBlocks : i # j /\ F[i] = F[j]
            BY <3>9, <3>10, <3>11, <3>12, FS_PigeonHole
        <3> QED BY <3>6, <3>13, LooksAssumption
    <2>14. NoneForgotten'
        BY <2>6, <2>8, <2>10, <2>12, <2>13, height' = height DEF NoneForgotten
    <2>15. Harvests!CountedOnce'
        <3>1. IsFiniteSet(counted)
            <4>1. IsFiniteSet(1..height)
                BY <1>1, FS_Interval DEF Harvests!Height
            <4>2. counted \in SUBSET (1..height)
                BY DEF HarvestInv, NoneForgotten
            <4> QED BY <4>1, <4>2, FS_Subset
        <3>2. Cardinality(counted \cup {h}) = Cardinality(counted) + 1
            BY <2>3, <3>1, FS_AddElement
        <3> QED BY <2>1, <2>8, <3>2, HarvestsCardinality DEF HarvestInv, Harvests!CountedOnce
    <2> QED BY <2>9, <2>10, <2>11, <2>14, <2>15
<1> QED BY <1>2, <1>3

Walk == [on : BOOLEAN, next : 0..MaxHeight + 1, last : 0..MaxHeight]

(* The walker w is where x says. *)
LEMMA WalkStep ==
    ASSUME HarvestInv, NEW w \in Harvests!Walker, NEW x \in Walk, scan' = [scan EXCEPT ![w] = x],
           x.on => height <= x.next + Harvests!Reach,
           UNCHANGED <<height, cachedHeight, stats, statsFile, counted>>,
           scanned' \in Harvests!Height \cup {0}
    PROVE  HarvestInv'
<1>1. Harvests!TypeOK'
    <2>1. scan' \in [Harvests!Walker -> Walk]
        BY DEF HarvestInv, Harvests!TypeOK, Walk
    <2> QED BY <2>1 DEF HarvestInv, Harvests!TypeOK, Walk
<1>2. LooksAreNear'
    BY DEF HarvestInv, Harvests!TypeOK, LooksAreNear, Harvests!Walking
<1> QED BY <1>1, <1>2 DEF HarvestInv, RecordsInOrder, NoneForgotten, Harvests!CountedOnce

LEMMA ScanRoundStep == HarvestInv /\ Harvests!ScanRound => HarvestInv'
<1> SUFFICES ASSUME HarvestInv, Harvests!ScanRound PROVE HarvestInv'
    OBVIOUS
<1> DEFINE first == IF scanned = 0 THEN Harvests!AtLeast(cachedHeight - FirstLook, 1) + 1 ELSE scanned + 1
           from == IF cachedHeight - first > FarBehind THEN cachedHeight - Lookback ELSE first
           to == IF cachedHeight - from > Chunk THEN from + Chunk - 1 ELSE cachedHeight
<1>1. /\ cachedHeight \in 1..MaxHeight /\ scanned \in 0..MaxHeight /\ height \in 1..MaxHeight
      /\ height <= cachedHeight + MaxLag
    BY LooksAssumption
       DEF Harvests!ScanRound, HarvestInv, Harvests!TypeOK, LooksAreNear, Harvests!Height
<1>2. /\ first <= cachedHeight /\ scan' = [scan EXCEPT !["scanner"] = Harvests!Blocks(from, to)]
      /\ UNCHANGED <<height, cachedHeight, stats, statsFile, scanned, counted>>
    BY DEF Harvests!ScanRound
<1>3. first \in 1..MaxHeight + 1
    BY <1>1, LooksAssumption DEF Harvests!AtLeast
<1> HIDE DEF first
<1>4. from \in 1..MaxHeight /\ from <= cachedHeight /\ cachedHeight <= from + FarBehind
    BY <1>1, <1>2, <1>3, LooksAssumption
<1> HIDE DEF from
<1>5. to \in 0..MaxHeight
    BY <1>1, <1>4, LooksAssumption
<1> HIDE DEF to
<1>6. Harvests!Blocks(from, to) \in Walk
    BY <1>4, <1>5, LooksAssumption DEF Harvests!Blocks, Walk
<1>7. height <= from + Harvests!Reach
    BY <1>1, <1>4, LooksAssumption DEF Harvests!Reach
<1>8. PICK x \in Walk : scan' = [scan EXCEPT !["scanner"] = x] /\ height <= x.next + Harvests!Reach
    BY <1>2, <1>6, <1>7 DEF Harvests!Blocks
<1>9. scanned' \in Harvests!Height \cup {0}
    BY <1>2 DEF HarvestInv, Harvests!TypeOK
<1> QED BY <1>2, <1>8, <1>9, WalkStep DEF Harvests!Walker

LEMMA StepHarvest == HarvestInv /\ [Harvests!Next]_(Harvests!vars) => HarvestInv'
<1> SUFFICES ASSUME HarvestInv, [Harvests!Next]_(Harvests!vars) PROVE HarvestInv'
    OBVIOUS
<1>t. /\ height \in 1..MaxHeight /\ cachedHeight \in 0..MaxHeight
      /\ scan \in [Harvests!Walker -> Walk] /\ scanned \in Harvests!Height \cup {0}
    BY LooksAssumption DEF HarvestInv, Harvests!TypeOK, Harvests!Height, Walk
<1>r. UNCHANGED <<stats, statsFile, counted>> =>
         /\ stats' \in Harvests!Stats /\ statsFile' = stats' /\ Len(stats'.blocks) <= KeepBlocks
         /\ counted' \subseteq Signed /\ RecordsInOrder' /\ Harvests!CountedOnce'
    BY DEF HarvestInv, Harvests!TypeOK, RecordsInOrder, Harvests!CountedOnce
<1>1. CASE Harvests!Grow
    <2>1. height' = height + 1 /\ height' \in Harvests!Height
        BY <1>1, <1>t, LooksAssumption DEF Harvests!Grow, Harvests!Height
    <2>2. Harvests!TypeOK'
        BY <1>1, <2>1 DEF Harvests!Grow, HarvestInv, Harvests!TypeOK
    <2>3. LooksAreNear'
        <3>1. cachedHeight' > 0 => height' <= cachedHeight' + MaxLag
            BY <1>1, <1>t, LooksAssumption DEF Harvests!Grow
        <3>2. ASSUME NEW w \in Harvests!Walker, Harvests!Walking(w)
              PROVE height' <= scan[w].next + Harvests!Reach
            <4>1. height < scan[w].next + MaxLag /\ scan[w].next \in 0..MaxHeight + 1
                BY <1>1, <1>t, <3>2 DEF Harvests!Grow, Walk
            <4> QED BY <1>t, <2>1, <4>1, LooksAssumption DEF Harvests!Reach
        <3> QED BY <1>1, <3>1, <3>2 DEF Harvests!Grow, LooksAreNear, Harvests!Walking
    <2>4. NoneForgotten'
        <3>1. UNCHANGED <<stats, counted>>
            BY <1>1 DEF Harvests!Grow
        <3>2. counted \subseteq 1..height'
            BY <1>t, <2>1 DEF HarvestInv, NoneForgotten
        <3>3. ASSUME NEW h \in counted, height' <= h + Harvests!Reach
              PROVE height <= h + Harvests!Reach
            <4>1. h \in 1..height
                BY DEF HarvestInv, NoneForgotten
            <4> QED BY <1>t, <2>1, <3>3, <4>1, LooksAssumption DEF Harvests!Reach
        <3> QED BY <3>1, <3>2, <3>3 DEF HarvestInv, NoneForgotten
    <2> QED BY <1>1, <1>r, <2>2, <2>3, <2>4 DEF Harvests!Grow, HarvestInv
<1>2. CASE Harvests!PollHeight
    <2>1. /\ cachedHeight' \in 1..MaxHeight /\ height <= cachedHeight' + MaxLag
          /\ UNCHANGED <<height, stats, statsFile, scanned, scan, counted>>
        <3>1. /\ cachedHeight' \in 1..MaxHeight /\ height - 1 <= cachedHeight'
              /\ UNCHANGED <<height, stats, statsFile, scanned, scan, counted>>
            BY <1>2 DEF Harvests!PollHeight, Harvests!Height
        <3>2. height <= cachedHeight' + MaxLag
            <4>1. \A a, b \in Nat, m \in Nat \ {0} : a - 1 <= b => a <= b + m
                OBVIOUS
            <4>2. height \in Nat /\ cachedHeight' \in Nat /\ height - 1 <= cachedHeight'
                BY <1>t, <3>1
            <4> QED BY <4>1, <4>2, LooksAssumption
        <3> QED BY <3>1, <3>2
    <2>2. Harvests!TypeOK'
        BY <2>1 DEF HarvestInv, Harvests!TypeOK, Harvests!Height
    <2>3. LooksAreNear'
        BY <2>1 DEF HarvestInv, LooksAreNear, Harvests!Walking
    <2>4. NoneForgotten'
        BY <2>1 DEF HarvestInv, NoneForgotten
    <2> QED BY <1>r, <2>1, <2>2, <2>3, <2>4 DEF HarvestInv
<1>3. CASE Harvests!Bootstrap
    <2>1. /\ cachedHeight > Lookback /\ height <= cachedHeight + MaxLag
          /\ UNCHANGED <<height, cachedHeight, stats, statsFile, scanned, counted>>
        BY <1>3, <1>t, LooksAssumption DEF Harvests!Bootstrap, HarvestInv, LooksAreNear
    <2>2. /\ cachedHeight - Lookback \in 0..MaxHeight + 1
          /\ height <= cachedHeight - Lookback + Harvests!Reach
        BY <1>t, <2>1, LooksAssumption DEF Harvests!Reach
    <2>3. PICK x \in Walk : scan' = [scan EXCEPT !["scanner"] = x] /\ height <= x.next + Harvests!Reach
        <3>1. Harvests!Blocks(cachedHeight - Lookback, cachedHeight) \in Walk
            BY <1>t, <2>2 DEF Harvests!Blocks, Walk
        <3> QED BY <1>3, <2>2, <3>1 DEF Harvests!Bootstrap, Harvests!Blocks
    <2> QED BY <1>t, <2>1, <2>3, WalkStep DEF Harvests!Walker
<1>4. CASE Harvests!ScanRound
    BY <1>4, ScanRoundStep
<1>5. CASE Harvests!EndRound
    <2>1. Harvests!NoBlocks \in Walk /\ ~Harvests!NoBlocks.on
        BY LooksAssumption DEF Harvests!NoBlocks, Walk
    <2>2. PICK x \in Walk : scan' = [scan EXCEPT !["scanner"] = x] /\ ~x.on
        BY <1>5, <2>1 DEF Harvests!EndRound
    <2>3. scanned' \in Harvests!Height \cup {0}
        <3>1. scan["scanner"].last \in 0..MaxHeight
            BY <1>t DEF Harvests!Walker, Walk
        <3> QED BY <1>5, <3>1, LooksAssumption DEF Harvests!EndRound, Harvests!Height
    <2> QED BY <1>5, <2>2, <2>3, WalkStep DEF Harvests!EndRound, Harvests!Walker
<1>6. CASE Harvests!TriggerCheck
    <2>1. /\ cachedHeight > 0 /\ height <= cachedHeight + MaxLag
          /\ UNCHANGED <<height, cachedHeight, stats, statsFile, scanned, counted>>
        BY <1>6, <1>t DEF Harvests!TriggerCheck, HarvestInv, LooksAreNear
    <2> DEFINE from == Harvests!AtLeast(cachedHeight - Newest, 1)
    <2>2. from \in 0..MaxHeight + 1 /\ height <= from + Harvests!Reach
        BY <1>t, <2>1, LooksAssumption DEF Harvests!Reach, Harvests!AtLeast
    <2>3. scan' = [scan EXCEPT !["request"] = Harvests!Blocks(from, cachedHeight)]
        BY <1>6 DEF Harvests!TriggerCheck
    <2> HIDE DEF from
    <2>4. PICK x \in Walk : scan' = [scan EXCEPT !["request"] = x] /\ height <= x.next + Harvests!Reach
        <3>1. Harvests!Blocks(from, cachedHeight) \in Walk
            BY <1>t, <2>2 DEF Harvests!Blocks, Walk
        <3> QED BY <2>2, <2>3, <3>1 DEF Harvests!Blocks
    <2> QED BY <1>t, <2>1, <2>4, WalkStep DEF Harvests!Walker
<1>7. CASE Harvests!EndCheck
    <2>1. Harvests!NoBlocks \in Walk /\ ~Harvests!NoBlocks.on
        BY LooksAssumption DEF Harvests!NoBlocks, Walk
    <2>2. PICK x \in Walk : scan' = [scan EXCEPT !["request"] = x] /\ ~x.on
        BY <1>7, <2>1 DEF Harvests!EndCheck
    <2> QED BY <1>7, <1>t, <2>2, WalkStep DEF Harvests!EndCheck, Harvests!Walker
<1>8. CASE Harvests!ResetStats
    <2>1. /\ stats' = Harvests!NoStats /\ statsFile' = Harvests!NoStats /\ counted' = {}
          /\ UNCHANGED <<height, cachedHeight, scanned, scan>>
        BY <1>8 DEF Harvests!ResetStats
    <2>2. /\ Harvests!NoStats \in Harvests!Stats /\ Harvests!NoStats.blocks = <<>>
          /\ Harvests!NoStats.total = 0
          /\ Len(Harvests!NoStats.blocks) = 0
        BY DEF Harvests!NoStats, Harvests!Stats
    <2>3. Harvests!TypeOK'
        BY <2>1, <2>2, LooksAssumption DEF HarvestInv, Harvests!TypeOK
    <2>4. LooksAreNear'
        BY <2>1 DEF HarvestInv, LooksAreNear, Harvests!Walking
    <2>5. RecordsInOrder' /\ NoneForgotten' /\ Harvests!CountedOnce'
        BY <2>1, <2>2, FS_EmptySet, HarvestsCardinality
           DEF RecordsInOrder, NoneForgotten, Harvests!CountedOnce
    <2> QED BY <2>3, <2>4, <2>5 DEF HarvestInv
<1>9. CASE Harvests!Restart
    <2>1. /\ cachedHeight' = 0 /\ scanned' = 0 /\ height' = height
          /\ scan' = [w \in Harvests!Walker |-> Harvests!NoBlocks]
        BY <1>9 DEF Harvests!Restart
    <2>2. scan' \in [Harvests!Walker -> Walk] /\ LooksAreNear'
        <3>1. Harvests!NoBlocks \in Walk /\ ~Harvests!NoBlocks.on
            BY LooksAssumption DEF Harvests!NoBlocks, Walk
        <3> QED BY <2>1, <3>1 DEF LooksAreNear, Harvests!Walking
    <2>3. /\ stats' \in Harvests!Stats /\ statsFile' = stats' /\ Len(stats'.blocks) <= KeepBlocks
          /\ counted' \subseteq Signed
          /\ RecordsInOrder' /\ NoneForgotten' /\ Harvests!CountedOnce'
        <3>1. PICK file \in {statsFile, Harvests!NoStats} :
                 /\ stats' = file /\ statsFile' = file
                 /\ counted' = IF file = Harvests!NoStats THEN {} ELSE counted
            BY <1>9 DEF Harvests!Restart
        <3>2. CASE file = Harvests!NoStats
            <4>1. /\ Harvests!NoStats \in Harvests!Stats /\ Harvests!NoStats.blocks = <<>>
                  /\ Harvests!NoStats.total = 0
                  /\ Len(Harvests!NoStats.blocks) = 0
                BY DEF Harvests!NoStats, Harvests!Stats
            <4> QED BY <3>1, <3>2, <4>1, LooksAssumption, FS_EmptySet, HarvestsCardinality
                    DEF RecordsInOrder, NoneForgotten, Harvests!CountedOnce
        <3>3. CASE file # Harvests!NoStats
            <4>1. UNCHANGED <<stats, statsFile, counted>>
                BY <3>1, <3>3 DEF HarvestInv, Harvests!TypeOK
            <4>2. NoneForgotten'
                BY <2>1, <4>1 DEF HarvestInv, NoneForgotten
            <4> QED BY <1>r, <4>1, <4>2
        <3> QED BY <3>2, <3>3
    <2>4. Harvests!TypeOK'
        BY <1>t, <2>1, <2>2, <2>3 DEF HarvestInv, Harvests!TypeOK, Walk
    <2> QED BY <2>2, <2>3, <2>4 DEF HarvestInv
<1>10. ASSUME NEW w \in Harvests!Walker, Harvests!CheckBlock(w) PROVE HarvestInv'
    <2> DEFINE h == scan[w].next
               x == [scan[w] EXCEPT !.next = h + 1]
    <2>1. /\ Harvests!Walking(w) /\ h <= scan[w].last /\ UNCHANGED <<height, cachedHeight, scanned>>
          /\ scan' = [scan EXCEPT ![w].next = h + 1]
        BY <1>10 DEF Harvests!CheckBlock
    <2>2. scan[w] \in Walk /\ h \in 0..MaxHeight /\ height <= h + Harvests!Reach
        <3>1. scan[w] \in Walk
            BY <1>t
        <3>2. h \in 0..MaxHeight + 1 /\ scan[w].last \in 0..MaxHeight
            BY <3>1 DEF Walk
        <3> QED BY <2>1, <3>1, <3>2, LooksAssumption DEF HarvestInv, LooksAreNear
    <2>3. x \in Walk /\ x.next = h + 1 /\ scan' = [scan EXCEPT ![w] = x]
        BY <1>t, <2>1, <2>2, LooksAssumption DEF Walk
    <2> HIDE DEF x
    <2>4. scan' \in [Harvests!Walker -> Walk] /\ LooksAreNear'
        <3>1. scan' \in [Harvests!Walker -> Walk]
            BY <1>t, <2>3
        <3>2. height <= x.next + Harvests!Reach
            BY <1>t, <2>2, <2>3, LooksAssumption DEF Harvests!Reach
        <3> QED BY <1>t, <2>1, <2>3, <3>1, <3>2 DEF HarvestInv, LooksAreNear, Harvests!Walking
    <2>5. /\ stats' \in Harvests!Stats /\ statsFile' = stats' /\ Len(stats'.blocks) <= KeepBlocks
          /\ counted' \subseteq Signed
          /\ RecordsInOrder' /\ NoneForgotten' /\ Harvests!CountedOnce'
        <3>1. CASE UNCHANGED <<stats, statsFile, counted>>
            <4>1. NoneForgotten'
                BY <2>1, <3>1 DEF HarvestInv, NoneForgotten
            <4> QED BY <1>r, <3>1, <4>1
        <3>2. CASE h \in 1..height /\ h \in Signed /\ Harvests!RecordValidatedBlock(h)
            <4>1. PICK g : g = h
                OBVIOUS
            <4>2. /\ g \in 1..height /\ g \in Signed /\ Harvests!RecordValidatedBlock(g)
                  /\ height <= g + Harvests!Reach /\ height' = height
                BY <2>1, <2>2, <3>2, <4>1
            <4> HIDE DEF h
            <4> QED BY <4>2, RecordStep
        <3> QED BY <1>10, <3>1, <3>2 DEF Harvests!CheckBlock
    <2>6. Harvests!TypeOK'
        BY <1>t, <2>1, <2>4, <2>5, LooksAssumption
           DEF HarvestInv, Harvests!TypeOK, Walk, Harvests!Height
    <2> QED BY <2>4, <2>5, <2>6 DEF HarvestInv
<1>11. CASE UNCHANGED Harvests!vars
    BY <1>11
       DEF Harvests!vars, HarvestInv, Harvests!TypeOK, LooksAreNear, Harvests!Walking,
           RecordsInOrder, NoneForgotten, Harvests!CountedOnce
<1> QED BY <1>1, <1>2, <1>3, <1>4, <1>5, <1>6, <1>7, <1>8, <1>9, <1>10, <1>11 DEF Harvests!Next
-----------------------------------------------------------------------------
(* Together: the service that moves keeps its invariant, and the others    *)
(* keep theirs by standing still.                                          *)

ServicesInv ==
    /\ UpdaterInv
    /\ service = "config" => Configs!IInv
    /\ service = "delegation" => Delegations!IInv /\ Delegations!BooksFit
    /\ service = "harvest" => HarvestInv
    /\ service = "restore" => Restores!IInv
    /\ service = "backup" => Backups!IInv
    /\ service = "setup" => SetupInv
    /\ service = "engine" => EngineInv
    /\ service = "storage" => OnboardingInv
    /\ service = "watchdog" => WatchInv

LEMMA ServicesStart == ServicesInit => ServicesInv
<1> SUFFICES ASSUME ServicesInit PROVE ServicesInv
    OBVIOUS
<1>1. UpdaterInv
    BY InitUpdater DEF ServicesInit
<1>2. service = "config" => Configs!IInv
    BY Configs!InitIInv, ConfigAssumption DEF ServicesInit, Configs!ParamsFit
<1>3. service = "delegation" => Delegations!IInv /\ Delegations!BooksFit
    BY Delegations!InitIInv, Delegations!InitBooks, DelegationAssumption
       DEF ServicesInit, Delegations!PageIsNumber, Delegations!SentIsNumber
<1>4. service = "harvest" => HarvestInv
    BY InitHarvest DEF ServicesInit
<1>5. service = "restore" => Restores!IInv
    BY Restores!InitIInv DEF ServicesInit, Restores!Distinct
<1>6. service = "backup" => Backups!IInv
    BY Backups!InitIInv, NobodyAssumption DEF ServicesInit, Backups!Distinct
<1>7. service = "setup" => SetupInv
    BY InitSetup DEF ServicesInit
<1>8. service = "engine" => EngineInv
    BY InitEngine DEF ServicesInit
<1>9. service = "storage" => OnboardingInv
    BY InitOnboarding DEF ServicesInit
<1>10. service = "watchdog" => WatchInv
    BY InitWatch DEF ServicesInit
<1> QED BY <1>1, <1>2, <1>3, <1>4, <1>5, <1>6, <1>7, <1>8, <1>9, <1>10 DEF ServicesInv

LEMMA Moves ==
    ASSUME [ServicesNext]_servicesVars
    PROVE  /\ service' = service
           /\ [Next]_vars
           /\ service = "config" => [Configs!Next]_(Configs!vars)
           /\ service = "delegation" => [Delegations!Next]_(Delegations!vars)
           /\ service = "harvest" => [Harvests!Next]_(Harvests!vars)
           /\ service = "restore" => [Restores!Next]_(Restores!vars)
           /\ service = "backup" => [Backups!Next]_(Backups!vars)
           /\ service = "setup" => [Setups!Next]_(Setups!vars)
           /\ service = "engine" => [Engines!Next]_(Engines!vars)
           /\ service = "storage" => [Onboardings!Next]_(Onboardings!vars)
           /\ service = "watchdog" => [Watches!Next]_(Watches!vars)
<1>1. CASE ServicesNext
    BY <1>1 DEF ServicesNext, Syncs, ServesConfigs, Delegates, Tracks, RestoresData,
                BacksUpData, SetsUp, RunsEngine, Onboards, Watchdogs, OthersStay
<1>2. CASE UNCHANGED servicesVars
    BY <1>2 DEF servicesVars, vars, configVars, delegationVars, harvestVars, archiveVars,
                setupVars, engineVars, storageVars, watchVars, Configs!vars, Delegations!vars,
                Harvests!vars, Restores!vars, Backups!vars, Setups!vars, Engines!vars,
                Onboardings!vars, Watches!vars
<1> QED BY <1>1, <1>2

LEMMA ServicesStep == ServicesInv /\ [ServicesNext]_servicesVars => ServicesInv'
<1> SUFFICES ASSUME ServicesInv, [ServicesNext]_servicesVars PROVE ServicesInv'
    OBVIOUS
<1>0. service' = service
    BY Moves
<1>1. UpdaterInv'
    BY Moves, StepUpdater DEF ServicesInv
<1>2. service = "config" => Configs!IInv'
    BY Moves, Configs!StepIInv DEF ServicesInv
<1>3. service = "delegation" => Delegations!IInv' /\ Delegations!BooksFit'
    BY Moves, Delegations!StepIInv, Delegations!BooksStep DEF ServicesInv
<1>4. service = "harvest" => HarvestInv'
    BY Moves, StepHarvest DEF ServicesInv
<1>5. service = "restore" => Restores!IInv'
    BY Moves, Restores!StepIInv DEF ServicesInv
<1>6. service = "backup" => Backups!IInv'
    BY Moves, Backups!StepIInv DEF ServicesInv
<1>7. service = "setup" => SetupInv'
    BY Moves, StepSetup DEF ServicesInv
<1>8. service = "engine" => EngineInv'
    BY Moves, StepEngine DEF ServicesInv
<1>9. service = "storage" => OnboardingInv'
    BY Moves, StepOnboarding DEF ServicesInv
<1>10. service = "watchdog" => WatchInv'
    BY Moves, StepWatch DEF ServicesInv
<1> QED BY <1>0, <1>1, <1>2, <1>3, <1>4, <1>5, <1>6, <1>7, <1>8, <1>9, <1>10 DEF ServicesInv

(* Whichever service moves, its inductive invariant holds. *)
THEOREM ServicesInvariance == ServicesSpec => []ServicesInv
BY ServicesStart, ServicesStep, PTL DEF ServicesSpec

(* Every variable of every service keeps its type.                         *)
THEOREM AllTypes == ServicesSpec => []AllTypeOK
<1>1. ServicesInv => AllTypeOK
    <2> SUFFICES ASSUME ServicesInv PROVE AllTypeOK
        OBVIOUS
    <2>1. TypeOK
        BY DEF ServicesInv, UpdaterInv
    <2>2. service = "config" => Configs!TypeOK
        BY DEF ServicesInv, Configs!IInv
    <2>3. service = "delegation" => Delegations!TypeOK
        BY Delegations!TypeFollows DEF ServicesInv
    <2>4. service = "harvest" => Harvests!TypeOK
        BY DEF ServicesInv, HarvestInv
    <2>5. service = "restore" => Restores!TypeOK
        BY DEF ServicesInv, Restores!IInv
    <2>6. service = "backup" => Backups!TypeOK
        BY DEF ServicesInv, Backups!IInv
    <2>7. service = "setup" => Setups!TypeOK
        BY DEF ServicesInv, SetupInv
    <2>8. service = "engine" => Engines!TypeOK
        BY DEF ServicesInv, EngineInv
    <2>9. service = "storage" => Onboardings!TypeOK
        BY OnboardingHolds DEF ServicesInv
    <2>10. service = "watchdog" => Watches!TypeOK
        BY DEF ServicesInv, WatchInv
    <2> QED BY <2>1, <2>2, <2>3, <2>4, <2>5, <2>6, <2>7, <2>8, <2>9, <2>10 DEF AllTypeOK
<1> QED BY <1>1, ServicesInvariance, PTL

(* Configuration updater: requests and saved configurations, however many   *)
(* come at once, never synchronise at the same time.                        *)
THEOREM OneAtATime == ServicesSpec => []OneSynchronisation
<1>1. ServicesInv => OneSynchronisation
    BY DEF ServicesInv, UpdaterInv
<1> QED BY <1>1, ServicesInvariance, PTL

(* Configuration updater: a reported rollback has restored every file that  *)
(* could be copied back, with edits of the configuration manager and starts *)
(* of the node at any moment.                                               *)
THEOREM RollbackIsTrue == ServicesSpec => []RollbackRestoresBackup
<1>1. ServicesInv => RollbackRestoresBackup
    BY DEF ServicesInv, UpdaterInv
<1> QED BY <1>1, ServicesInvariance, PTL

(* Configuration manager: while a request is under way something can go on, *)
(* but for the readers that take the read lock twice and the writer that    *)
(* has announced itself between.                                            *)
THEOREM OnlyNestedReads == ServicesSpec => []OnlyNestedReadBlocks
<1>1. ServicesInv => OnlyNestedReadBlocks
    BY Configs!OnlyNestedReadBlocksHolds DEF ServicesInv, OnlyNestedReadBlocks
<1> QED BY <1>1, ServicesInvariance, PTL

(* Configuration manager: wherever a move of the data directory stops, every *)
(* entry is whole in one of the directories.                                 *)
THEOREM DataIsKept == ServicesSpec => []DataNeverLost
<1>1. ServicesInv => DataNeverLost
    BY DEF ServicesInv, DataNeverLost, Configs!IInv
<1> QED BY <1>1, ServicesInvariance, PTL

(* Configuration manager: the files of an export that only the lock's       *)
(* holders write are those of one moment, and all are unless a start of the *)
(* node or an official update wrote meanwhile; and no sequence of saves,    *)
(* exports and imports puts a placeholder in the place of the key, but for  *)
(* a spelling the replacement does not know or a file without a key.        *)
THEOREM BackupsHold == ServicesSpec => []BackupsAreSound
<1>1. ServicesInv => BackupsAreSound
    BY DEF ServicesInv, BackupsAreSound, Configs!IInv, Configs!PlaceholderExplained
<1> QED BY <1>1, ServicesInvariance, PTL

(* Delegation listener: no poll, sweep, restart or crash takes away the key *)
(* of a delegation that the chain confirms, unless the sender's             *)
(* transactions were answered out of order or an API node that was behind   *)
(* denied the link (delegation_listener.go, 327-668).                       *)
THEOREM KeysAreKept == ServicesSpec => []AcceptedKeyStays
<1>1. ServicesInv => AcceptedKeyStays
    BY DEF ServicesInv, AcceptedKeyStays, Delegations!AcceptedKeyStays, Delegations!IInv,
           Delegations!AcceptedIsGood, Delegations!StillGood, Delegations!KeyInPlace
<1> QED BY <1>1, ServicesInvariance, PTL

(* Harvester tracker: the scanner and a request that look at the same block *)
(* in any order, falling behind and restarting, count it once, provided the *)
(* list of records is long enough (KeepsAssumption).                        *)
THEOREM EachBlockOnce == ServicesSpec => []CountedOnce
<1>1. ServicesInv => CountedOnce
    BY DEF ServicesInv, CountedOnce, HarvestInv
<1> QED BY <1>1, ServicesInvariance, PTL

(* Data archives: a restore or a backup reported complete is whole, however *)
(* many requests, cancellations and starts of the node come between, for a  *)
(* goroutine that was alone and passed over no entry, no file and no error  *)
(* (supervisor.go, 1861-2660).                                              *)
THEOREM CompleteMeansWhole == ServicesSpec => []CompleteIsWhole
<1>1. ServicesInv => CompleteIsWhole
    BY DEF ServicesInv, CompleteIsWhole, Restores!IInv, Restores!CompleteIsWhole,
           Restores!RestoreStands, Restores!BackupStands, Backups!IInv,
           Backups!CompleteIsWhole, Backups!RestoreStands, Backups!BackupStands
<1> QED BY <1>1, ServicesInvariance, PTL

(* Windows setup: a script that set up the distribution of the program      *)
(* without an error, where there is no other Ubuntu, has made the probe     *)
(* answer ready, whatever was installed before and whatever other windows   *)
(* set up meanwhile (setup-wsl.ps1, ProbeWSLStatus).                        *)
THEOREM SetupIsSeen == ServicesSpec => []SetupMakesReady
<1>1. ServicesInv => SetupMakesReady
    BY ReadyIsSeen DEF ServicesInv, SetupMakesReady
<1> QED BY <1>1, ServicesInvariance, PTL

(* Windows engine: until a start overlapped a stop, an engine had to be     *)
(* killed or a start was misled by its pgrep, at most one engine is alive   *)
(* and none while a start prepares its data; nor, while none was orphaned   *)
(* and no stop was misled, after a stop has seen it gone (executeWSL,       *)
(* stopWSL, getWSLEnginePid).                                               *)
THEOREM OneEngineAlone == ServicesSpec => []OneEngineOnData
<1>1. ServicesInv => OneEngineOnData
    BY OneEngine DEF ServicesInv, OneEngineOnData
<1> QED BY <1>1, ServicesInvariance, PTL

(* Windows engine: once the chain has left the genesis block, neither the   *)
(* preparation of a start nor the seeding of the setup takes away its index *)
(* or its state, unless the script had looked before, the start could not   *)
(* read the index, or it missed the engine that writes it (executeWSL,      *)
(* Ensure-DistroRuntimePackages).                                           *)
THEOREM ChainIsKept == ServicesSpec => []SyncedChainKept
<1>1. ServicesInv => SyncedChainKept
    BY DEF ServicesInv, SyncedChainKept, Engines!SyncedChainKept, EngineInv,
           NothingTakesTheChain
<1> QED BY <1>1, ServicesInvariance, PTL

(* Storage manager: however the look-ups of several requests, the refresh   *)
(* of the cache and the replacement of the key fall between each other,     *)
(* every onboarding is for a replicator whose own account held enough XPX,  *)
(* or, in its place, enough of a mosaic that the code does not know.        *)
THEOREM FundedOnboarding == ServicesSpec => []OnboardingIsFunded
<1>1. ServicesInv => OnboardingIsFunded
    BY OnboardingHolds DEF ServicesInv, OnboardingIsFunded
<1> QED BY <1>1, ServicesInvariance, PTL

(* Watchdog: it restarts a node, as the heights were when it read them,     *)
(* only if that had not advanced for the time it is given while the network *)
(* is ahead, unless the chain was set back; and a node that stays behind,   *)
(* wanted and answering, is restarted within Cooldown + Patience + 2        *)
(* (supervisor.go, 1171-1284).                                              *)
THEOREM StallsRecover == ServicesSpec => []StallsAreRecovered
<1>1. ServicesInv => StallsAreRecovered
    BY StallsAreMet DEF ServicesInv, StallsAreRecovered
<1> QED BY <1>1, ServicesInvariance, PTL
=============================================================================
