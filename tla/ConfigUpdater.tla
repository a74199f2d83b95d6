---------------------------- MODULE ConfigUpdater ----------------------------
(***************************************************************************)
(* The synchronisation of the network's configuration files                *)
(* (pkg/updater/updater.go).  ApplyOfficialUpdate downloads every official *)
(* file, copies the local ones to a backup directory, stops the node,      *)
(* replaces file by file, starts the node and copies the backup back when  *)
(* anything goes wrong.  Its flag is held from end to end; what it does    *)
(* not hold is any lock of the configuration manager, whose requests       *)
(* write the same files.                                                   *)
(***************************************************************************)
EXTENDS Naturals

CONSTANTS
    Syncer,       \* goroutines that synchronise: requests, and one per saved configuration
    ConfFile,     \* the official files
    Missing,      \* no such file
    MaxRelease,   \* bound: releases of the official files
    MaxSyncs,     \* bound: synchronisations started
    Edited,       \* what a write of the configuration manager leaves
    Torn          \* what a copy that fails in the middle leaves

ASSUME ReleaseAssumption == MaxRelease \in Nat \ {0}

VARIABLES
    conf,         \* content of each file: a release, Edited, Torn or Missing
    official,     \* the release that is on offer
    applying,     \* lastInfo.IsApplying
    rolledBack,   \* lastInfo.RollbackOccurred
    saved,        \* the backup directory of the last synchronisation
    sync,         \* each goroutine: where it is and its local variables
    engine,       \* the node: "up" or "down"
    syncs,        \* how many synchronisations there were
    lost          \* history: files of the last synchronisation that were not copied back

vars == <<conf, official, applying, rolledBack, saved, sync, engine, syncs, lost>>
-----------------------------------------------------------------------------
Release == 1..MaxRelease
Content == Release \cup {Edited, Torn, Missing}
Files == [ConfFile -> Content]
NoFiles == [f \in ConfFile |-> Missing]

InSync == {"fetch", "backup", "stop", "replace", "start", "watch", "rollback"}
Sync == [pc : {"idle", "compare", "ask"} \cup InSync,
         todo : SUBSET ConfFile,      \* files left to fetch, to replace or to copy back
         fetched : Files,             \* downloadedContents
         wasRunning : BOOLEAN]
Quiet == [pc |-> "idle", todo |-> {}, fetched |-> NoFiles, wasRunning |-> FALSE]

Init ==
    /\ conf \in {NoFiles, [f \in ConfFile |-> 1]}
    /\ official = 1
    /\ applying = FALSE /\ rolledBack = FALSE
    /\ sync = [s \in Syncer |-> Quiet]
    /\ engine = "down"
    /\ saved = NoFiles
    /\ syncs = 0
    /\ lost = {}

At(s, pc) == sync[s].pc = pc

(* The deferred function: the flag is this goroutine's own. *)
Leave(s) ==
    /\ sync' = [sync EXCEPT ![s] = Quiet]
    /\ applying' = FALSE
-----------------------------------------------------------------------------
(* A saved configuration compares the files and synchronises if they       *)
(* differ, a request to apply does so without comparing.                   *)

ConfigSaved(s) ==
    /\ At(s, "idle") /\ syncs < MaxSyncs
    /\ syncs' = syncs + 1
    /\ sync' = [sync EXCEPT ![s].pc = "compare"]
    /\ UNCHANGED <<conf, official, applying, rolledBack, saved, engine, lost>>

(* The status of a file in the report; unreachable is "error". *)
DiffStatus(f, reachable) ==
    CASE f \notin reachable -> "error"
      [] conf[f] = Missing -> "missing"
      [] conf[f] = official -> "identical"
      [] OTHER -> "different"

CheckConfigsDiff(s) ==
    /\ At(s, "compare")
    /\ \E reachable \in SUBSET ConfFile :
         sync' = [sync EXCEPT ![s].pc =
            IF \E f \in ConfFile : DiffStatus(f, reachable) \in {"different", "missing"}
            THEN "ask" ELSE "idle"]
    /\ UNCHANGED <<conf, official, applying, rolledBack, saved, engine, syncs, lost>>

Begin(s) ==
    /\ \/ At(s, "ask") /\ UNCHANGED syncs
       \/ At(s, "idle") /\ syncs < MaxSyncs /\ syncs' = syncs + 1
    /\ ~applying
    /\ applying' = TRUE /\ rolledBack' = FALSE /\ lost' = {}
    /\ sync' = [sync EXCEPT ![s] = [Quiet EXCEPT !.pc = "fetch", !.todo = ConfFile]]
    /\ UNCHANGED <<conf, official, saved, engine>>

BeginRefused(s) ==
    /\ At(s, "ask") /\ applying
    /\ sync' = [sync EXCEPT ![s] = Quiet]
    /\ UNCHANGED <<conf, official, applying, rolledBack, saved, engine, syncs, lost>>

(* One file after the other is downloaded and validated in memory. *)
Fetch(s, f) ==
    /\ At(s, "fetch") /\ f \in sync[s].todo
    /\ sync' = [sync EXCEPT ![s].fetched[f] = official,
                            ![s].todo = @ \ {f},
                            ![s].pc = IF sync[s].todo = {f} THEN "backup" ELSE "fetch"]
    /\ UNCHANGED <<conf, official, applying, rolledBack, saved, engine, syncs, lost>>

(* A download that fails or is not valid, or no backup directory. *)
GiveUp(s) ==
    /\ At(s, "fetch") \/ At(s, "backup")
    /\ Leave(s)
    /\ UNCHANGED <<conf, official, rolledBack, saved, engine, syncs, lost>>

(* Mutant: the backup is known by the copies that were made only. *)
BackupOfCopied(s) ==
    /\ At(s, "backup")
    /\ \E copied \in SUBSET {f \in ConfFile : conf[f] # Missing} :
         saved' = [f \in copied |-> conf[f]]
    /\ sync' = [sync EXCEPT ![s].pc = "stop"]
    /\ UNCHANGED <<conf, official, applying, rolledBack, engine, syncs, lost>>

(* A copy that fails is passed over: the file counts as not there. *)
Backup(s) ==
    /\ At(s, "backup")
    /\ \E copied \in SUBSET {f \in ConfFile : conf[f] # Missing} :
         saved' = [f \in ConfFile |-> IF f \in copied THEN conf[f] ELSE Missing]
    /\ sync' = [sync EXCEPT ![s].pc = "stop"]
    /\ UNCHANGED <<conf, official, applying, rolledBack, engine, syncs, lost>>

StopForSync(s) ==
    /\ At(s, "stop")
    /\ sync' = [sync EXCEPT ![s].pc = "replace", ![s].todo = ConfFile,
                            ![s].wasRunning = (engine = "up")]
    /\ engine' = "down"
    /\ UNCHANGED <<conf, official, applying, rolledBack, saved, syncs, lost>>

(* Temporary file, sync, rename.  The last one leads to the start of a node *)
(* that was running, or to success.                                         *)
Replace(s, f) ==
    /\ At(s, "replace") /\ f \in sync[s].todo
    /\ conf' = [conf EXCEPT ![f] = sync[s].fetched[f]]
    /\ IF sync[s].todo # {f} \/ sync[s].wasRunning
       THEN /\ sync' = [sync EXCEPT ![s].todo = @ \ {f},
                                    ![s].pc = IF sync[s].todo = {f} THEN "start" ELSE "replace"]
            /\ UNCHANGED applying
       ELSE Leave(s)
    /\ UNCHANGED <<official, rolledBack, saved, engine, syncs, lost>>

StartSynced(s) ==
    /\ At(s, "start") /\ engine = "down"
    /\ engine' = "up"
    /\ sync' = [sync EXCEPT ![s].pc = "watch"]
    /\ UNCHANGED <<conf, official, applying, rolledBack, saved, syncs, lost>>

Synced(s) ==
    /\ At(s, "watch") /\ engine = "up"
    /\ Leave(s)
    /\ UNCHANGED <<conf, official, rolledBack, saved, engine, syncs, lost>>

(* Mutant: only what was still to be replaced is copied back. *)
SyncFailsForgetsReplaced(s) ==
    /\ At(s, "replace") \/ At(s, "start") \/ (At(s, "watch") /\ engine = "down")
    /\ sync' = [sync EXCEPT ![s].pc = "rollback",
                            ![s].todo = {f \in sync[s].todo : saved[f] # Missing}]
    /\ UNCHANGED <<conf, official, applying, rolledBack, saved, engine, syncs, lost>>

(* A write that fails, a start that fails (a node that somebody else has    *)
(* started included) or a node that is gone again.                          *)
SyncFails(s) ==
    /\ At(s, "replace") \/ At(s, "start") \/ (At(s, "watch") /\ engine = "down")
    /\ sync' = [sync EXCEPT ![s].pc = "rollback",
                            ![s].todo = {f \in ConfFile : saved[f] # Missing}]
    /\ UNCHANGED <<conf, official, applying, rolledBack, saved, engine, syncs, lost>>

CopyBack(s, f) ==
    /\ At(s, "rollback") /\ f \in sync[s].todo
    /\ conf' = [conf EXCEPT ![f] = saved[f]]
    /\ sync' = [sync EXCEPT ![s].todo = @ \ {f}]
    /\ UNCHANGED <<official, applying, rolledBack, saved, engine, syncs, lost>>

(* The error is ignored; the file may have been truncated. *)
CopyBackFails(s, f) ==
    /\ At(s, "rollback") /\ f \in sync[s].todo
    /\ conf' \in {conf, [conf EXCEPT ![f] = Torn]}
    /\ lost' = lost \cup {f}
    /\ sync' = [sync EXCEPT ![s].todo = @ \ {f}]
    /\ UNCHANGED <<official, applying, rolledBack, saved, engine, syncs>>

EndSyncRollback(s) ==
    /\ At(s, "rollback") /\ sync[s].todo = {}
    /\ rolledBack' = TRUE
    /\ engine' \in IF sync[s].wasRunning THEN {engine, "up"} ELSE {engine}
    /\ Leave(s)
    /\ UNCHANGED <<conf, official, saved, syncs, lost>>
-----------------------------------------------------------------------------
(* The surroundings. *)

(* The official files change while they are downloaded. *)
Publish ==
    /\ official < MaxRelease
    /\ official' = official + 1
    /\ UNCHANGED <<conf, applying, rolledBack, saved, sync, engine, syncs, lost>>

(* The configuration manager saves a file, under its own lock. *)
Edit(f) ==
    /\ conf' = [conf EXCEPT ![f] = Edited]
    /\ UNCHANGED <<official, applying, rolledBack, saved, sync, engine, syncs, lost>>

EngineChanges ==
    /\ engine' \in {"up", "down"} \ {engine}
    /\ UNCHANGED <<conf, official, applying, rolledBack, saved, sync, syncs, lost>>

SyncStep(s) ==
    \/ CheckConfigsDiff(s) \/ BeginRefused(s)
    \/ At(s, "ask") /\ Begin(s)
    \/ \E f \in ConfFile : Fetch(s, f) \/ Replace(s, f) \/ CopyBack(s, f) \/ CopyBackFails(s, f)
    \/ GiveUp(s) \/ Backup(s) \/ StopForSync(s) \/ StartSynced(s) \/ Synced(s)
    \/ SyncFails(s) \/ EndSyncRollback(s)

Next ==
    \/ \E s \in Syncer : SyncStep(s) \/ ConfigSaved(s) \/ (At(s, "idle") /\ Begin(s))
    \/ \E f \in ConfFile : Edit(f)
    \/ Publish \/ EngineChanges

Spec == Init /\ [][Next]_vars
-----------------------------------------------------------------------------
TypeOK ==
    /\ conf \in Files /\ saved \in Files
    /\ official \in Release
    /\ applying \in BOOLEAN /\ rolledBack \in BOOLEAN
    /\ sync \in [Syncer -> Sync]
    /\ engine \in {"up", "down"}
    /\ syncs \in Nat
    /\ lost \subseteq ConfFile

(* The flag is set exactly while one goroutine is past the guard, so that   *)
(* the backup directory and the files are one goroutine's at a time.        *)
OneSynchronisation ==
    /\ applying <=> \E s \in Syncer : sync[s].pc \in InSync
    /\ \A s, t \in Syncer : sync[s].pc \in InSync /\ sync[t].pc \in InSync => s = t

(* A synchronisation that reports a rollback has given back every file it   *)
(* had a copy of, whatever it had replaced and whoever has started or       *)
(* stopped the node, but for those whose copy failed; a later edit stays.   *)
RollbackRestoresBackup ==
    rolledBack /\ ~applying =>
        \A f \in ConfFile \ lost : saved[f] # Missing => conf[f] \in {saved[f], Edited}
=============================================================================
