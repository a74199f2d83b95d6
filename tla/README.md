# A verification development for the Sirius node manager

The repository is a manager for one ProximaX Sirius node: a Go program
(`backend/`) that starts and supervises the C++ engine, keeps its data
directory, its configuration and its binaries, follows the chain on behalf of
the operator, and serves a web frontend.  This directory holds TLA+ models of
its state machines, TLC configurations that check them on small instances, and
TLAPS proofs of what matters most for every instance.  Paths below are relative
to `src/`; `pkg/` is `backend/pkg/`.

## 1. The system

| Component | State | Operations | Hard because |
|---|---|---|---|
| Process supervisor, `pkg/supervisor/supervisor.go` | `mu`, `stopMu`, `isRunning`, `isStopping`, `userIntendedRunning`, `lastError`, `cmd`, `exitChan`, `cmdCancel`; the status and cancel function of a restore and of a backup; on disk `server.lock` and the chain | `StartNode`, `StopNode`, `RestartNode`, `ResetChain`, `CleanLogsAndCache`, `StartWatchdog`/`StopWatchdog`, one waiter goroutine per engine; `RestoreSnapshot`, `RestoreLocalSnapshot`, `CreateDataBackup` | API goroutines, watchdog, waiters and signal handlers interleave; `StopNode` works for minutes between its two critical sections; engines outlive a manager that dies; restores and backups share a status |
| Storage migrator, `pkg/migrator/migrator.go` | `status`, `isRunning`, `cancel`; loose `.dat`/`.stmt` files, `blocks.dat`, `statements.dat`, `blocks.idx` | `StartMigration`, `Cancel`, the goroutine `run` | it deletes the originals while it goes; every system call may fail, some failures are ignored; crash and rerun; 32 bit offsets |
| Snapshot manager, `pkg/snapshot/manager.go` | `status`, `cancelFunc`, the data directory | `CreateLocalSnapshot`, `RestoreLocalSnapshot`, `RestoreRemoteSnapshot`, `Cancel`, `Reset` | goroutines that share a status, a busy check that reads the stage, a network without timeout, clean-up of a partial extraction, a node to stop and to start again |
| Engine updater, `pkg/updater/engine_updater.go` | update status, the engine directory and its `.bak` files | `CheckUpdate`, `DownloadAndApplyUpdate`, `ApplyUpdate` with its rollback, `TriggerWorkflow`, `ResetStatus` | swap by renames, hand-over of the flag `IsApplying`, crash between renames |
| Configuration updater, `pkg/updater/updater.go` | the configuration files, their backup, `lastInfo` | `CheckConfigsDiff`, `ApplyOfficialUpdate` with its rollback | one file of several failing, in either direction |
| Configuration manager, `pkg/config/` | property files under an `RWMutex`, the data directory when it moves | load, save, raw edit, link, back up, import, restore a package | nested read locks, moves that fail half-way, redacted keys |
| Storage manager, `pkg/storage/storage.go` | one properties file under an `RWMutex` of its own, a cache of one account | load, save, account look-up with a background refresh, onboarding | a cache that may answer for another key |
| Delegation listener, `pkg/chain/delegation_listener.go` | processed hashes, a saved state, the directory of key files | poll, link, unlink, sweep, save; two handlers that add and remove keys | messages newest first, limit of slots, answers of nodes that differ, crash before the save |
| Harvester tracker, `pkg/chain/harvest.go` | scan bounds, recorded blocks, totals | scan, `TriggerCheck`, `ResetStats`, save and load | two walkers over the same heights, a bounded memory |
| Windows support, `pkg/supervisor/wsl_windows.go` | probe cache and marker, the Windows host and its distributions; `wsl.exe` and the engine behind it | probe, setup script, `executeWSL`, `stopWSL` | windows that nobody waits for, restarts of Windows, an engine that is not the manager's child |
| Chain monitor, `pkg/chain/chain.go` | the network height last seen | queries by file and HTTP | a cache that is old, answers that go back |
| API server, `pkg/api/server.go` | the above, sessions | HTTP handlers | calls of everything from any goroutine |
| Cryptography, port mapping, frontend, scripts | - | - | not state machines of this kind |

How they interact.  The API server calls all of them, each request in a goroutine
of its own.  Snapshot manager and updaters call the supervisor back through a
`NodeController` (`IsRunning`, `StartNode`, `StopNode`).  A saved configuration
starts the configuration updater.  All of them share the data directory or the
configuration directory with the engine process, and nothing but their own flags
and locks keeps them apart.

What makes each correct:

- supervisor: one engine; no tool, no reset and no exit of the manager beside a
  live engine; its flags agree with each other; every stop returns; every exit
  is noticed; a wanted node is retried; a restore or backup called complete is whole.
- migrator: at every moment every block can be read, as its own file or through
  the index; `completed` means that nothing is left to convert.
- snapshot manager: one operation at a time; `completed` means complete, but for
  what was passed over in silence; failure leaves nothing behind; the node is out
  of the way, and comes back.
- updaters: one at a time; after any failure or crash the old version is there,
  and a rollback that is reported has happened.
- configuration: no deadlock; a backup is one state of the files that its lock
  guards; no move loses data; no import puts a placeholder in the place of a key,
  but for a spelling that the replacement does not know, or a file without a key.
- listener: the key of a delegation that was accepted stays in its place.
- tracker: every block is counted once.
- storage: an onboarding is paid from the replicator's own account, which was seen
  funded.
- Windows: a setup that went well makes the probe answer ready; one engine, and
  nothing works on its data.

`PROJECT.json` lists the hazards by line, with the properties that cover them.

## 2. Modules

| Module | Stands for |
|---|---|
| `ProcessSupervisor` | the supervisor, the engine processes, the manager's own death |
| `NodeLifecycle` | the abstract promise: the data directory belongs to one engine, or to tools, or to nobody |
| `MCProcessSupervisor` | symmetry and a view for TLC |
| `Migrator` | the migrator, its files, crash and rerun |
| `SnapshotManager` | the snapshot manager, its goroutines, the directory |
| `EngineUpdater`, `MCEngineUpdater` | engine updates and the node they stop; releases for TLC |
| `ConfigUpdater` | the synchronisation of configuration files |
| `ConfigManager` | the readers-writer locks of configuration and storage, the files they guard, moves of the data directory |
| `DelegationListener` | the listener, the part of the chain it reads, the key files |
| `HarvesterTracker` | scanner, `TriggerCheck` and the cached height |
| `DataArchives` | the supervisor's own restores and backups |
| `WslSetup` | probe, marker and setup script on a Windows host |
| `WslEngine` | start and stop of the engine inside a distribution |
| `ReplicatorStorage` | the replicator's account cache and its onboarding |
| `SyncWatchdog` | the watchdog's stall test with its clock, and the heights of the chain monitor |
| `MCServices` | the nine modules from `ConfigUpdater` on, in one run, with what the proofs assume of their constants |
| `ProcessSupervisorProofs`, `MigratorProofs`, `SnapshotManagerProofs`, `EngineUpdaterProofs` | the theorems about these four |
| `ConfigManagerProofs`, `DataArchivesProofs`, `DelegationListenerProofs` | the inductive invariants of these three |
| `ServicesProofs` | the inductive invariants of the other six services, and the theorems about all of them |

Several modules carry a history variable that names the ways in which the code
itself gives something up: `lapses`, `passed`, `cleared`, `past`, `lost`, `disturbed`,
`overtaken`, `once`, `respelled`, `unfilled`, `torn`, `mishaps`.  Each is a real
behaviour, the safety properties say what holds until it happens, and the proofs and
runs show that there is no other way.

### ProcessSupervisor

A thread is a goroutine: the clients serve API requests (and the signal handler
of `main.go`), and the watchdog is one more.  `pc` says in which phase of which
function it is.  The phases follow the locks.  `StartNode` holds `mu` from
beginning to end, so its phases `preflight`, `recovery` and `spawn` are steps of
the holder of `mu`.  `StopNode` holds `stopMu` throughout and takes `mu` twice, so
`begin` and `finish` are atomic and `signal`, `poll`, `kill`, `clear` and
`reconcile` run beside everybody else.  `target` is `StopNode`'s local copy of
`dc.cmd`.  The waiter of an engine closes `exitChan` and then takes `mu` to reset
the flags, which are two steps.  `engine` is the truth about the processes, which
the manager only believes to know: an engine that was killed may still exist, and
one of a manager that died runs on (POSIX process groups, `proc_unix.go`).

`lapses` is a history variable.  It notes the four ways in which the code gives up
exclusivity, each of them a real behaviour: `overlap` (a `StartNode` gets in
before a previous stop or waiter is through), `escalation` (an engine was killed
and not waited for), `crash` (the manager died under an engine or a tool) and
`clean` (`CleanLogsAndCache` removed the lock of a live engine).  The safety
properties about engines hold until the first lapse; those about the flags hold
always.

`NodeLifecycle` says what a user of the data directory relies on.
`ImplementsLifecycle` states that, with `live`, `tools` and `wanted` read off the
supervisor, every step before a lapse is a step of it or a stutter.

### Migrator

One action per step of the goroutine between two system calls: list the chunk
directories, enter one, read a loose block, append to `blocks.dat`, append to
`statements.dat`, write the index entry, remove the `.dat`, remove the `.stmt`.
Each has its failure, in the way the code treats it: a failed read skips the
block, a failed read of a statement counts as none, a failed seek is ignored, a
failed write ends the run and may leave a torn payload, a failed remove is
ignored.  `ignored` is the history of what went wrong without a report.  A crash
keeps the disk and loses the rest; a later run meets what the last one left.

A payload is one unit long and carries the height of its block, so that reading
through the index can be told apart from finding some block.  The offset is
`Len(file) % Width`, as `uint32(size)` is, and `Width` is a parameter.  The write
of an index entry is all or nothing, or leaves zeroes: it is 16 bytes in one `Write`.

### SnapshotManager

Any number of operations, each a goroutine with its record in `op`: where it is,
its kind and archive format, its context (`cancelled`), the files to come
(`todo`), the file being copied, the paths to remove after a failure (`created`),
and what a create has written (`out`).  `dir` says of each file of the data
directory from which operation it is and whether it is whole.  `stage` and
`cancelFunc` are the shared fields: `Start` is refused only in the three stages
that the code tests, and the goroutines write `stage` whatever it is by then, so
operations may overlap; `lapses` remembers `overlap`, and `node` when somebody
starts the node under an operation.  The bytes, the progress and the outcome of
signature and checksum are choices.  `StartNode` succeeds here and `StopNode`
does what it says: their failures are the supervisor's model.  Archives in
`tar.xz` are unpacked by the `tar` command, whose files the manager does not know;
the others by `archive/tar`, whose files it removes after a failure, if
`os.Remove` can (`Remove`): one that it cannot is `left`.

`passed` names the files that the operation passed over and yet ended as
`completed`: a create skips what the walk cannot list or open (`SkipFile`,
manager.go:171-174 and 235-259) and ignores the errors of the three `Close` calls
behind which an archive is not whole (`CloseFails`, 303-305); a restore skips `..`
and absolute names and all but files and directories (`SkipEntry`, 792-860), and
ignores the `Close` of what it has written (859).  `CompletedMeansRestored` is about
every other file.

### EngineUpdater

A goroutine's `pc` follows an update through download, handover, verification,
the stop of the node, the swap and either the cleaning up or the rollback.  The
swap is one step per `os.Rename`: `SetAside` moves an installed file to `.bak`,
`Place` moves the new one in, and each may fail, as may the renames and removals
that undo them (`PutBack`, `RestoreFile`: 545, 555, 621), whose errors are ignored.
`HandOver` is the moment at engine_updater.go:947 where the flag is dropped for
`ApplyUpdate` to take; `ApplyRefused` is the update that finds it taken.  `Ending`
are the deferred functions: `ApplyUpdate` drops the flag when it ends (338), and
`DownloadAndApplyUpdate` drops it once more (831), in another critical section,
whoever has it by then.  `cleared` notes a flag taken from an update that runs: by
`ResetStatus`, by the update that was refused, or by that second reset.  A release is a version with the files its archive carries (`Carries`);
whether its signature, checksum and archive hold is `Genuine`; `CompareSemver`
and `IsVersionCompatible` are functions of versions.  `Simulate` is
`TriggerWorkflow`, which walks through the states under the same flag without
touching a file.  `past` remembers the directory `before` the update, the files
`stuck` where an undoing failed, the last engine that passed its probe (`good`), and
the files of it that were `overwritten`: after a crash in the middle of a swap, or a
rename back that failed, the copy under `.bak` may be the only one, and the next
update removes it (541) before it sets aside what is in place.  A crash forgets
none of that.

### ConfigUpdater

The flag is held from `Begin` to the end, and so are the phases fetch, backup,
stop, replace, start, watch and rollback; `Replace` and `CopyBack` treat one file
at a time and may fail, a copy that fails leaves `Torn`.  `ConfigSaved` is the
goroutine that a saved configuration starts: it compares and then asks.  `Edit`
is a write of the configuration manager, under a lock that the updater does not
take.  `lost` names the files that `CopyBack` could not write: the code ignores
the error (updater.go:490).

### ConfigManager

A lock has a `writer`, which is announced before it is admitted, and a count of
readers: from the announcement on `MayRead` is false, as Go's `RWMutex` has it.  A
request is handled once; its `pc` stands at the places where it may have to wait
or where it has written a part.  `BeginNestedRead` is an export that
holds the read lock while it calls `LoadNodeConfig`, which takes it again, and
`LoadStorageConfig`, which does so with the other manager's lock.
A move of the data takes one entry at a time: a rename, or across devices a copy
and a removal.  Of the properties, the model keeps the three spellings of the
data's path, of the harvesting key whether it is real, a template, empty or
redacted, and of the official files the release they are from; `odd` is a line that
the replacement of the key does not recognise.  `respelled` remembers that there was
ever such a line: an import leaves it as it is, a backup keeps the redacted key of
its package, and a later import of that backup carries it back when the line is long
spelt as usual.  `unfilled` remembers that a placeholder came into a file which had no
key to put in its place (backup.go:138, config.go:563).

Two others write what an export reads and take no lock of it: the start of a node
rewrites config-user.properties (`SyncReads`, `SyncTruncates`, `SyncWrites`:
supervisor.go:670-720), with a moment at which the file is empty, and an official
update replaces the files of the release (`ReplaceOfficial`, updater.go:507-529).
`torn` are the exports that such a write came into.

### DelegationListener

`sent` is the chain's list of transactions to the node.  A poll takes a page of
the newest ones, newest first, followed by what an answer of a second API node has
beyond it (`More`); each is skipped, answered, or left for a later poll when the
chain did not answer.  Looking up the chain (`ConfirmLink`) and writing the file
(`PlaceKey`) are two steps; the links on the chain and the balances change in
between.  The first API node that answers is believed, and may be behind: it
confirms any link that there `once` was, and may deny one that is there
(`RejectLink`, `SweepStale`).  The sweep finds a name stale and then removes it.  A restart
begins with the saved hashes, which are any `MaxSaved` of the processed
ones (the code ranges over a map).  `accepted` is the link for which a sender's
key was placed, as long as the chain confirms it, no node denies it to the sweep
and nobody takes it back, and `overtaken` names the senders whose transactions were answered out of order.

### HarvesterTracker

Two walkers, the background scanner and the request `TriggerCheck`, each with the
interval it has still to look at.  `CheckBlock` is one step per height and adds a
block the node signed to the totals unless it is among the last `KeepBlocks`.
The scanner's arithmetic of bounds is the code's, with its numbers as constants.
`Restart` reads the file, which a crash may have left unreadable.

### DataArchives

Goroutines that restore and goroutines that back up, over one status and one
cancel function of each kind.  A restore asks nobody whether it may begin; a
backup asks the status.  Opening an archive for writing makes a new `inode` at its
path or truncates the old one, so that two backups to a path, and the removal after
a cancel, meet as they do on a POSIX file system.  `claim` is the goroutine whose
`complete` is the last word about a kind; `disturbed` are those that had company
at their files or passed over an error or an entry: a restore skips `..` and absolute
names and what is neither file nor directory, and ignores the errors of `Close` and
`MkdirAll` (supervisor.go:2228-2268), a backup skips what it cannot read.

### WslSetup and WslEngine

A run of the setup script is a window that the manager does not wait for: each
goes through features, update, download, package, catalog, conversion and
packages, with every command free to fail and a restart of Windows at any
moment.  The host's state is what these commands change.  The probe chooses the
last Ubuntu of the listing, the script its own; `believed` is the probe's cache.

In `WslEngine` the manager owns `wsl.exe` (`wrapper`), one goroutine waits for it
(`reaper`), and the engine inside (`guest`) is known by `pgrep` alone.  Wrapper,
manager and engine each may go first.  `index` and `stateDb` are the heights on
disk; a start seeds an index that is missing (`EnsureNemesisSeed`), and removes the
state when the index is not beyond the genesis block (`WipeState`), and the script
writes the index too.  What the manager learns from the distribution may be wrong:
`getWSLEnginePid` answers 0 on any error (`StartUnaware`), `stopWSL` takes an error for
a clean end (`StopLosesSight`), and an index that cannot be read counts as the
genesis (`IndexUnread`).  `mishaps` are `orphan` (engine without wrapper), `killed`
(one that `SIGKILL` has not ended yet), `lost` (a stop lost sight of it), `unread` (the
index), `unseen` (a start beside a live engine), `overlap` (a start during a stop) and
`raced` (the script had looked before the chain began).

### ReplicatorStorage

The account cache remembers one key and one answer.  A look-up reads the key, asks
the chain, and writes the cache; a request and the background refresh may each be
between these steps while the key is replaced.  `Announce` is `OnboardReplicator`;
`announced` is what reached the network, also when the answer was lost.  `paid` and
`token` are the accounts that have ever held one XPX, or none and as much of a mosaic
that the code does not know: it counts that as XPX (storage.go:400-401), and a node
that is behind may show what has left the account.

### SyncWatchdog

`ProcessSupervisor` lets the stall test fire at any moment; here it has its clock.
Times are ages in a unit that is longer than the watchdog's tick, capped where no
comparison can tell more, and time passes only after a tick, or while the
watchdog waits for a `RestartNode`.  The tick reads the node's state and the two
cooldowns; the local and the network height are read later, and what is decided
then is done whatever has become of the node.  The network's height comes from
a cache that may be old and may fall.  `still` and `pending` are the true times
since the last advance, and since a recovery has been called for; `setBack` says
that a reset or restore has put the chain below the height remembered.  The
branch for a zero `lastHeightAdvance` (supervisor.go:1235) is left out: the first
height read is above a `lastObservedHeight` of 0.

### MCServices

The services share no variable, so a product of them would only multiply states.
`ServicesInit` picks one; the variables of the others stay `Off`.  Each service has
its variables under their own names, but where two modules share a name: the
requests of the configuration manager are `Requester`, and the chain's height is
`localHeight` in the watchdog and `height` in the tracker.  `DataArchives` is there
twice, with two restorers and with two archivers.  The configuration updater is
extended; the others are instances, of the module of their proofs where they have
one, so that what is proved there can be cited of the service.  The assumptions
that the proofs make stand here as named `ASSUME`s, which TLC evaluates.

## 3. What the runs check

| Run | Instance | Shows |
|---|---|---|
| `supervisor` | 2 clients, watchdog, 2 engine identities, 1 relaunch, all requests but the toggle | type and flag invariants; one engine, no tool beside it and its lock in place until a lapse; `ImplementsLifecycle` |
| `supervisor_live` | 1 client, watchdog, start, stop and toggle | `StopReturns`, `ExitIsNoticed`, `WantedIsRetried` |
| `migrator` | 3 blocks in 2 chunks, one with statements, width 3, every failure, 2 runs | no block and no statement lost, `completed` means done, every run ends |
| `snapshot` | 2 operations, all kinds and formats, 2 files, 1 of them archived | a busy stage has a goroutine, `completed` is complete, failure leaves nothing, the node out of the way; cancelled operations end, a paused node returns |
| `engine_update` | 2 updates, 2 files, 1 crash, every rename failing | one update past the guard unless the flag was taken from it, the flag has an owner, an undone update leaves the old engine, which is on disk at every moment; `UpdatesEnd` |
| `services` | two goroutines of each service, bounds below | what synchronisation, configuration, delegations, harvests, restores, backups, Windows setup, the engine in a distribution, the replicator's account and the stall test promise |
| `reconcile_after_shutdown`, `stall_restart`, `chunk_overflow`, `snapshot_busy`, `data_path`, `delegation_order` | as small as the case allows | the six disagreements of section 6 |

Why the bounds are enough to be interesting.

- Supervisor: an overlap takes a stop under way, a start and a second stop or
  the watchdog, that is two clients and the watchdog; a second engine identity is
  what an overlap produces, and identities are used again once nobody refers to
  one.  One relaunch lets an engine of a dead manager meet a new one.  Clients and
  engines are interchangeable, so TLC uses their symmetry; the view drops from
  `lapses` all but the two questions that the properties ask.  Both are used in
  the safety run only.
- Migrator: heights 1 and 2 share a chunk and 65536 begins the next, so that both
  the order within a file and the boundary of chunks occur.  One of them has
  statements, so the two offsets differ.  Width 3 is just enough for a chunk of
  two blocks and one leftover of a failed run, so wrapping is reached but does
  not drown the rest.  Two runs: the second starts on what any crash or failure of
  the first left.
- Snapshot: two operations are what an overlap takes; one file is in the archives
  and one is not, which is what distinguishes removing what was extracted from
  removing everything.  An operation identity is used once.
- Engine update: two updates are what the handover takes.  A file that only the
  new release carries, and one that both have, distinguish the kinds of rollback;
  the second update starts on what the first, or a crash, has left.
- Synchronisation: 2 files, so that one of them fails; 2 releases; 2
  synchronisations of 2 goroutines, so that one backup follows another.
- Configuration: 2 requests (an export that nests and a writer), 1 entry of data, 1
  failure, 1 start of the node or official update (`MaxOutside`).  `data_path` has 3
  requests and 3 paths, since the disagreement takes two moves, and no writer outside.
- Delegations: 1 sender with 3 transactions over pages of 2, 1 slot, 2 saved
  hashes, one name that is nobody's address.  A second sender only competes for
  the slot.  The theorem covers any number.
- Harvests: 6 blocks, 4 of them the node's, `KeepBlocks` 3, the code's intervals of 15, 5,
  30, 10 and 2 blocks shrunk to 1, and a walker at most 1 block behind the height
  it was given.  `KeepBlocks` must suffice for what two walkers can look at again: a window of
  `MaxLag + FarBehind` blocks to either side, here 5 blocks with at most 3 of
  the node's, which meets the proof's assumption `KeepsEnough` with nothing to spare.
- Restores and backups: 2 goroutines, 2 files, 2 paths.
- Windows setup: 2 windows, 3 distributions (Ubuntu-22.04, another Ubuntu,
  something else), 1 failure and 1 restart of Windows.
- Engine in a distribution: 2 callers, 2 engines, 1 end of the manager; callers and
  engines are interchangeable.  A behaviour has mishaps of one of the kinds `orphan`,
  `killed`, `lost` and `unread` (`MayHappen`).  A start that misses a live engine comes
  after an engine was orphaned or lost, which is how the flags come to miss it, or
  with none of them; nothing is asked of the manager after it (`MayBeUnseen`,
  `Unseen`), since no property is about what two engines do next.
- Replicator: 2 requests and the background, 2 keys, 1 answer lost.
- Stall test: heights to 4, a gap of 1, grace and patience of 1 unit and a cooldown of
  2, for the code's 5 blocks and 3, 3 and 5 minutes.

Deadlock is checked in the supervisor's runs and in `engine_update`.  It is not in
the others, which come to rest when the bounded number of runs, operations or
requests is used up; that the requests of the configuration manager may come to
rest blocked is what `OnlyNestedReadBlocks` is about.

Fairness.  A goroutine that can run does.  The migrator's waits for nothing, so
weak fairness of `run`.  The supervisor's threads wait for mutexes, which other
threads may take again and again; Go hands a mutex to its longest waiter
(starvation mode), hence strong fairness of each thread and waiter.  The
watchdog ticks (weak), and its choice of a restart after the cooldown is strong
fair: a cooldown passes.  A snapshot operation waits for a network and the HTTP
client has no timeout, so a network step is fair only when the context is
cancelled (`Answered`).  The engine updater's requests have timeouts and its
sleeps end, so some update that can go on does.  Nothing is assumed of requests,
failures, exits and crashes.

Each property of a passing run has a mutant: a plausible bug in a modelled
definition (a lock kept, an offset from the wrong end, a missing reset, a
rollback that forgets the files already replaced) under which TLC finds the
property violated.  The mutants' operators stand before the definition that they
would replace, with a comment that begins "Mutant".

## 4. What is proved

Every invariant that a run checks, and `ImplementsLifecycle`, for every value of the
constants that satisfies the assumptions of the modules.  They say that identities
differ, numbers are naturals and releases are well formed; the two that say more
are named below, with the watchdog and the tracker.  Every invariant follows from
an inductive one, which TLC has checked on the run's instance before.

**ProcessSupervisor.**  `TypeCorrect`; the invariant `Inv` (`Invariance`); and,
from it, `BelievedRunningIsWatched`, `StopIsExclusive`, `UnwantedIsStopping`,
`ErrorOnlyWhenStopped`, `SingleEngine`, `NoToolOnLiveEngine`,
`LiveEngineKeepsLock` and the refinement of `NodeLifecycle`.  None is inductive
alone.  `MutexesHeld` ties each mutex to the phases of its holder, which makes the
phases of different threads exclude each other.  `FlagsAgree` says what a
`StartNode` has established while it holds `mu`, and that a `StopNode` between its
critical sections holds on to an engine.  `OneEngine` is the part that the lapses
guard: at most one waiter, a stop under way is about the engine in `dc.cmd`, and a
start has nobody behind it; an action that would break it adds a lapse, and the
proof shows that there is no other.

**Migrator.**  `TypeCorrect`, `Inv`, and from it `BlockNeverLost`,
`StatementNeverLost`, `IndexLeadsToBlock` and `CompletedMeansMigrated`, for any set of
heights, any width and any number of runs.  `BlockInHand`: the block at hand and those to come are
still loose.  `BlockWritten`: what was appended stands at the remembered offset,
until the entry is written, and then is found through it.  `StatementInHand`: the
same of statements, and a block without its `.stmt` file is not loose any more.
Two lemmas carry the files: `EndOf` (as long as a file fits its offsets, the
truncated size is the end) and `WriteAtEffect` (a write changes one payload);
`PlaceInjective` keeps two blocks from sharing an index entry.  `LooseIsPending`: a
block that is loose during a run is at hand, still to come, or was passed over by
a failure that nobody reports; with nothing to come, none is left.

**SnapshotManager.**  `TypeCorrect`, `Inv`, and from it `BusyMeansActive`,
`CompletedMeansRestored`, `FailedLeavesNothing` and `NodeOutOfTheWay`, for any
number of operations and any files, wherever the code passes over an entry or an
error.  `LastIsAlone`: without an overlap only the
last operation can be under way.  `PcTellsTask`: where a goroutine is says what
kind it is, what is left and whether it is over.  `FilesAreKnown`: a file from an
operation's archive is in its `created`, until it ends.  `RestoredSoFar`: the
archive but for what is left, what was passed over and the file at hand is in the
directory, and the directory likewise in the archive.  The proof
sums a goroutine's step up as moving on, completing, failing or resuming the
node (`GoroutineStep`), and then treats each conjunct.

**EngineUpdater.**  `TypeCorrect`, and `OneUpdateUnlessCleared`,
`ApplyingHasOwner`, `UndoneLeavesOldEngine` and `OldEngineOnDisk`, for any number
of updates and crashes and any files and releases.  `HoldersFlag`: whoever is past
the guard holds the flag, alone unless it was cleared; the deferred resets are
phases of the same goroutine.  `Locals`: what the goroutine remembers of the files it
has set aside and placed.  `Disk`: the files of before the update are where these say,
in place or under `.bak`, phase by phase, but for those that are stuck; and those of
the last good engine are somewhere on disk, crashes and later updates included, but
for those that the removal of an older `.bak` took away.

The services.  `ServicesProofs` proves about `ServicesSpec` what its run checks.
`ServicesInv` is the invariant of the service that moves, beside the updater's,
which holds of its idle files too; by `Moves` a step of the composition is a step
of that service or leaves it alone.  Each of the following is stated once, of its
own module, and becomes a theorem of the composition by `ServicesStep`.

**ConfigUpdater.**  `OneSynchronisation` (the flag is up exactly while one goroutine
is past the guard; not in a run of its own) and `RollbackRestoresBackup`, from
`ReportReset` (no report of a rollback while one is under way) and `CopiedBack`
(what is no longer to do has its copy back, or is lost, or was edited since).

**ConfigManager.**  `OnlyNestedReadBlocks`, `DataNeverLost` and `BackupsAreSound`.  One
half of `IInv` is about the locks: `ReadersCounted` (how often each request is
counted among the readers follows from where it is), `WriterHolds` and
`WriterAlone` (a writer that is inside has no reader beside it).  Hence who waits
for whom: for a lock that is held or announced, and the holder can go on unless it
waits for a lock itself, which only a nested read does.  The other half is about
the files: `Movable` (what has still to move is whole where it comes from),
`ExportIsSnapshot` (what only the lock's holders write is of one moment, the rest too
unless the export is torn) and `KeyIsRead`.  `PlaceholderExplained` says where a
redacted key may stand: in a file only after an unusual spelling or an import into a
file without a key, which is `KeySurvivesImport`.  Attempting the proof showed that
the property has to name both: a package may carry the placeholder back after the
spelling has gone.

**DataArchives.**  `CompleteIsWhole`, if no goroutine is both kinds and `Nobody` is
none (`Distinct`).  `RestorerAlone` and `ArchiverAlone`: two goroutines of a kind are
at the files at once only if they are `disturbed`.  `FilesOfTheirPath`: a path leads
to a file made for it.  `RestoreStands` and `BackupStands`: what a claim says is in
the directory, or in the archive.

**DelegationListener.**  `AcceptedKeyStays` for any senders, keys, slots, saved
hashes and any page size.  `ListenerKnows`: what is in the batch and unknown to
`processed` cannot be older than what was accepted, unless its sender is
`overtaken`.  `StillGood`: the chain confirms what is accepted, and no node has denied
it to the sweep that is under way.

**HarvesterTracker.**  `CountedOnce`.  `LooksAreNear`: nobody looks at a block that is
more than `Reach` behind the chain.  `RecordsInOrder`: no block is recorded twice, and
a later record is at most `Reach` below an earlier one.  `NoneForgotten`: a counted
block near enough to be looked at again is among the records.  A record that is
pushed out is therefore behind every look to come, by a count: were it not, it, the
records and the new block would be `KeepBlocks + 1` blocks close to it.  That takes
`KeepsEnough`: the node signs at most `KeepBlocks` of the blocks within `Reach` of any
one.  With the code's 50 and 30 (harvest.go:110,174 and 370) these are 50 of
`61 + 2 * MaxLag` blocks.  A node that signs most blocks of its network is outside the
theorem: if the scanner lags by tens of blocks while a request has already
recorded the newest 50, nothing in the code keeps it from counting one again.

**WslSetup.**  `SetupMakesReady`.  `ScriptFits` says what a run of the script knows of
its distribution (it is listed, it is one that the script takes for what was asked
for, and after a clean conversion its version is 2) and that other windows keep
that true.  The distribution that the probe selects comes from the order of the
listing; `FirstOne` and `LastOne` say what the first and the last element of a
sequence with a property are.

**WslEngine.**  `OneEngineOnData` and `SyncedChainKept`.  `LocksHaveHolders` ties the two
mutexes and the flag to the phases of their holders.  `AloneWhileStarting`: one
engine, and none while a start is under way, whatever else went wrong before, since
a start itself asks for an engine; only a start that gets a wrong answer breaks it.
`NoOverlap`: a start beside a stop is remembered.  `EveryEngineIsKnown`: without a
mishap a live engine has its wrapper, its reaper and the flag, and there is none once
a stop has seen it go.  `NothingTakesTheChain`: a chain that was synchronised is
whole, no script is about to write the seed, and no start is about to remove the
state, unless it could not read the index or missed the engine.

**ReplicatorStorage.**  `OnboardingIsFunded`, from `CacheWasTrue` (a cached positive
answer was once true of its key, or what the code takes for it) and `SeenFunded` (so
was what an onboarding has read).

**SyncWatchdog.**  `StallsAreRecovered`: how long a recovery may be due before it is
done.  `AgeIsTrue`: the advance that was noted is no younger than it looks.
`ReadsBelow`: no height that was read is above the chain, until it is set back.
`UnseenInTime` and `SeenInTime` bound `pending` before and after the last advance is
noted, by the cooldown and what is left of the patience, with one round of the
loop (`Slack`) for what the tick has still to do; a tick whose reading is out of
date is fresh in time (`ReadIsFresh`).  It takes `Grace <= Cooldown`: after a start the
watchdog holds its hand for a shorter time than after a restart, 3 and 5 minutes
(supervisor.go:1207 and 1216).

Only model-checked: the seven liveness properties of section 3, which take
fairness and `ENABLED`, beyond the prover; and the six counterexamples.  Nothing is
proved by induction over data, and no module uses a RECURSIVE operator.

## 5. Limits of the models

- `ProcessSupervisor` is POSIX; `WslEngine` is the same control on Windows.  Time is
  a choice in both: the progress test in `StopNode`'s polling loop may fire at any
  moment, so nothing is said about when it should.
- Engine heights and the content of the chain are not in it: `catapult.recovery`
  is a tool that works on the directory for a while.
- Two operations that write one file at once are modelled by the last one to
  finish it; the properties about content are stated without an overlap, but for
  `FailedLeavesNothing`.
- A watchdog that has read the intent before the user's stop and starts the node after
  it (supervisor.go:1171) violates none of the supervisor's properties, since its start
  sets the intent again: `UnwantedIsStopping` and `WantedIsRetried` go through that
  interleaving and say that flags, intent and engine agree after it.
- The components are checked each with the engine it stops and starts, not all
  with one supervisor.  Hence nothing is said of a node that is started during a
  migration (server.go:1477), nor of a `wasRunning` that is out of date
  (updater.go:472); both are in the list of hazards without a property.
- `DelegationListener` has one identity for the node and writes a key file in one
  step.  `WslSetup` takes a probe as one step, and leaves out two of its inputs: the
  error codes in the tail of the install log (wsl_windows.go:316-383), which may make
  it report a failed installation, and the reboot that the registry says is pending.
  `WslEngine` has one distribution; that a start or a stop looks at another one is a
  pgrep or an index that gives the wrong answer.  `ReplicatorStorage` leaves out the peer cache,
  the disk metrics and `CleanSandboxes`; `ConfigManager` all properties but the
  paths, the harvesting key and the release of the official files.  `HarvesterTracker` leaves out fees.

Not modelled:

- log streaming, metrics, disk space, and the port proxy of Windows, which render
  or forward and keep no state that others rely on;
- the queries of the chain monitor beyond heights and account links;
- authentication, sessions, validator registration, JSON and static files of the
  API server;
- cryptography (key derivation, signatures, tables of curve points), which computes
  on bytes; a signature or a decryption is an outcome in the models;
- UPnP, the web frontend, the packaging scripts.

## 6. Where code and text disagree

1. `reconcile_after_shutdown`: `StopNode` gives `mu` away at supervisor.go:1009
   and only then clears locks and runs `catapult.recovery`; a `StartNode` in
   between has its new engine on the same directory.
2. `stall_restart`: the watchdog's `RestartNode` clears `userIntendedRunning`
   through `StopNode`; if its `StartNode` fails, the watchdog never tries again.
3. `chunk_overflow`: offsets are the size of `blocks.dat` truncated to 32 bits;
   beyond that the first blocks are overwritten, and their loose files are gone.
4. `snapshot_busy`: a second snapshot operation is admitted while a remote
   restore fetches, verifies or compares.
5. `data_path`: config.go:303 reads the old path of the data as `data.path` of
   config-user.properties, where `SaveNodeConfig` writes `dataDirectory`.  A second
   move of the data therefore starts from the default directory, finds nothing
   there, and the configuration names a directory without data.
6. `delegation_order`: delegation_listener.go:416 goes through a page newest first;
   when an unlink and a later link are in one page, the unlink is answered last
   and removes the key that was just placed.

Met while modelling, without a run of their own; the properties name 7 to 12 as
excuses.

7. manager.go:792-860 and 235-305, supervisor.go:2228-2268: entries that are skipped
   and `Close` errors that are ignored end in `completed` (`passed`, `disturbed`).
8. engine_updater.go:541: after a crash between the renames, or a rename back that
   failed, the next update removes the last copy of the old engine (`overwritten`).
   The flag `IsApplying` may be taken from a running update in three ways (`cleared`).
9. backup.go:35 reads, under `cm.mu`, files that supervisor.go:719 and updater.go:507-529
   write without it, the first by way of an empty file (`torn`); backup.go:138 and
   config.go:563 leave the placeholder in a file that has no key (`unfilled`).
10. delegation_listener.go:562-608: the sweep removes a key that the chain confirms when
    the first API node to answer is behind.
11. wsl_windows.go:135-154 and 1364: one failure of wsl.exe, pgrep or the probe lets a
    start clear the locks of a live engine and start a second one, or a stop go on beside
    it (`unseen`, `lost`); 1238-1257: an index that cannot be read has the state of a
    synchronised chain removed (`unread`).
12. storage.go:400-401: "insufficient XPX balance" (595) does not come up for an account
    with enough of an unknown mosaic and no XPX (`token`).
13. supervisor.go:1245: "Network is ahead by at least 5 blocks"; the code at 1247 asks for
    more than 5, `networkHeight > localHeight+5`, so a node exactly 5 blocks behind is
    not restarted.  `RestartMeansStall` and `StallMeansRestart` take the code's reading.

## 7. What is left

The plan took the components in this order: supervisor, migrator, snapshot
manager, updaters, configuration, listener, tracker, the supervisor's restores,
Windows, replicator, stall test; with proofs where an invariant is worth one.  Left of it:

1. A clock for the polling loop of `StopNode` (supervisor.go:895 to 994), which
   `ProcessSupervisor` leaves open.
2. Compositions: the migrator beside the supervisor (server.go:1462-1487), the
   snapshot manager and the updaters over `NodeLifecycle`.
3. Abstract promises in the manner of `NodeLifecycle` for the other components that
   share the engine: the snapshot manager's and the updaters' use of
   `NodeController`, refined by their modules.
