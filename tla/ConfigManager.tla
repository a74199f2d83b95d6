---------------------------- MODULE ConfigManager ----------------------------
(***************************************************************************)
(* The configuration manager and the files it shares with the storage      *)
(* manager (pkg/config, the configuration half of pkg/storage) and the     *)
(* HTTP handlers that call them.  The files are guarded by one             *)
(* readers-writer lock per manager; a reader of either may take the        *)
(* configuration's read lock a second time, and Go refuses a read lock as  *)
(* soon as a writer waits.  Two others write some of the files and take    *)
(* neither lock: a start of the node, and an update of the official files. *)
(***************************************************************************)
EXTENDS Naturals, FiniteSets

CONSTANTS
    Request,      \* HTTP requests, each of them handled once
    Path,         \* data directories
    DefaultPath,  \* chainconfig/data
    NoPath,       \* the property is not there
    Entry,        \* top-level entries of the data directory
    Nobody,       \* no goroutine
    MaxFaults,    \* bound: writes, copies and removals that fail
    MaxOutside    \* bound: starts of the node and official updates

VARIABLES
    props,        \* what the property files say
    stored,       \* the entries that are whole in each directory
    rw,           \* the two readers-writer locks
    request,      \* each request: where it is and its local variables
    bundles,      \* the last backup and the last recovery package exported
    faults,       \* how many operations failed
    outside,      \* the start of the node that rewrites the user's file
    torn,         \* requests into whose copy a start or an update wrote
    respelled,    \* the line of the key was ever spelled otherwise
    unfilled      \* a placeholder once came into a file without a key

vars == <<props, stored, rw, request, bundles, faults, outside, torn, respelled, unfilled>>
-----------------------------------------------------------------------------
Lock == {"config", "storage"}
SomePath == Path \cup {NoPath}

Props == [manager : SomePath,      \* data.path of config-manager.properties
          user : SomePath,         \* dataDirectory of config-user.properties
          legacy : SomePath,       \* data.path of config-user.properties
          key : {"absent", "template", "empty", "real", "redacted"},  \* harvestKey
          odd : BOOLEAN,           \* its line is not spelled "k = v" or "k=v"
          release : 0..MaxOutside] \* of config-network, peers, replicators, ...

File == {"manager", "user", "harvesting", "official"}

Op == {"load", "link", "backup", "package", "drives",
       "save", "raw", "import", "restore", "replicator"}
Writes == {"link", "save", "raw", "import", "restore", "replicator"}

LockOf(op) == IF op \in {"drives", "replicator"} THEN "storage" ELSE "config"

NoProps == [manager |-> NoPath, user |-> NoPath, legacy |-> NoPath,
            key |-> "absent", odd |-> FALSE, release |-> 0]
Waiting == [op |-> "load", pc |-> "idle", path |-> NoPath, migrate |-> FALSE,
            seen |-> NoProps, from |-> NoPath, todo |-> {}, moving |-> {}]
Unlocked == [writer |-> Nobody, readers |-> [r \in Request |-> 0]]
Absent == [pc |-> "idle", path |-> NoPath, legacy |-> NoPath, count |-> 0]

(* An installation that has run before: the data is where the files say,   *)
(* in a version that kept data.path in the user's file perhaps.            *)
Init ==
    /\ props \in {[NoProps EXCEPT !.key = "template"]}
                 \cup {[NoProps EXCEPT !.key = "real", !.legacy = p] : p \in Path}
    /\ stored = [p \in Path |-> IF p = (IF props.legacy = NoPath THEN DefaultPath
                                        ELSE props.legacy) THEN Entry ELSE {}]
    /\ rw = [l \in Lock |-> Unlocked]
    /\ request = [r \in Request |-> Waiting]
    /\ bundles = [b \in {"backup", "package"} |-> NoProps]
    /\ faults = 0
    /\ outside = Absent /\ torn = {}
    /\ respelled = FALSE /\ unfilled = FALSE

At(r, pc) == request[r].pc = pc
Goto(r, pc) == request' = [request EXCEPT ![r].pc = pc]

(* LoadNodeConfig: where the data is. *)
EffectivePath(p) ==
    IF p.manager \notin {NoPath, DefaultPath} THEN p.manager
    ELSE IF p.legacy # NoPath THEN p.legacy
    ELSE IF p.user # NoPath THEN p.user
    ELSE DefaultPath

(* A missing properties file is made from its template. *)
Ensured(p) == IF p.key = "absent" THEN [p EXCEPT !.key = "template"] ELSE p

Redacted(p) == IF p.key = "real" THEN [p EXCEPT !.key = "redacted"] ELSE p
-----------------------------------------------------------------------------
(* The locks. *)

MayRead(l) == rw[l].writer = Nobody
ReadLocked(l, r) == [rw EXCEPT ![l].readers[r] = @ + 1]
ReadUnlocked(l, r) == [rw EXCEPT ![l].readers[r] = @ - 1]

(* A writer takes the place of the writer, which keeps new readers out, and *)
(* then waits for the readers that are inside.                              *)
Announce(r, l) == MayRead(l) /\ rw' = [rw EXCEPT ![l].writer = r]

Acquire(r) ==
    /\ At(r, "announced")
    /\ \A q \in Request : rw[LockOf(request[r].op)].readers[q] = 0
    /\ Goto(r, "writing")
    /\ UNCHANGED <<props, stored, rw, bundles, faults>>

Answer(r) == request' = [request EXCEPT ![r] =
    [Waiting EXCEPT !.pc = "done", !.op = request[r].op, !.migrate = request[r].migrate]]

WriteUnlock(r) ==
    /\ rw' = [rw EXCEPT ![LockOf(request[r].op)].writer = Nobody]
    /\ Answer(r)
-----------------------------------------------------------------------------
(* The readers. *)

BeginRead(r, op) ==
    /\ At(r, "idle") /\ op \in {"load", "link"}
    /\ request' = [request EXCEPT ![r].op = op, ![r].pc = "lock"]
    /\ UNCHANGED <<props, stored, rw, bundles, faults>>

(* The exports and LoadStorageConfig hold a read lock and call              *)
(* LoadNodeConfig, which takes the configuration's.                         *)
BeginNestedRead(r, op) ==
    /\ At(r, "idle") /\ op \in {"backup", "package", "drives"}
    /\ MayRead(LockOf(op))
    /\ rw' = ReadLocked(LockOf(op), r)
    /\ request' = [request EXCEPT ![r].op = op, ![r].pc = "lock"]
    /\ UNCHANGED <<props, stored, bundles, faults>>

Load(r) ==
    /\ At(r, "lock") /\ MayRead("config")
    /\ rw' = ReadLocked("config", r)
    /\ props' = Ensured(props)
    /\ request' = [request EXCEPT ![r].pc = "loaded", ![r].seen = Ensured(props)]
    /\ UNCHANGED <<stored, bundles, faults>>

(* Mutant: LoadStorageConfig returns with its own lock held. *)
LoadReturnsLocked(r) ==
    /\ At(r, "loaded")
    /\ rw' = ReadUnlocked("config", r)
    /\ \/ request[r].op \in {"backup", "package"} /\ Goto(r, "copy")
       \/ request[r].op = "link" /\ Goto(r, "linked")
       \/ request[r].op \in {"load", "drives"} /\ Answer(r)
    /\ UNCHANGED <<props, stored, bundles, faults>>

LoadReturns(r) ==
    /\ At(r, "loaded")
    /\ rw' = IF request[r].op = "drives"
             THEN [l \in Lock |-> [rw[l] EXCEPT !.readers[r] = 0]]
             ELSE ReadUnlocked("config", r)
    /\ \/ request[r].op \in {"backup", "package"} /\ Goto(r, "copy")
       \/ request[r].op = "link" /\ Goto(r, "linked")
       \/ request[r].op \in {"load", "drives"} /\ Answer(r)
    /\ UNCHANGED <<props, stored, bundles, faults>>

(* These files of p, and the others as they are. *)
Replaced(p, files) ==
    [manager |-> IF "manager" \in files THEN p.manager ELSE props.manager,
     user    |-> IF "user" \in files THEN p.user ELSE props.user,
     legacy  |-> IF "user" \in files THEN p.legacy ELSE props.legacy,
     key     |-> IF "harvesting" \in files THEN p.key ELSE props.key,
     odd     |-> IF "harvesting" \in files THEN p.odd ELSE props.odd,
     release |-> IF "official" \in files THEN p.release ELSE props.release]

(* The export reads file after file, in the order of its list or of the     *)
(* directory: the first ones, and then the rest.                            *)
CopyFirst(r) ==
    /\ At(r, "copy")
    /\ request' = [request EXCEPT ![r].pc = "copying", ![r].seen = props]
    /\ UNCHANGED <<props, stored, rw, bundles, faults>>

CopyRest(r) ==
    /\ At(r, "copying")
    /\ \E first \in SUBSET File :
         LET all == Replaced(request[r].seen, first)
         IN  bundles' = [bundles EXCEPT ![request[r].op] =
                             IF request[r].op = "backup" THEN Redacted(all) ELSE all]
    /\ rw' = [rw EXCEPT !["config"].readers[r] = 0]
    /\ Answer(r)
    /\ UNCHANGED <<props, stored, faults>>
-----------------------------------------------------------------------------
(* The writers. *)

BeginWrite(r, op, path, migrate) ==
    /\ At(r, "idle") /\ op \in Writes \ {"link"}
    /\ Announce(r, LockOf(op))
    /\ request' = [request EXCEPT ![r].op = op, ![r].pc = "announced",
                                  ![r].path = path, ![r].migrate = migrate]
    /\ UNCHANGED <<props, stored, bundles, faults>>

(* handleHarvestingLink: the configuration it loaded goes back with a new   *)
(* key, whatever was saved since.                                           *)
SaveLinked(r) ==
    /\ At(r, "linked") /\ Announce(r, "config")
    /\ request' = [request EXCEPT ![r].pc = "announced",
                                  ![r].path = EffectivePath(request[r].seen)]
    /\ UNCHANGED <<props, stored, bundles, faults>>

SaveNodeConfig(r) ==
    /\ At(r, "writing") /\ request[r].op \in {"save", "link"}
    /\ LET from == IF props.legacy # NoPath THEN props.legacy ELSE DefaultPath
       IN  IF request[r].migrate /\ from # request[r].path
           THEN request' = [request EXCEPT ![r].pc = "moving", ![r].from = from,
                                           ![r].todo = stored[from]]
           ELSE Goto(r, "manager")
    /\ UNCHANGED <<props, stored, rw, bundles, faults>>

MoveEntry(r, e) ==
    /\ At(r, "moving") /\ e \in request[r].todo /\ request[r].moving = {}
    /\ stored' = [stored EXCEPT ![request[r].from] = @ \ {e},
                                ![request[r].path] = @ \cup {e}]
    /\ request' = [request EXCEPT ![r].todo = @ \ {e}]
    /\ UNCHANGED <<props, rw, bundles, faults>>

(* Another device: what the target had of the entry is overwritten. *)
CopyEntry(r, e) ==
    /\ At(r, "moving") /\ e \in request[r].todo /\ request[r].moving = {}
    /\ stored' = [stored EXCEPT ![request[r].path] = @ \ {e}]
    /\ request' = [request EXCEPT ![r].todo = @ \ {e}, ![r].moving = {e}]
    /\ UNCHANGED <<props, rw, bundles, faults>>

(* The original is removed; an error of that is ignored, and may leave it   *)
(* whole.                                                                   *)
EntryCopied(r) ==
    /\ At(r, "moving") /\ request[r].moving # {}
    /\ \E kept \in {{}, request[r].moving} :
         /\ stored' = [stored EXCEPT ![request[r].from] = (@ \ request[r].moving) \cup kept,
                                     ![request[r].path] = @ \cup request[r].moving]
         /\ kept # {} => faults < MaxFaults
         /\ faults' = faults + Cardinality(kept)
    /\ request' = [request EXCEPT ![r].moving = {}]
    /\ UNCHANGED <<props, rw, bundles>>

Moved(r) ==
    /\ At(r, "moving") /\ request[r].todo = {} /\ request[r].moving = {}
    /\ Goto(r, "manager")
    /\ UNCHANGED <<props, stored, rw, bundles, faults>>

(* Mutant: the original goes whatever the copy says. *)
MigrationFailsRemoved(r) ==
    /\ At(r, "moving") /\ faults < MaxFaults
    /\ faults' = faults + 1
    /\ stored' = [stored EXCEPT ![request[r].from] = @ \ request[r].moving]
    /\ WriteUnlock(r)
    /\ UNCHANGED <<props, bundles>>

MigrationFails(r) ==
    /\ At(r, "moving") /\ faults < MaxFaults
    /\ faults' = faults + 1
    /\ WriteUnlock(r)
    /\ UNCHANGED <<props, stored, bundles>>

WriteManager(r) ==
    /\ At(r, "manager")
    /\ props' = [props EXCEPT !.manager = request[r].path]
    /\ Goto(r, "user")
    /\ UNCHANGED <<stored, rw, bundles, faults>>

(* What does not belong into the user's file is stripped, by a second write *)
(* whose error is ignored.                                                  *)
WriteUser(r) ==
    /\ At(r, "user")
    /\ \/ /\ props' = [props EXCEPT !.user = request[r].path, !.legacy = NoPath]
          /\ UNCHANGED faults
       \/ /\ props' = [props EXCEPT !.user = request[r].path]
          /\ faults < MaxFaults /\ faults' = faults + 1
    /\ Goto(r, "harvesting")
    /\ UNCHANGED <<stored, rw, bundles>>

(* A request without a key leaves the key, or makes a file whose key is     *)
(* empty.                                                                   *)
Keyless(p) == IF p.key = "absent" THEN [p EXCEPT !.key = "empty"] ELSE p

WriteHarvesting(r) ==
    /\ At(r, "harvesting")
    /\ \/ props' = [props EXCEPT !.key = "real", !.odd = FALSE]
       \/ request[r].op = "save" /\ props' = Keyless(props)
    /\ WriteUnlock(r)
    /\ UNCHANGED <<stored, bundles, faults>>

(* The file stays, or is removed by the fallback of a failed rename; the    *)
(* files before it are written.  A missing config-node.properties, which    *)
(* has no template, is an error of its own.                                 *)
WriteFails(r) ==
    /\ request[r].pc \in {"manager", "user", "harvesting"} /\ faults < MaxFaults
    /\ faults' = faults + 1
    /\ \/ UNCHANGED props
       \/ At(r, "manager") /\ props' = [props EXCEPT !.manager = NoPath]
       \/ At(r, "user") /\ props' = [props EXCEPT !.user = NoPath, !.legacy = NoPath]
       \/ At(r, "harvesting") /\ props' = [props EXCEPT !.key = "absent", !.odd = FALSE]
    /\ WriteUnlock(r)
    /\ UNCHANGED <<stored, bundles>>

(* The placeholder of a redacted key is replaced by the key on disk if its  *)
(* own line is spelled the usual way and the file has a key.                *)
WithOwnKey(p) ==
    IF p.key = "redacted" /\ ~p.odd /\ props.key \notin {"absent", "empty"}
    THEN [p EXCEPT !.key = props.key] ELSE p

SaveRawConfigFile(r) ==
    /\ At(r, "writing") /\ request[r].op = "raw"
    /\ \/ \E p \in Path : props' \in {[props EXCEPT !.manager = p], [props EXCEPT !.legacy = p]}
       \/ \E odd \in BOOLEAN : props' = [props EXCEPT !.key = "real", !.odd = odd]
       \/ props' = [props EXCEPT !.key = "empty", !.odd = FALSE]
       \/ props' = WithOwnKey(Redacted(props))
    /\ WriteUnlock(r)
    /\ UNCHANGED <<stored, bundles, faults>>

(* The files of a bundle come one after the other; a write that fails is    *)
(* passed over by the import and ends the restoration.                      *)
Written(files) ==
    /\ files # File => faults < MaxFaults
    /\ faults' = IF files # File THEN faults + 1 ELSE faults

(* Mutant: the placeholder is written as it is. *)
ImportBackupAsIs(r) ==
    /\ At(r, "writing") /\ request[r].op = "import"
    /\ bundles["backup"].key # "absent"
    /\ \E files \in SUBSET File :
         props' = Replaced(bundles["backup"], files) /\ Written(files)
    /\ WriteUnlock(r)
    /\ UNCHANGED <<stored, bundles>>

ImportBackup(r) ==
    /\ At(r, "writing") /\ request[r].op = "import"
    /\ bundles["backup"].key # "absent"
    /\ \E files \in SUBSET File :
         props' = Replaced(WithOwnKey(bundles["backup"]), files) /\ Written(files)
    /\ WriteUnlock(r)
    /\ UNCHANGED <<stored, bundles>>

RestoreDisasterRecoveryPackage(r) ==
    /\ At(r, "writing") /\ request[r].op = "restore"
    /\ bundles["package"].key # "absent"
    /\ \E files \in SUBSET File :
         props' = Replaced(bundles["package"], files) /\ Written(files)
    /\ WriteUnlock(r)
    /\ UNCHANGED <<stored, bundles>>

(* A bundle without files; SaveStorageConfig, whose file is its own. *)
WritesNothingHere(r) ==
    /\ At(r, "writing")
    /\ \/ request[r].op = "import" /\ bundles["backup"].key = "absent"
       \/ request[r].op = "restore" /\ bundles["package"].key = "absent"
       \/ request[r].op = "replicator"
    /\ WriteUnlock(r)
    /\ UNCHANGED <<props, stored, bundles, faults>>
-----------------------------------------------------------------------------
(* Who writes without the locks: a start of the node reads the user's file, *)
(* with all its properties, and writes it back with the directory it was    *)
(* started with, truncating it first; an update of the official files takes *)
(* the place of those the exports hold as well.                             *)

Copying == {r \in Request : At(r, "copying")}

SyncReads ==
    /\ outside.pc = "idle" /\ outside.count < MaxOutside
    /\ outside' = [pc |-> "read", path |-> EffectivePath(props), legacy |-> props.legacy,
                   count |-> outside.count + 1]
    /\ UNCHANGED <<props, torn>>

SyncTruncates ==
    /\ outside.pc = "read"
    /\ props' = [props EXCEPT !.user = NoPath, !.legacy = NoPath]
    /\ outside' = [outside EXCEPT !.pc = "cut"]
    /\ torn' = torn \cup Copying

(* Its error is ignored; and what it writes is lost, unnoticed, if a save   *)
(* has put another file into the place of the truncated one.                *)
SyncWrites ==
    /\ outside.pc = "cut"
    /\ \/ UNCHANGED props
       \/ /\ props.user = NoPath /\ props.legacy = NoPath
          /\ props' = [props EXCEPT !.user = outside.path, !.legacy = outside.legacy]
    /\ outside' = [Absent EXCEPT !.count = outside.count]
    /\ torn' = torn \cup Copying

ReplaceOfficial ==
    /\ outside.pc = "idle" /\ outside.count < MaxOutside
    /\ props' = [props EXCEPT !.release = outside.count + 1]
    /\ outside' = [outside EXCEPT !.count = outside.count + 1]
    /\ torn' = torn \cup Copying

WriteOutside ==
    /\ SyncReads \/ SyncTruncates \/ SyncWrites \/ ReplaceOfficial
    /\ UNCHANGED <<stored, rw, request, bundles, faults>>

(* The manager is killed: the locks are gone, the files are as they are. *)
Crash ==
    /\ \/ \E r \in Request : request[r].pc \notin {"idle", "done"}
       \/ outside.pc # "idle"
    /\ outside' = [Absent EXCEPT !.count = outside.count]
    /\ rw' = [l \in Lock |-> Unlocked]
    /\ request' = [r \in Request |-> IF At(r, "idle") THEN Waiting
                                     ELSE [Waiting EXCEPT !.pc = "done"]]
    /\ UNCHANGED <<props, stored, bundles, faults, torn>>

Handle(r) ==
    \/ \E op \in Op : BeginRead(r, op) \/ BeginNestedRead(r, op)
    \/ \E op \in Writes : BeginWrite(r, op, NoPath, FALSE) /\ op # "save"
    \/ \E p \in Path, migrate \in BOOLEAN : BeginWrite(r, "save", p, migrate)
    \/ Load(r) \/ LoadReturns(r) \/ CopyFirst(r) \/ CopyRest(r)
    \/ SaveLinked(r) \/ Acquire(r) \/ SaveNodeConfig(r)
    \/ \E e \in Entry : MoveEntry(r, e) \/ CopyEntry(r, e)
    \/ EntryCopied(r) \/ Moved(r) \/ MigrationFails(r)
    \/ WriteManager(r) \/ WriteUser(r) \/ WriteHarvesting(r) \/ WriteFails(r)
    \/ SaveRawConfigFile(r) \/ ImportBackup(r) \/ RestoreDisasterRecoveryPackage(r)
    \/ WritesNothingHere(r)

Explain ==
    /\ respelled' = (respelled \/ props'.odd)
    /\ unfilled' = (unfilled \/ (props.key \in {"absent", "empty"} /\ props'.key = "redacted"))

Next ==
    /\ \/ Crash \/ WriteOutside
       \/ \E r \in Request : Handle(r) /\ UNCHANGED <<outside, torn>>
    /\ Explain

Spec == Init /\ [][Next]_vars
-----------------------------------------------------------------------------
TypeOK ==
    /\ props \in Props
    /\ stored \in [Path -> SUBSET Entry]
    /\ rw \in [Lock -> [writer : Request \cup {Nobody}, readers : [Request -> 0..2]]]
    /\ request \in [Request -> [op : Op, path : SomePath, migrate : BOOLEAN, seen : Props,
                                from : SomePath, todo : SUBSET Entry, moving : SUBSET Entry,
                                pc : {"idle", "lock", "loaded", "copy", "copying", "linked",
                                      "announced", "writing", "moving", "manager", "user",
                                      "harvesting", "done"}]]
    /\ bundles \in [{"backup", "package"} -> Props]
    /\ faults \in 0..MaxFaults
    /\ outside \in [pc : {"idle", "read", "cut"}, path : SomePath, legacy : SomePath,
                   count : 0..MaxOutside]
    /\ torn \subseteq Request
    /\ respelled \in BOOLEAN /\ unfilled \in BOOLEAN

Blocked(r) ==
    \/ At(r, "lock") /\ ~MayRead("config")
    \/ At(r, "announced") /\ \E q \in Request : rw[LockOf(request[r].op)].readers[q] > 0

(* The only way in which the requests can all wait for each other is an     *)
(* export that holds the configuration's read lock and asks for it again    *)
(* behind a writer (backup.go:25 and config.go:207); LoadStorageConfig,     *)
(* which holds the storage manager's, blocks nobody for ever.               *)
OnlyNestedReadBlocks ==
    LET busy == {r \in Request : request[r].pc \notin {"idle", "done", "linked"}}
    IN  busy # {} /\ (\A r \in busy : Blocked(r)) =>
            \E r \in busy : /\ At(r, "lock") /\ rw["config"].readers[r] = 1
                            /\ rw["config"].writer \in busy

(* Between the first and the last file an export reads nobody saves: the    *)
(* files that only the lock's holders write are those of one moment, and    *)
(* all of them are unless a start of the node or an official update wrote   *)
(* meanwhile (syncProperties, supervisor.go:719; updater.go:507-529).       *)
Locked(p) == [manager |-> p.manager, key |-> p.key, odd |-> p.odd]

ExportIsSnapshot == \A r \in Request : At(r, "copying") =>
    /\ Locked(request[r].seen) = Locked(props)
    /\ request[r].seen = props \/ r \in torn

(* Whatever fails or is interrupted, every entry of the data is whole in    *)
(* one of the directories.                                                  *)
DataNeverLost == \A e \in Entry : \E p \in Path : e \in stored[p]

(* No sequence of exports, imports, restorations and saves of a redacted    *)
(* file puts a placeholder in the place of the key on disk, unless the      *)
(* key's line was once spelled in a way the replacement does not know, or a *)
(* placeholder already came into a file that had no key to put in its place *)
(* (backup.go:138, config.go:563).                                          *)
KeySurvivesImport == props.key = "redacted" => respelled \/ unfilled

(* SaveNodeConfig handles the "data migration" (config.go:280): once every  *)
(* saved configuration asked for it and none failed, the data is where the  *)
(* configuration says it is.                                                *)
DataFollowsPath ==
    (/\ faults = 0
     /\ \A r \in Request : /\ request[r].pc \in {"idle", "done"}
                           /\ At(r, "done") => request[r].op = "save" /\ request[r].migrate)
    => stored[EffectivePath(props)] = Entry
=============================================================================
