------------------------------- MODULE Migrator -------------------------------
(***************************************************************************)
(* pkg/migrator/migrator.go: the conversion of a data directory from one   *)
(* loose .dat file (and perhaps a .stmt file) per block to one blocks.dat, *)
(* one statements.dat and one blocks.idx per chunk directory.              *)
(*                                                                         *)
(* One goroutine converts; Cancel comes from any other.  The files outlive *)
(* the process, the migrator does not.  A payload is one unit long here    *)
(* and stands for the block it belongs to; the offsets of the index are    *)
(* unsigned numbers below Width (2^32 in the code).                        *)
(***************************************************************************)
EXTENDS Integers, Sequences

CONSTANTS
    Heights,      \* the blocks that were there as loose files
    WithStmt,     \* those of them with a .stmt file
    Width,        \* number of offsets that an index entry can hold
    Torn,         \* what a failed write may leave behind
    NoBlock,
    Failures,     \* bound: the system calls that may fail
    MaxRuns       \* bound: how often a migration is started

ASSUME HeightsAssumption == Heights \subseteq Nat /\ WithStmt \subseteq Heights
ASSUME WidthAssumption == Width \in Nat \ {0}
ASSUME TornAssumption == Torn \notin Heights /\ NoBlock \notin Heights
ASSUME FailuresAssumption ==
    Failures \subseteq {"scan", "read", "readStmt", "write", "seek", "unlink"}
ASSUME MaxRunsAssumption == MaxRuns \in Nat

VARIABLES
    status, isRunning,
    cancel,                \* TRUE when the channel is closed
    runs,
    pc,                    \* where the goroutine is
    dirs, chunk,           \* chunk directories to come, and the current one
    todo, stmtFiles,       \* looseHeights still to come, stmtFilesMap
    height, payload,       \* the current block, whether it has statements
    blockOffset, stmtOffset,
    loose, looseStmt,      \* heights with a .dat, a .stmt file
    blocks, statements,    \* content of blocks.dat, statements.dat per chunk
    index,                 \* blocks.idx of all chunks, by chunk and slot
    ignored                \* history: what went wrong unnoticed

control == <<status, isRunning, cancel, runs>>
locals  == <<dirs, chunk, todo, stmtFiles, height, payload, blockOffset, stmtOffset>>
disk    == <<loose, looseStmt, blocks, statements, index>>
vars    == <<control, pc, locals, disk, ignored>>

-----------------------------------------------------------------------------
ChunkOf(h) == h \div 65536
SlotOf(h)  == h % 65536
Place(h)   == <<ChunkOf(h), SlotOf(h)>>

Chunks == {ChunkOf(h) : h \in Heights}
Places == {Place(h) : h \in Heights}

Payloads == Heights \cup {Torn}
Zero     == [offset |-> 0, size |-> 0, stmt |-> 0, stmtSize |-> 0]
Offsets  == 0..Width - 1
Entries  == [offset : Offsets, size : {0, 1}, stmt : Offsets, stmtSize : {0, 1}]

(* The offset of the next payload: the size of the file, as a uint32.      *)
(* Mutants: the file is written from its beginning; the offset is as wide  *)
(* as a file is long.                                                      *)
beginning(file) == 0
wide(file) == Len(file)
endOf(file) == Len(file) % Width

(* Seek and Write.  (The offset is never behind the end of the file.) *)
WriteAt(file, offset, data) ==
    IF offset = Len(file) THEN Append(file, data) ELSE [file EXCEPT ![offset + 1] = data]

(* What a reader finds through the index. *)
Stored(h) == LET e == index[Place(h)] IN
    /\ e.size = 1 /\ e.offset < Len(blocks[ChunkOf(h)])
    /\ blocks[ChunkOf(h)][e.offset + 1] = h
StoredStmt(h) == LET e == index[Place(h)] IN
    /\ e.stmtSize = 1 /\ e.stmt < Len(statements[ChunkOf(h)])
    /\ statements[ChunkOf(h)][e.stmt + 1] = h

-----------------------------------------------------------------------------
Init ==
    /\ status = "idle" /\ isRunning = FALSE /\ cancel = FALSE /\ runs = 0
    /\ pc = "none" /\ dirs = {} /\ chunk = -1 /\ todo = {} /\ stmtFiles = {}
    /\ height = NoBlock /\ payload = FALSE /\ blockOffset = 0 /\ stmtOffset = 0
    /\ loose = Heights /\ looseStmt = WithStmt
    /\ blocks = [c \in Chunks |-> <<>>] /\ statements = [c \in Chunks |-> <<>>]
    /\ index = [p \in Places |-> Zero]
    /\ ignored = {}

(* Mutant: the goroutine leaves isRunning as it is. *)
noReset == UNCHANGED isRunning
deferredReset == isRunning' = FALSE

(* The goroutine is gone, and its local variables with it. *)
EndRun ==
    /\ deferredReset
    /\ pc' = "none" /\ dirs' = {} /\ chunk' = -1 /\ todo' = {} /\ stmtFiles' = {}
    /\ height' = NoBlock /\ payload' = FALSE /\ blockOffset' = 0 /\ stmtOffset' = 0

(* "migration already in progress" leaves everything as it is. *)
StartMigration ==
    /\ ~isRunning /\ runs < MaxRuns
    /\ isRunning' = TRUE /\ cancel' = FALSE
    /\ status' = "running"
    /\ runs' = runs + 1
    /\ pc' = "scan"
    /\ UNCHANGED <<locals, disk, ignored>>

Cancel ==
    /\ isRunning
    /\ cancel' = TRUE
    /\ status' = "cancelled"
    /\ UNCHANGED <<isRunning, runs, pc, locals, disk, ignored>>

(* The goroutine returns; fail and complete write the status whatever it   *)
(* is by now.                                                              *)
Return(s) ==
    /\ status' = s
    /\ EndRun
    /\ UNCHANGED <<cancel, runs>>

fail == Return("failed")
complete == Return("completed")

Scan ==
    /\ pc = "scan"
    /\ \/ /\ pc' = "dir" /\ dirs' = Chunks
          /\ UNCHANGED <<control, chunk, todo, stmtFiles, height, payload,
                         blockOffset, stmtOffset>>
       \/ "scan" \in Failures /\ fail
    /\ UNCHANGED <<disk, ignored>>

RunComplete == pc = "dir" /\ dirs = {} /\ complete /\ UNCHANGED <<disk, ignored>>

RunCancelled == /\ pc = "dir" /\ dirs # {} /\ cancel
                /\ Return(status)
                /\ UNCHANGED <<disk, ignored>>

(* processDirectory up to its loop: it may fail to list the directory or   *)
(* to open the three files, and is done when there is nothing loose.       *)
EnterDirectory ==
    /\ pc = "dir" /\ ~cancel
    /\ \E c \in dirs :
          /\ \A d \in dirs : c <= d
          /\ \/ /\ dirs' = dirs \ {c} /\ chunk' = c
                /\ todo' = {h \in loose : ChunkOf(h) = c}
                /\ stmtFiles' = {h \in looseStmt : ChunkOf(h) = c}
                /\ pc' = IF todo' = {} THEN "dir" ELSE "next"
                /\ UNCHANGED <<control, height, payload, blockOffset, stmtOffset>>
             \/ "scan" \in Failures /\ fail
    /\ UNCHANGED <<disk, ignored>>

DirectoryDone == /\ pc = "next" /\ todo = {}
                 /\ pc' = "dir"
                 /\ UNCHANGED <<control, locals, disk, ignored>>

(* Mutant: a cancelled directory counts as a converted one. *)
cancelledWithoutError == pc' = "dir" /\ UNCHANGED <<control, locals>>
cancelled == fail

DirectoryCancelled == /\ pc = "next" /\ todo # {} /\ cancel
                      /\ cancelled
                      /\ UNCHANGED <<disk, ignored>>

(* A .dat file that cannot be read is skipped; a .stmt file that cannot be *)
(* read counts as one without content.                                     *)
ReadBlock ==
    /\ pc = "next" /\ ~cancel
    /\ \E h \in todo :
          /\ \A g \in todo : h <= g
          /\ \/ /\ pc' = "block"
                /\ height' = h
                /\ todo' = todo \ {h}
                /\ \/ payload' = (h \in stmtFiles) /\ UNCHANGED ignored
                   \/ /\ h \in stmtFiles /\ "readStmt" \in Failures
                      /\ payload' = FALSE
                      /\ ignored' = ignored \cup {"readStmt"}
             \/ /\ "read" \in Failures
                /\ todo' = todo \ {h}
                /\ ignored' = ignored \cup {"read"}
                /\ UNCHANGED <<pc, height, payload>>
    /\ UNCHANGED <<control, dirs, chunk, stmtFiles, blockOffset, stmtOffset, disk>>

Wrapped(file) == IF Len(file) < Width THEN {} ELSE {"wrap"}

WriteBlock ==
    /\ pc = "block"
    /\ LET file == blocks[chunk] IN
          \/ /\ blockOffset' = endOf(file)
             /\ blocks' = [blocks EXCEPT ![chunk] = WriteAt(file, endOf(file), height)]
             /\ stmtOffset' = 0
             /\ pc' = IF payload THEN "stmt" ELSE "index"
             /\ ignored' = ignored \cup Wrapped(file)
             /\ UNCHANGED <<control, dirs, chunk, todo, stmtFiles, height, payload>>
          \/ /\ "write" \in Failures
             /\ blocks' = [blocks EXCEPT ![chunk] = WriteAt(file, endOf(file), Torn)]
             /\ ignored' = ignored \cup Wrapped(file)
             /\ fail
    /\ UNCHANGED <<loose, looseStmt, statements, index>>

WriteStmt ==
    /\ pc = "stmt"
    /\ LET file == statements[chunk] IN
          \/ /\ stmtOffset' = endOf(file)
             /\ statements' = [statements EXCEPT ![chunk] =
                                  WriteAt(file, endOf(file), height)]
             /\ pc' = "index"
             /\ ignored' = ignored \cup Wrapped(file)
             /\ UNCHANGED <<control, dirs, chunk, todo, stmtFiles, height, payload,
                            blockOffset>>
          \/ /\ "write" \in Failures
             /\ statements' = [statements EXCEPT ![chunk] =
                                  WriteAt(file, endOf(file), Torn)]
             /\ ignored' = ignored \cup Wrapped(file)
             /\ fail
    /\ UNCHANGED <<loose, looseStmt, blocks, index>>

(* Mutant: the two offsets are swapped. *)
entrySwapped == [offset |-> stmtOffset, size |-> 1,
                 stmt |-> blockOffset, stmtSize |-> IF payload THEN 1 ELSE 0]
entry == [offset |-> blockOffset, size |-> 1,
          stmt |-> stmtOffset, stmtSize |-> IF payload THEN 1 ELSE 0]

(* When the Seek fails, the entry is not written and nothing is reported. *)
WriteIndex ==
    /\ pc = "index"
    /\ \/ /\ index' = [index EXCEPT ![Place(height)] = entry]
          /\ pc' = "unlink"
          /\ UNCHANGED <<control, locals, ignored>>
       \/ /\ "seek" \in Failures
          /\ pc' = "unlink"
          /\ ignored' = ignored \cup {"seek"}
          /\ UNCHANGED <<control, locals, index>>
       \/ /\ "write" \in Failures
          /\ \E e \in {index[Place(height)], Zero} :
                index' = [index EXCEPT ![Place(height)] = e]
          /\ fail
          /\ UNCHANGED ignored
    /\ UNCHANGED <<loose, looseStmt, blocks, statements>>

Unlink ==
    /\ pc = "unlink"
    /\ \/ loose' = loose \ {height} /\ UNCHANGED ignored
       \/ /\ "unlink" \in Failures
          /\ ignored' = ignored \cup {"unlink"}
          /\ UNCHANGED loose
    /\ pc' = "unlinkStmt"
    /\ UNCHANGED <<control, locals, looseStmt, blocks, statements, index>>

UnlinkStmt ==
    /\ pc = "unlinkStmt"
    /\ \/ looseStmt' = IF height \in stmtFiles THEN looseStmt \ {height} ELSE looseStmt
       \/ "unlink" \in Failures /\ UNCHANGED looseStmt
    /\ pc' = "next"
    /\ UNCHANGED <<control, locals, loose, blocks, statements, index, ignored>>

(* The process ends, and a new one has a new migrator. *)
Crash ==
    /\ isRunning
    /\ status' = "idle" /\ cancel' = FALSE
    /\ EndRun
    /\ UNCHANGED <<runs, disk, ignored>>

-----------------------------------------------------------------------------
run == \/ Scan \/ RunComplete \/ RunCancelled
       \/ EnterDirectory \/ DirectoryDone \/ DirectoryCancelled
       \/ ReadBlock \/ WriteBlock \/ WriteStmt \/ WriteIndex
       \/ Unlink \/ UnlinkStmt

Next == StartMigration \/ Cancel \/ run \/ Crash

Spec == Init /\ [][Next]_vars

(* The goroutine never waits for anything. *)
FairSpec == Spec /\ WF_vars(run)

-----------------------------------------------------------------------------
TypeOK ==
    /\ status \in {"idle", "running", "completed", "failed", "cancelled"}
    /\ isRunning \in BOOLEAN /\ cancel \in BOOLEAN
    /\ runs \in 0..MaxRuns
    /\ pc \in {"none", "scan", "dir", "next", "block", "stmt", "index", "unlink",
               "unlinkStmt"}
    /\ pc # "none" <=> isRunning
    /\ dirs \subseteq Chunks
    /\ todo \subseteq {h \in Heights : ChunkOf(h) = chunk} /\ stmtFiles \subseteq WithStmt
    /\ payload \in BOOLEAN
    /\ pc \in {"next", "block", "stmt", "index", "unlink", "unlinkStmt"} => chunk \in Chunks
    /\ pc \in {"block", "stmt", "index", "unlink", "unlinkStmt"} =>
          height \in Heights /\ chunk = ChunkOf(height)
    /\ blockOffset \in Offsets /\ stmtOffset \in Offsets
    /\ loose \subseteq Heights /\ looseStmt \subseteq WithStmt
    /\ blocks \in [Chunks -> Seq(Payloads)] /\ statements \in [Chunks -> Seq(Payloads)]
    /\ index \in [Places -> Entries]
    /\ ignored \subseteq {"read", "readStmt", "seek", "unlink", "wrap"}

(* Every block of the chain can be read, as its own file or through the    *)
(* index, at every moment: while a migration runs, after it failed, after  *)
(* a crash anywhere in it, and after it was started again on what the last *)
(* one left.  Unless an index entry could not be written and nobody        *)
(* noticed, or blocks.dat outgrew its 32 bit offsets.                      *)
BlockNeverLost ==
    ignored \cap {"seek", "wrap"} = {} =>
        \A h \in Heights : h \in loose \/ Stored(h)

(* The same for the statements of a block.  It also takes that no failure  *)
(* to read a .stmt file was ignored before the file was removed, and none  *)
(* to remove a .dat file: the next run would convert that block again,     *)
(* without the statements whose file is gone.                              *)
StatementNeverLost ==
    ignored \cap {"seek", "wrap", "readStmt", "unlink"} = {} =>
        \A h \in WithStmt : h \in looseStmt \/ StoredStmt(h)

(* An index entry that is there leads to its block, never to another one.  *)
IndexLeadsToBlock ==
    ignored \cap {"wrap"} = {} =>
        \A h \in Heights : index[Place(h)].size = 1 => Stored(h)

(* The inductive invariant.  What the goroutine has read and written so    *)
(* far of the current block, as long as nothing was ignored.               *)
BlockInHand ==
    /\ todo \subseteq {h \in loose : ChunkOf(h) = chunk}
    /\ pc \in {"block", "stmt", "index", "unlink"} => height \in loose
    /\ pc \in {"block", "stmt", "index", "unlink", "unlinkStmt"} => height \notin todo

BlockWritten ==
    /\ "wrap" \notin ignored /\ pc \in {"stmt", "index"} =>
          /\ blockOffset < Len(blocks[chunk])
          /\ blocks[chunk][blockOffset + 1] = height
    /\ ignored \cap {"seek", "wrap"} = {} /\ pc \in {"unlink", "unlinkStmt"} =>
          Stored(height)

StatementInHand ==
    ignored \cap {"seek", "wrap", "readStmt", "unlink"} = {} =>
        /\ \A h \in WithStmt : h \in loose => h \in looseStmt
        /\ {h \in looseStmt : ChunkOf(h) = chunk} \subseteq stmtFiles
        /\ pc = "unlinkStmt" => height \notin loose
        /\ pc \in {"block", "stmt", "index", "unlink", "unlinkStmt"} =>
              payload = (height \in stmtFiles)
        /\ pc = "index" /\ payload => /\ stmtOffset < Len(statements[chunk])
                                      /\ statements[chunk][stmtOffset + 1] = height
        /\ pc \in {"unlink", "unlinkStmt"} /\ payload => StoredStmt(height)

Inv == /\ BlockInHand /\ BlockWritten /\ StatementInHand
       /\ BlockNeverLost /\ StatementNeverLost /\ IndexLeadsToBlock

(* "completed" means that no loose block is left, but for those that could *)
(* not be read or removed.                                                 *)
CompletedMeansMigrated ==
    status = "completed" /\ ignored \cap {"read", "unlink"} = {} => loose = {}

(* A migration ends. *)
MigrationEnds == isRunning ~> ~isRunning

(* specs/003-unit-test-coverage/spec.md:15: "block data conversions and    *)
(* cancellation states execute reliably without corrupting chain history". *)
ChainHistoryKept == \A h \in Heights : h \in loose \/ Stored(h)
=============================================================================
