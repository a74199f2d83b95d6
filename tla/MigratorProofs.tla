--------------------------- MODULE MigratorProofs ---------------------------
(***************************************************************************)
(* Proofs about Migrator, for any set of blocks, any width of an offset,   *)
(* any combination of failing system calls and any number of runs.         *)
(***************************************************************************)
EXTENDS Migrator, SequenceTheorems, TLAPS

-----------------------------------------------------------------------------
(* Files and the index. *)

(* No two blocks share an entry of an index. *)
LEMMA PlaceInjective ==
    ASSUME NEW g \in Heights, NEW h \in Heights, Place(g) = Place(h)
    PROVE  g = h
<1>1. g \in Nat /\ h \in Nat
      BY HeightsAssumption
<1>2. g \div 65536 = h \div 65536 /\ g % 65536 = h % 65536
      BY DEF Place, ChunkOf, SlotOf
<1> QED BY <1>1, <1>2

(* The uint32 of a file's size is an offset in the file, and the end of the
   file as long as it fits. *)
LEMMA EndOf ==
    ASSUME NEW S, NEW file \in Seq(S)
    PROVE  /\ endOf(file) \in Offsets
           /\ endOf(file) \in 0..Len(file)
           /\ Wrapped(file) = {} => endOf(file) = Len(file)
<1>1. Width \in Nat \ {0} /\ Len(file) \in Nat
      BY WidthAssumption
<1>2. Len(file) % Width \in 0..Width - 1
      BY <1>1
<1>3. Len(file) % Width <= Len(file)
      BY <1>1
<1>4. Len(file) < Width => Len(file) % Width = Len(file)
      BY <1>1
<1> QED BY <1>1, <1>2, <1>3, <1>4 DEF endOf, Wrapped, Offsets

(* A write changes the payload at its offset, or adds it at the end. *)
LEMMA WriteAtEffect ==
    ASSUME NEW S, NEW file \in Seq(S), NEW data \in S, NEW offset \in 0..Len(file)
    PROVE  /\ WriteAt(file, offset, data) \in Seq(S)
           /\ Len(WriteAt(file, offset, data)) >= Len(file)
           /\ Len(WriteAt(file, offset, data)) > offset
           /\ WriteAt(file, offset, data)[offset + 1] = data
           /\ \A i \in 1..Len(file) :
                 i # offset + 1 => WriteAt(file, offset, data)[i] = file[i]
<1>1. CASE offset = Len(file)
      BY <1>1 DEF WriteAt
<1>2. CASE offset # Len(file)
  <2>1. offset + 1 \in 1..Len(file)
        BY <1>2
  <2>2. WriteAt(file, offset, data) = [file EXCEPT ![offset + 1] = data]
        BY <1>2 DEF WriteAt
  <2>3. /\ WriteAt(file, offset, data) \in Seq(S)
        /\ Len(WriteAt(file, offset, data)) = Len(file)
        /\ \A j \in 1..Len(file) :
              WriteAt(file, offset, data)[j] = IF j = offset + 1 THEN data ELSE file[j]
        BY <2>1, <2>2, ExceptSeq
  <2> QED BY <2>1, <2>3
<1> QED BY <1>1, <1>2

(* A test for membership is a Boolean. *)
LEMMA Membership ==
    ASSUME NEW b, NEW S, NEW e, b = (e \in S)
    PROVE  b \in BOOLEAN
  OBVIOUS

(* Offset 0 always fits. *)
LEMMA NoOffset == 0 \in Offsets
  BY WidthAssumption DEF Offsets

-----------------------------------------------------------------------------
(* Type correctness. *)

(* Every step keeps every variable in its range. *)
LEMMA TypeStep ==
    TypeOK /\ [Next]_vars => TypeOK'
<1> SUFFICES ASSUME TypeOK, [Next]_vars
             PROVE  TypeOK'
    OBVIOUS
<1> USE HeightsAssumption, NoOffset
    DEF HeightsAssumption, TypeOK, control, locals, disk
<1>1. CASE StartMigration
  <2>1. runs' = runs + 1 /\ runs < MaxRuns /\ runs \in 0..MaxRuns
        BY <1>1 DEF StartMigration
  <2>2. runs' \in 0..MaxRuns
        BY <2>1, MaxRunsAssumption
  <2> QED BY <1>1, <2>2 DEF StartMigration
<1>2. CASE Cancel
      BY <1>2 DEF Cancel
<1>3. CASE Scan
      BY <1>3 DEF Scan, fail, Return, EndRun, deferredReset
<1>4. CASE RunComplete
      BY <1>4 DEF RunComplete, complete, Return, EndRun, deferredReset
<1>5. CASE RunCancelled
      BY <1>5 DEF RunCancelled, Return, EndRun, deferredReset
<1>6. CASE EnterDirectory
  <2>1. CASE fail
        BY <1>6, <2>1 DEF EnterDirectory, fail, Return, EndRun, deferredReset
  <2>2. CASE ~fail
    <3>1. PICK c \in dirs :
             /\ dirs' = dirs \ {c} /\ chunk' = c
             /\ todo' = {h \in loose : ChunkOf(h) = c}
             /\ stmtFiles' = {h \in looseStmt : ChunkOf(h) = c}
             /\ pc' = IF todo' = {} THEN "dir" ELSE "next"
             /\ UNCHANGED <<control, height, payload, blockOffset, stmtOffset>>
          BY <1>6, <2>2 DEF EnterDirectory
    <3>2. UNCHANGED <<disk, ignored>> /\ isRunning
          BY <1>6 DEF EnterDirectory
    <3>3. /\ chunk' \in Chunks /\ stmtFiles' \subseteq WithStmt
          /\ todo' \subseteq {h \in Heights : ChunkOf(h) = chunk'}
          BY <3>1
    <3> QED BY <3>1, <3>2, <3>3
  <2> QED BY <2>1, <2>2
<1>7. CASE DirectoryDone
      BY <1>7 DEF DirectoryDone
<1>8. CASE DirectoryCancelled
      BY <1>8 DEF DirectoryCancelled, cancelled, fail, Return, EndRun, deferredReset
<1>9. CASE ReadBlock
  <2>1. PICK h \in todo :
           \/ pc' = "block" /\ height' = h /\ todo' = todo \ {h}
           \/ todo' = todo \ {h} /\ UNCHANGED <<pc, height, payload>>
        BY <1>9 DEF ReadBlock
  <2>2. /\ h \in Heights /\ ChunkOf(h) = chunk
        /\ todo' \subseteq {g \in Heights : ChunkOf(g) = chunk}
        BY <2>1
  <2>3. payload' \in BOOLEAN
    <3>1. (\E g \in todo : payload' = (g \in stmtFiles)) \/ payload' = FALSE \/ payload' = payload
          BY <1>9, Zenon DEF ReadBlock
    <3>2. CASE \E g \in todo : payload' = (g \in stmtFiles)
          BY <3>2, Membership
    <3> QED BY <3>1, <3>2
  <2>4. ignored' \subseteq {"read", "readStmt", "seek", "unlink", "wrap"}
        BY <1>9 DEF ReadBlock
  <2>5. pc' # "none" /\ isRunning'
        BY <1>9 DEF ReadBlock
  <2>6. pc' \in {"block", "stmt", "index", "unlink", "unlinkStmt"} =>
           height' \in Heights /\ chunk' = ChunkOf(height')
        BY <1>9, <2>1, <2>2 DEF ReadBlock
  <2> QED BY <1>9, <2>1, <2>2, <2>3, <2>4, <2>5, <2>6 DEF ReadBlock
<1>10. CASE WriteBlock
  <2>0. blocks[chunk] \in Seq(Payloads) /\ height \in Payloads /\ Torn \in Payloads
        BY <1>10 DEF WriteBlock, Payloads
  <2>1. \A d \in Payloads : WriteAt(blocks[chunk], endOf(blocks[chunk]), d) \in Seq(Payloads)
        BY <2>0, EndOf, WriteAtEffect
  <2>2. endOf(blocks[chunk]) \in Offsets
        BY <2>0, EndOf
  <2>3. Wrapped(blocks[chunk]) \subseteq {"wrap"}
        BY DEF Wrapped
  <2> HIDE DEF Payloads
  <2> QED BY <1>10, <2>0, <2>1, <2>2, <2>3 DEF WriteBlock, fail, Return, EndRun, deferredReset
<1>11. CASE WriteStmt
  <2>0. statements[chunk] \in Seq(Payloads) /\ height \in Payloads /\ Torn \in Payloads
        BY <1>11 DEF WriteStmt, Payloads
  <2>1. \A d \in Payloads : WriteAt(statements[chunk], endOf(statements[chunk]), d) \in Seq(Payloads)
        BY <2>0, EndOf, WriteAtEffect
  <2>2. endOf(statements[chunk]) \in Offsets
        BY <2>0, EndOf
  <2>3. Wrapped(statements[chunk]) \subseteq {"wrap"}
        BY DEF Wrapped
  <2> HIDE DEF Payloads
  <2> QED BY <1>11, <2>0, <2>1, <2>2, <2>3 DEF WriteStmt, fail, Return, EndRun, deferredReset
<1>12. CASE WriteIndex
  <2>1. entry \in Entries /\ Zero \in Entries
        BY DEF entry, Zero, Entries
  <2>2. Place(height) \in Places /\ index[Place(height)] \in Entries
        BY <1>12 DEF WriteIndex, Places
  <2>3. index' \in [Places -> Entries]
    <3>1. \/ UNCHANGED index
          \/ \E e \in {entry, Zero, index[Place(height)]} :
                index' = [index EXCEPT ![Place(height)] = e]
          BY <1>12 DEF WriteIndex
    <3> QED BY <2>1, <2>2, <3>1
  <2>4. UNCHANGED <<loose, looseStmt, blocks, statements>>
        BY <1>12 DEF WriteIndex
  <2>5. CASE fail
        BY <1>12, <2>3, <2>4, <2>5 DEF WriteIndex, fail, Return, EndRun, deferredReset
  <2>6. CASE ~fail
        BY <1>12, <2>3, <2>4, <2>6 DEF WriteIndex
  <2> QED BY <2>5, <2>6
<1>13. CASE Unlink
      BY <1>13 DEF Unlink
<1>14. CASE UnlinkStmt
      BY <1>14 DEF UnlinkStmt
<1>15. CASE Crash
      BY <1>15 DEF Crash, EndRun, deferredReset
<1>16. CASE UNCHANGED vars
      BY <1>16 DEF vars
<1> QED BY <1>1, <1>2, <1>3, <1>4, <1>5, <1>6, <1>7, <1>8, <1>9, <1>10, <1>11, <1>12,
           <1>13, <1>14, <1>15, <1>16 DEF Next, run

THEOREM TypeCorrect == Spec => []TypeOK
<1>1. Init => TypeOK
  <2> SUFFICES ASSUME Init PROVE TypeOK
      OBVIOUS
  <2>1. Zero \in Entries
        BY NoOffset DEF Zero, Entries
  <2>2. 0 \in 0..MaxRuns
        BY MaxRunsAssumption
  <2>3. <<>> \in Seq(Payloads)
        OBVIOUS
  <2>4. /\ blocks \in [Chunks -> Seq(Payloads)] /\ statements \in [Chunks -> Seq(Payloads)]
        /\ index \in [Places -> Entries]
        BY <2>1, <2>3 DEF Init
  <2>5. loose \subseteq Heights /\ looseStmt \subseteq WithStmt
        BY DEF Init
  <2> QED BY <2>2, <2>4, <2>5, NoOffset DEF Init, TypeOK
<1> QED BY <1>1, TypeStep, PTL DEF Spec

-----------------------------------------------------------------------------
(* The chain is kept. *)

(* Nothing that is in the files f has moved or changed in the files g. *)
Grows(f, g) ==
    \A c \in Chunks : /\ Len(f[c]) <= Len(g[c])
                      /\ \A i \in 1..Len(f[c]) : g[c][i] = f[c][i]

(* A file that still fits its offsets grows when it is written. *)
LEMMA WriteGrows ==
    ASSUME NEW f \in [Chunks -> Seq(Payloads)], NEW c \in Chunks, NEW data \in Payloads
    PROVE  LET file == WriteAt(f[c], endOf(f[c]), data) IN
           /\ endOf(f[c]) < Len(file)
           /\ file[endOf(f[c]) + 1] = data
           /\ Wrapped(f[c]) = {} => Grows(f, [f EXCEPT ![c] = file])
<1> DEFINE file == WriteAt(f[c], endOf(f[c]), data)
           g == [f EXCEPT ![c] = file]
<1>1. f[c] \in Seq(Payloads) /\ Len(f[c]) \in Nat
      OBVIOUS
<1>2. endOf(f[c]) \in 0..Len(f[c]) /\ (Wrapped(f[c]) = {} => endOf(f[c]) = Len(f[c]))
      BY <1>1, EndOf
<1>3. /\ file \in Seq(Payloads)
      /\ Len(file) >= Len(f[c])
      /\ Len(file) > endOf(f[c])
      /\ file[endOf(f[c]) + 1] = data
      /\ \A i \in 1..Len(f[c]) : i # endOf(f[c]) + 1 => file[i] = f[c][i]
      BY <1>1, <1>2, WriteAtEffect
<1>4. Wrapped(f[c]) = {} => Grows(f, g)
  <2> SUFFICES ASSUME Wrapped(f[c]) = {}, NEW d \in Chunks
               PROVE  /\ Len(f[d]) <= Len(g[d])
                      /\ \A i \in 1..Len(f[d]) : g[d][i] = f[d][i]
      BY DEF Grows
  <2>1. CASE d = c
    <3>1. g[d] = file
          BY <2>1
    <3> HIDE DEF file, g
    <3> QED BY <1>1, <1>2, <1>3, <2>1, <3>1
  <2>2. CASE d # c
    <3>1. g[d] = f[d] /\ Len(f[d]) \in Nat
          BY <2>2
    <3> HIDE DEF file, g
    <3> QED BY <3>1
  <2> QED BY <2>1, <2>2
<1> HIDE DEF file
<1>5. endOf(f[c]) < Len(file)
      BY <1>1, <1>2, <1>3
<1> QED BY <1>3, <1>4, <1>5 DEF file

(* A block that can be read through the index can be read when its entry
   stays and the files grow. *)
LEMMA StoredStays ==
    ASSUME TypeOK, NEW h \in Heights, index'[Place(h)] = index[Place(h)]
    PROVE  /\ Grows(blocks, blocks') /\ Stored(h) => Stored(h)'
           /\ Grows(statements, statements') /\ StoredStmt(h) => StoredStmt(h)'
<1> DEFINE e == index[Place(h)]
           c == ChunkOf(h)
<1>1. c \in Chunks /\ e \in Entries
      BY DEF TypeOK, Chunks, Places
<1>2. Len(blocks[c]) \in Nat /\ Len(statements[c]) \in Nat
      BY <1>1 DEF TypeOK
<1>3. e.offset \in Nat /\ e.stmt \in Nat
      BY <1>1, WidthAssumption DEF Entries, Offsets
<1>4. Stored(h) <=> (e.size = 1 /\ e.offset < Len(blocks[c]) /\ blocks[c][e.offset + 1] = h)
      BY DEF Stored
<1>5. Stored(h)' <=> (e.size = 1 /\ e.offset < Len(blocks'[c]) /\ blocks'[c][e.offset + 1] = h)
      BY DEF Stored
<1>6. StoredStmt(h) <=> (e.stmtSize = 1 /\ e.stmt < Len(statements[c]) /\ statements[c][e.stmt + 1] = h)
      BY DEF StoredStmt
<1>7. StoredStmt(h)' <=> (e.stmtSize = 1 /\ e.stmt < Len(statements'[c]) /\ statements'[c][e.stmt + 1] = h)
      BY DEF StoredStmt
<1> HIDE DEF e, c
<1>8. ASSUME Grows(blocks, blocks'), Stored(h) PROVE Stored(h)'
  <2>1. e.offset + 1 \in 1..Len(blocks[c])
        BY <1>2, <1>3, <1>4, <1>8
  <2>2. blocks'[c][e.offset + 1] = h
        BY <1>1, <1>4, <1>8, <2>1 DEF Grows
  <2>3. e.offset < Len(blocks'[c])
        BY <1>1, <1>2, <1>3, <1>8, <2>1 DEF Grows
  <2> QED BY <1>4, <1>5, <1>8, <2>2, <2>3
<1>9. ASSUME Grows(statements, statements'), StoredStmt(h) PROVE StoredStmt(h)'
  <2>1. e.stmt + 1 \in 1..Len(statements[c])
        BY <1>2, <1>3, <1>6, <1>9
  <2>2. statements'[c][e.stmt + 1] = h
        BY <1>1, <1>6, <1>9, <2>1 DEF Grows
  <2>3. e.stmt < Len(statements'[c])
        BY <1>1, <1>2, <1>3, <1>9, <2>1 DEF Grows
  <2> QED BY <1>6, <1>7, <1>9, <2>2, <2>3
<1> QED BY <1>8, <1>9

(* Whoever is found in the directory, or through the index, still is when
   only blocks.dat and statements.dat are written, and they grow. *)
LEMMA ChainStays ==
    ASSUME TypeOK, Inv,
           UNCHANGED <<loose, looseStmt, index>>,
           ignored \subseteq ignored',
           "wrap" \notin ignored' => Grows(blocks, blocks') /\ Grows(statements, statements')
    PROVE  BlockNeverLost' /\ StatementNeverLost' /\ IndexLeadsToBlock'
<1>1. ASSUME NEW h \in Heights, "wrap" \notin ignored'
      PROVE  (Stored(h) => Stored(h)') /\ (StoredStmt(h) => StoredStmt(h)')
      BY <1>1, StoredStays
<1>2. BlockNeverLost'
      BY <1>1 DEF Inv, BlockNeverLost
<1>3. StatementNeverLost'
      BY <1>1, HeightsAssumption DEF Inv, StatementNeverLost
<1>4. IndexLeadsToBlock'
      BY <1>1 DEF Inv, IndexLeadsToBlock
<1> QED BY <1>2, <1>3, <1>4

(* Files that are not written grow, too. *)
LEMMA GrowsRefl ==
    TypeOK => Grows(blocks, blocks) /\ Grows(statements, statements)
<1> SUFFICES ASSUME TypeOK, NEW c \in Chunks
             PROVE  Len(blocks[c]) <= Len(blocks[c]) /\ Len(statements[c]) <= Len(statements[c])
    BY DEF Grows
<1>1. Len(blocks[c]) \in Nat /\ Len(statements[c]) \in Nat
      BY DEF TypeOK
<1> QED BY <1>1

LEMMA ChainUntouched ==
    ASSUME TypeOK, Inv, UNCHANGED disk, ignored \subseteq ignored'
    PROVE  BlockNeverLost' /\ StatementNeverLost' /\ IndexLeadsToBlock'
<1>1. Grows(blocks, blocks') /\ Grows(statements, statements')
      BY GrowsRefl DEF disk
<1> QED BY <1>1, ChainStays DEF disk

(* A chunk has a number. *)
LEMMA NoChunk == \A h \in Heights : ChunkOf(h) # -1
  BY HeightsAssumption DEF ChunkOf

(* What is left of the invariant when the goroutine returns. *)
LEMMA Returned ==
    ASSUME TypeOK, Inv, EndRun, UNCHANGED <<loose, looseStmt>>, ignored \subseteq ignored'
    PROVE  BlockInHand' /\ BlockWritten' /\ StatementInHand'
<1>1. {h \in looseStmt' : ChunkOf(h) = chunk'} = {}
      BY NoChunk, HeightsAssumption DEF TypeOK, EndRun, deferredReset
<1>2. BlockInHand' /\ BlockWritten'
      BY DEF EndRun, deferredReset, BlockInHand, BlockWritten
<1>3. StatementInHand'
      BY <1>1 DEF Inv, EndRun, deferredReset, StatementInHand
<1> QED BY <1>2, <1>3

LEMMA InvInit ==
    Init => Inv
<1> SUFFICES ASSUME Init PROVE Inv
    OBVIOUS
<1> USE DEF Init
<1>1. {h \in looseStmt : ChunkOf(h) = chunk} = {}
      BY NoChunk, HeightsAssumption
<1>2. BlockInHand /\ BlockWritten
      BY DEF BlockInHand, BlockWritten
<1>3. StatementInHand
      BY <1>1 DEF StatementInHand
<1>4. BlockNeverLost /\ StatementNeverLost
      BY DEF BlockNeverLost, StatementNeverLost
<1>5. IndexLeadsToBlock
      BY DEF IndexLeadsToBlock, Zero, Places
<1> QED BY <1>2, <1>3, <1>4, <1>5 DEF Inv

LEMMA InvStep ==
    TypeOK /\ Inv /\ [Next]_vars => Inv'
<1> SUFFICES ASSUME TypeOK, Inv, [Next]_vars
             PROVE  Inv'
    OBVIOUS
<1> USE DEF control, locals
<1>0. ASSUME UNCHANGED disk, ignored \subseteq ignored',
             BlockInHand' /\ BlockWritten' /\ StatementInHand'
      PROVE  Inv'
      BY <1>0, ChainUntouched DEF Inv
<1>r. ASSUME EndRun, UNCHANGED disk, UNCHANGED ignored
      PROVE  Inv'
      BY <1>r, <1>0, Returned DEF disk
<1>1. CASE StartMigration
  <2>1. UNCHANGED disk /\ UNCHANGED ignored /\ pc = "none" /\ pc' = "scan"
        BY <1>1 DEF StartMigration, TypeOK
  <2>2. BlockInHand'
        BY <1>1, <2>1 DEF StartMigration, Inv, BlockInHand, disk
  <2>3. BlockWritten'
        BY <2>1 DEF BlockWritten
  <2>4. StatementInHand'
        BY <1>1, <2>1 DEF StartMigration, Inv, StatementInHand, disk
  <2> QED BY <2>1, <2>2, <2>3, <2>4, <1>0
<1>2. CASE Cancel
  <2>1. UNCHANGED <<pc, locals, disk, ignored>>
        BY <1>2 DEF Cancel
  <2>2. BlockInHand' /\ BlockWritten' /\ StatementInHand'
        BY <2>1 DEF Inv, BlockInHand, BlockWritten, StatementInHand, Stored, StoredStmt, disk
  <2> QED BY <2>1, <2>2, <1>0
<1>3. CASE Scan
  <2>1. CASE EndRun
        BY <1>3, <2>1, <1>r DEF Scan
  <2>2. CASE ~EndRun
    <3>1. UNCHANGED <<chunk, todo, stmtFiles, height, payload, blockOffset, stmtOffset,
                      disk, ignored>> /\ pc' = "dir"
          BY <1>3, <2>2 DEF Scan, fail, Return
    <3>2. BlockInHand' /\ BlockWritten' /\ StatementInHand'
          BY <3>1 DEF Inv, BlockInHand, BlockWritten, StatementInHand, disk
    <3> QED BY <3>1, <3>2, <1>0
  <2> QED BY <2>1, <2>2
<1>4. CASE RunComplete
      BY <1>4, <1>r DEF RunComplete, complete, Return
<1>5. CASE RunCancelled
      BY <1>5, <1>r DEF RunCancelled, Return
<1>6. CASE EnterDirectory
  <2>1. CASE EndRun
        BY <1>6, <2>1, <1>r DEF EnterDirectory
  <2>2. CASE ~EndRun
    <3>1. /\ todo' = {h \in loose : ChunkOf(h) = chunk'}
          /\ stmtFiles' = {h \in looseStmt : ChunkOf(h) = chunk'}
          /\ pc' \in {"dir", "next"}
          BY <1>6, <2>2 DEF EnterDirectory, fail, Return
    <3>2. UNCHANGED disk /\ UNCHANGED ignored
          BY <1>6 DEF EnterDirectory
    <3>3. BlockInHand' /\ BlockWritten' /\ StatementInHand'
          BY <3>1, <3>2 DEF Inv, BlockInHand, BlockWritten, StatementInHand, disk
    <3> QED BY <3>2, <3>3, <1>0
  <2> QED BY <2>1, <2>2
<1>7. CASE DirectoryDone
  <2>1. UNCHANGED <<locals, disk, ignored>> /\ pc' = "dir"
        BY <1>7 DEF DirectoryDone
  <2>2. BlockInHand' /\ BlockWritten' /\ StatementInHand'
        BY <2>1 DEF Inv, BlockInHand, BlockWritten, StatementInHand, disk
  <2> QED BY <2>1, <2>2, <1>0
<1>8. CASE DirectoryCancelled
      BY <1>8, <1>r DEF DirectoryCancelled, cancelled, fail, Return
<1>9. CASE ReadBlock
  <2>1. UNCHANGED <<disk, chunk, stmtFiles>> /\ ignored \subseteq ignored'
        BY <1>9 DEF ReadBlock
  <2>2. PICK h \in todo :
           /\ todo' = todo \ {h}
           /\ \/ pc' = "block" /\ height' = h
              \/ pc' = "next"
        BY <1>9 DEF ReadBlock
  <2>3. BlockInHand'
        BY <2>1, <2>2 DEF Inv, BlockInHand, disk
  <2>4. BlockWritten'
        BY <2>2 DEF BlockWritten
  <2>5. pc' = "next" \/ "readStmt" \in ignored' \/ payload' = (height' \in stmtFiles)
        BY <1>9, Zenon DEF ReadBlock
  <2>6. StatementInHand'
        BY <2>1, <2>2, <2>5 DEF Inv, StatementInHand, disk
  <2> QED BY <2>1, <2>3, <2>4, <2>6, <1>0
<1>10. CASE WriteBlock
  <2> DEFINE file(d) == WriteAt(blocks[chunk], endOf(blocks[chunk]), d)
  <2>1. /\ chunk \in Chunks /\ height \in Payloads /\ Torn \in Payloads
        /\ blocks \in [Chunks -> Seq(Payloads)]
        BY <1>10 DEF WriteBlock, TypeOK, Payloads
  <2>2. /\ UNCHANGED <<loose, looseStmt, statements, index>>
        /\ ignored' = ignored \cup Wrapped(blocks[chunk])
        BY <1>10 DEF WriteBlock
  <2>3. /\ Wrapped(blocks[chunk]) \subseteq {"wrap"}
        /\ "wrap" \notin ignored' => Wrapped(blocks[chunk]) = {}
        BY <2>2 DEF Wrapped
  <2>4. PICK d \in {height, Torn} : blocks' = [blocks EXCEPT ![chunk] = file(d)]
        BY <1>10 DEF WriteBlock
  <2>5. Wrapped(blocks[chunk]) = {} => Grows(blocks, [blocks EXCEPT ![chunk] = file(d)])
        BY <2>1, WriteGrows
  <2>6. /\ "wrap" \notin ignored' => Grows(blocks, blocks') /\ Grows(statements, statements')
        /\ blocks'[chunk] = file(d)
        BY <2>1, <2>2, <2>3, <2>4, <2>5, GrowsRefl
  <2> HIDE DEF file
  <2>7. BlockNeverLost' /\ StatementNeverLost' /\ IndexLeadsToBlock'
        BY <2>2, <2>6, ChainStays
  <2>8. BlockInHand' /\ BlockWritten' /\ StatementInHand'
    <3>1. CASE EndRun
          BY <3>1, <2>2, Returned
    <3>2. CASE ~EndRun
      <4>1. /\ UNCHANGED <<chunk, todo, stmtFiles, height, payload>>
            /\ blockOffset' = endOf(blocks[chunk])
            /\ blocks' = [blocks EXCEPT ![chunk] = file(height)]
            /\ pc = "block"
            /\ pc' = IF payload THEN "stmt" ELSE "index"
            BY <1>10, <3>2 DEF WriteBlock, fail, Return, file
      <4>2. /\ blockOffset' < Len(blocks'[chunk])
            /\ blocks'[chunk][blockOffset' + 1] = height
            BY <4>1, <2>1, WriteGrows DEF file
      <4>3. BlockInHand'
            BY <4>1, <2>2 DEF Inv, BlockInHand
      <4>4. BlockWritten'
            BY <4>1, <4>2 DEF BlockWritten
      <4>5. StatementInHand'
            BY <4>1, <2>2 DEF Inv, StatementInHand
      <4> QED BY <4>3, <4>4, <4>5
    <3> QED BY <3>1, <3>2
  <2> QED BY <2>7, <2>8 DEF Inv
<1>11. CASE WriteStmt
  <2> DEFINE file(d) == WriteAt(statements[chunk], endOf(statements[chunk]), d)
  <2>1. /\ chunk \in Chunks /\ height \in Payloads /\ Torn \in Payloads
        /\ statements \in [Chunks -> Seq(Payloads)]
        BY <1>11 DEF WriteStmt, TypeOK, Payloads
  <2>2. /\ UNCHANGED <<loose, looseStmt, blocks, index>>
        /\ ignored' = ignored \cup Wrapped(statements[chunk])
        BY <1>11 DEF WriteStmt
  <2>3. /\ Wrapped(statements[chunk]) \subseteq {"wrap"}
        /\ "wrap" \notin ignored' => Wrapped(statements[chunk]) = {}
        BY <2>2 DEF Wrapped
  <2>4. PICK d \in {height, Torn} : statements' = [statements EXCEPT ![chunk] = file(d)]
        BY <1>11 DEF WriteStmt
  <2>5. Wrapped(statements[chunk]) = {} =>
            Grows(statements, [statements EXCEPT ![chunk] = file(d)])
        BY <2>1, WriteGrows
  <2>6. "wrap" \notin ignored' => Grows(blocks, blocks') /\ Grows(statements, statements')
        BY <2>1, <2>2, <2>3, <2>4, <2>5, GrowsRefl
  <2> HIDE DEF file
  <2>7. BlockNeverLost' /\ StatementNeverLost' /\ IndexLeadsToBlock'
        BY <2>2, <2>6, ChainStays
  <2>8. BlockInHand' /\ BlockWritten' /\ StatementInHand'
    <3>1. CASE EndRun
          BY <3>1, <2>2, Returned
    <3>2. CASE ~EndRun
      <4>1. /\ UNCHANGED <<chunk, todo, stmtFiles, height, payload, blockOffset>>
            /\ stmtOffset' = endOf(statements[chunk])
            /\ statements' = [statements EXCEPT ![chunk] = file(height)]
            /\ pc = "stmt" /\ pc' = "index"
            BY <1>11, <3>2 DEF WriteStmt, fail, Return, file
      <4>2. /\ stmtOffset' < Len(statements'[chunk])
            /\ statements'[chunk][stmtOffset' + 1] = height
            BY <4>1, <2>1, WriteGrows DEF file
      <4>3. BlockInHand'
            BY <4>1, <2>2 DEF Inv, BlockInHand
      <4>4. BlockWritten'
            BY <4>1, <2>2, <2>3 DEF Inv, BlockWritten
      <4>5. StatementInHand'
            BY <4>1, <4>2, <2>2 DEF Inv, StatementInHand
      <4> QED BY <4>3, <4>4, <4>5
    <3> QED BY <3>1, <3>2
  <2> QED BY <2>7, <2>8 DEF Inv
<1>12. CASE WriteIndex
  <2>1. /\ pc = "index" /\ height \in Heights /\ chunk = ChunkOf(height) /\ height \in loose
        /\ UNCHANGED <<loose, looseStmt, blocks, statements>>
        BY <1>12 DEF WriteIndex, Inv, BlockInHand, TypeOK
  <2>2. ASSUME NEW h \in Heights, h # height
        PROVE  /\ index'[Place(h)] = index[Place(h)]
               /\ Stored(h) => Stored(h)'
               /\ StoredStmt(h) => StoredStmt(h)'
    <3>1. Place(h) # Place(height)
          BY <2>1, <2>2, PlaceInjective
    <3>2. Place(h) \in Places /\ index \in [Places -> Entries]
          BY DEF TypeOK, Places
    <3>3. index'[Place(h)] = index[Place(h)]
          BY <1>12, <3>1, <3>2 DEF WriteIndex
    <3> QED BY <2>1, <3>3, StoredStays, GrowsRefl
  <2>3. ignored \subseteq ignored'
        BY <1>12 DEF WriteIndex
  <2>4. BlockNeverLost'
        BY <2>1, <2>2, <2>3 DEF Inv, BlockNeverLost
  <2>5. StatementNeverLost'
        BY <2>1, <2>2, <2>3, HeightsAssumption DEF Inv, StatementNeverLost, StatementInHand
  <2>6. CASE /\ index' = [index EXCEPT ![Place(height)] = entry]
             /\ pc' = "unlink" /\ UNCHANGED <<control, locals, ignored>>
    <3>1. index'[Place(height)] = entry
          BY <2>1, <2>6 DEF TypeOK, Places
    <3>2. "wrap" \notin ignored => Stored(height)'
          BY <2>1, <2>6, <3>1 DEF Inv, BlockWritten, Stored, entry
    <3>3. ASSUME ignored \cap {"seek", "wrap", "readStmt", "unlink"} = {}, payload
          PROVE  StoredStmt(height)'
      <4>1. entry.stmt = stmtOffset /\ entry.stmtSize = 1
            BY <3>3 DEF entry
      <4>2. stmtOffset < Len(statements[chunk]) /\ statements[chunk][stmtOffset + 1] = height
            BY <2>1, <3>3 DEF Inv, StatementInHand
      <4>3. UNCHANGED <<height, statements>>
            BY <2>1, <2>6
      <4> QED BY <2>1, <3>1, <4>1, <4>2, <4>3 DEF StoredStmt
    <3>4. BlockInHand'
          BY <2>1, <2>6 DEF Inv, BlockInHand
    <3>5. BlockWritten'
          BY <2>6, <3>2 DEF BlockWritten, Stored
    <3>6. StatementInHand'
          BY <2>1, <2>6, <3>3 DEF Inv, StatementInHand, StoredStmt
    <3>7. IndexLeadsToBlock'
          BY <2>2, <2>6, <3>2 DEF Inv, IndexLeadsToBlock
    <3> QED BY <2>4, <2>5, <3>4, <3>5, <3>6, <3>7 DEF Inv
  <2>7. CASE /\ UNCHANGED <<control, locals, index>> /\ pc' = "unlink"
             /\ ignored' = ignored \cup {"seek"}
    <3>4. BlockInHand'
          BY <2>1, <2>7 DEF Inv, BlockInHand
    <3>5. BlockWritten' /\ StatementInHand'
          BY <2>7 DEF BlockWritten, StatementInHand
    <3>7. IndexLeadsToBlock'
          BY <2>1, <2>7 DEF Inv, IndexLeadsToBlock, Stored
    <3> QED BY <2>4, <2>5, <3>4, <3>5, <3>7 DEF Inv
  <2>8. CASE /\ EndRun /\ UNCHANGED ignored
             /\ \E e \in {index[Place(height)], Zero} :
                   index' = [index EXCEPT ![Place(height)] = e]
    <3>1. index'[Place(height)] = index[Place(height)] \/ index'[Place(height)].size = 0
          BY <2>1, <2>8 DEF TypeOK, Places, Zero
    <3>2. CASE index'[Place(height)] = index[Place(height)]
      <4>1. ASSUME NEW h \in Heights
            PROVE  index'[Place(h)] = index[Place(h)] /\ (Stored(h) => Stored(h)')
        <5>1. index'[Place(h)] = index[Place(h)]
              BY <2>2, <3>2
        <5> QED BY <2>1, <5>1, StoredStays, GrowsRefl
      <4>2. IndexLeadsToBlock'
            BY <2>8, <4>1 DEF Inv, IndexLeadsToBlock
      <4> QED BY <4>2, <2>1, <2>3, <2>4, <2>5, <2>8, Returned DEF Inv
    <3>3. CASE index'[Place(height)].size = 0
      <4>2. IndexLeadsToBlock'
            BY <2>2, <2>8, <3>3 DEF Inv, IndexLeadsToBlock
      <4> QED BY <4>2, <2>1, <2>3, <2>4, <2>5, <2>8, Returned DEF Inv
    <3> QED BY <3>1, <3>2, <3>3
  <2> QED BY <1>12, <2>6, <2>7, <2>8 DEF WriteIndex, fail, Return
<1>13. CASE Unlink
  <2>1. /\ pc = "unlink" /\ pc' = "unlinkStmt" /\ height \in Heights
        /\ UNCHANGED <<locals, looseStmt, blocks, statements, index>>
        BY <1>13 DEF Unlink, TypeOK
  <2>2. \A h \in Heights : (Stored(h) <=> Stored(h)') /\ (StoredStmt(h) <=> StoredStmt(h)')
        BY <2>1 DEF Stored, StoredStmt
  <2>3. ignored \cap {"seek", "wrap"} = {} => Stored(height)
        BY <2>1 DEF Inv, BlockWritten
  <2>4. CASE loose' = loose \ {height} /\ UNCHANGED ignored
    <3>1. BlockInHand' /\ BlockWritten'
          BY <2>1, <2>2, <2>3, <2>4 DEF Inv, BlockInHand, BlockWritten
    <3>2. StatementInHand'
          BY <2>1, <2>2, <2>4 DEF Inv, StatementInHand
    <3>3. BlockNeverLost' /\ StatementNeverLost' /\ IndexLeadsToBlock'
          BY <2>1, <2>2, <2>3, <2>4, HeightsAssumption
          DEF Inv, BlockNeverLost, StatementNeverLost, IndexLeadsToBlock
    <3> QED BY <3>1, <3>2, <3>3 DEF Inv
  <2>5. CASE UNCHANGED loose /\ ignored' = ignored \cup {"unlink"}
    <3>1. BlockInHand' /\ BlockWritten'
          BY <2>1, <2>2, <2>3, <2>5 DEF Inv, BlockInHand, BlockWritten
    <3>2. StatementInHand'
          BY <2>5 DEF StatementInHand
    <3> QED BY <2>1, <2>5, <3>1, <3>2, <1>0 DEF disk
  <2> QED BY <1>13, <2>4, <2>5 DEF Unlink
<1>14. CASE UnlinkStmt
  <2>1. /\ pc = "unlinkStmt" /\ pc' = "next" /\ height \in Heights
        /\ UNCHANGED <<locals, loose, blocks, statements, index, ignored>>
        BY <1>14 DEF UnlinkStmt, TypeOK
  <2>2. \A h \in Heights : (Stored(h) <=> Stored(h)') /\ (StoredStmt(h) <=> StoredStmt(h)')
        BY <2>1 DEF Stored, StoredStmt
  <2>3. \/ UNCHANGED looseStmt
        \/ looseStmt' = looseStmt \ {height} /\ height \in stmtFiles
        BY <1>14 DEF UnlinkStmt
  <2>4. BlockInHand' /\ BlockWritten'
        BY <2>1 DEF Inv, BlockInHand, BlockWritten
  <2>5. StatementInHand'
        BY <2>1, <2>3 DEF Inv, StatementInHand
  <2>6. StatementNeverLost'
        BY <2>1, <2>2, <2>3, HeightsAssumption DEF Inv, StatementNeverLost, StatementInHand
  <2>7. BlockNeverLost' /\ IndexLeadsToBlock'
        BY <2>1, <2>2 DEF Inv, BlockNeverLost, IndexLeadsToBlock
  <2> QED BY <2>4, <2>5, <2>6, <2>7 DEF Inv
<1>15. CASE Crash
      BY <1>15, <1>r DEF Crash
<1>16. CASE UNCHANGED vars
  <2>1. UNCHANGED <<pc, locals, disk, ignored>>
        BY <1>16 DEF vars
  <2>2. BlockInHand' /\ BlockWritten' /\ StatementInHand'
        BY <2>1 DEF Inv, BlockInHand, BlockWritten, StatementInHand, Stored, StoredStmt, disk
  <2> QED BY <2>1, <2>2, <1>0
<1> QED BY <1>1, <1>2, <1>3, <1>4, <1>5, <1>6, <1>7, <1>8, <1>9, <1>10, <1>11, <1>12,
           <1>13, <1>14, <1>15, <1>16 DEF Next, run

(* The inductive invariant holds. *)
THEOREM InvCorrect == Spec => []Inv
<1>1. TypeOK /\ Inv /\ [Next]_vars => Inv'
      BY InvStep
<1> QED BY <1>1, InvInit, TypeCorrect, PTL DEF Spec

(* No block of the chain is ever lost: whatever fails, crashes and is
   started again, but for an index entry that could not be placed and a
   file too large for its offsets. *)
THEOREM BlockSafety == Spec => []BlockNeverLost
<1>1. Inv => BlockNeverLost
      BY DEF Inv
<1> QED BY <1>1, InvCorrect, PTL

(* Nor are the statements of a block. *)
THEOREM StatementSafety == Spec => []StatementNeverLost
<1>1. Inv => StatementNeverLost
      BY DEF Inv
<1> QED BY <1>1, InvCorrect, PTL

(* An index entry leads to its own block. *)
THEOREM IndexSafety == Spec => []IndexLeadsToBlock
<1>1. Inv => IndexLeadsToBlock
      BY DEF Inv
<1> QED BY <1>1, InvCorrect, PTL
-----------------------------------------------------------------------------
(* What "completed" means. *)

(* As long as every file could be read and removed: a block that is still  *)
(* loose is in a directory to come, among the blocks to come or in hand;   *)
(* and a migration that is "completed" has left none.                      *)
Pending(h) == \/ ChunkOf(h) \in dirs \/ h \in todo
              \/ pc \in {"block", "stmt", "index", "unlink"} /\ h = height

LooseIsPending ==
    /\ pc \in {"none", "scan", "dir"} => todo = {}
    /\ ignored \cap {"read", "unlink"} = {} =>
          /\ pc \notin {"none", "scan"} => \A h \in loose : Pending(h)
          /\ status = "completed" => pc = "none" /\ loose = {}

LEMMA PendingStep ==
    TypeOK /\ LooseIsPending /\ [Next]_vars => LooseIsPending'
<1> SUFFICES ASSUME TypeOK, LooseIsPending, [Next]_vars
             PROVE  LooseIsPending'
    OBVIOUS
<1> USE DEF LooseIsPending
<1> HIDE DEF Pending
(* The goroutine returns with another status than "completed". *)
<1>r. ASSUME EndRun, status' # "completed"
      PROVE  LooseIsPending'
      BY <1>r DEF EndRun, deferredReset
<1>1. CASE StartMigration
      BY <1>1 DEF StartMigration, locals, disk, TypeOK
<1>2. CASE Cancel
      BY <1>2 DEF Cancel, locals, disk, TypeOK, Pending
<1>3. CASE Scan
  <2>1. CASE fail
        BY <1>3, <2>1, <1>r DEF fail, Return
  <2>2. CASE pc' = "dir" /\ dirs' = Chunks /\ UNCHANGED <<control, todo>>
    <3>1. \A h \in loose' : ChunkOf(h) \in dirs'
          BY <1>3, <2>2 DEF Scan, disk, TypeOK, Chunks
    <3>2. status' # "completed" \/ ignored' \cap {"read", "unlink"} # {}
          BY <1>3, <2>2 DEF Scan, control
    <3> QED BY <1>3, <2>2, <3>1, <3>2 DEF Scan, Pending
  <2> QED BY <1>3, <2>1, <2>2 DEF Scan
<1>4. CASE RunComplete
  <2>1. ignored \cap {"read", "unlink"} = {} => loose = {}
        BY <1>4 DEF RunComplete, Pending
  <2> QED BY <1>4, <2>1 DEF RunComplete, complete, Return, EndRun, deferredReset, disk
<1>5. CASE RunCancelled
  <2>1. ignored \cap {"read", "unlink"} = {} => status # "completed"
        BY <1>5 DEF RunCancelled
  <2> QED BY <1>5, <2>1 DEF RunCancelled, Return, EndRun, deferredReset, disk
<1>6. CASE EnterDirectory
  <2>1. CASE fail
        BY <1>6, <2>1, <1>r DEF fail, Return
  <2>2. CASE ~fail
    <3>1. PICK c \in dirs : /\ dirs' = dirs \ {c}
                            /\ todo' = {h \in loose : ChunkOf(h) = c}
                            /\ pc' = IF todo' = {} THEN "dir" ELSE "next"
                            /\ UNCHANGED control
          BY <1>6, <2>2 DEF EnterDirectory
    <3>2. pc = "dir" /\ todo = {} /\ UNCHANGED <<loose, ignored>>
          BY <1>6 DEF EnterDirectory, disk
    <3>3. ASSUME NEW h \in loose, Pending(h)
          PROVE  Pending(h)'
          BY <3>1, <3>2, <3>3 DEF Pending
    <3> QED BY <3>1, <3>2, <3>3 DEF control
  <2> QED BY <2>1, <2>2
<1>7. CASE DirectoryDone
      BY <1>7 DEF DirectoryDone, control, locals, disk, Pending
<1>8. CASE DirectoryCancelled
      BY <1>8, <1>r DEF DirectoryCancelled, cancelled, fail, Return
<1>9. CASE ReadBlock
  <2>1. PICK h \in todo :
           /\ todo' = todo \ {h}
           /\ \/ pc' = "block" /\ height' = h /\ ignored \subseteq ignored'
              \/ pc' = pc /\ ignored' = ignored \cup {"read"}
        BY <1>9 DEF ReadBlock
  <2>2. pc = "next" /\ UNCHANGED <<status, dirs, loose>>
        BY <1>9 DEF ReadBlock, control, disk
  <2>3. ASSUME ignored' \cap {"read", "unlink"} = {}, NEW g \in loose, Pending(g)
        PROVE  Pending(g)'
        BY <2>1, <2>2, <2>3 DEF Pending
  <2> QED BY <2>1, <2>2, <2>3
<1>10. CASE WriteBlock
  <2>1. CASE fail
        BY <1>10, <2>1, <1>r DEF fail, Return
  <2>2. CASE ~fail
    <3>1. /\ pc = "block" /\ pc' \in {"stmt", "index"} /\ ignored \subseteq ignored'
          /\ UNCHANGED <<status, dirs, todo, height, loose>>
          BY <1>10, <2>2 DEF WriteBlock, control
    <3> QED BY <3>1 DEF Pending
  <2> QED BY <2>1, <2>2
<1>11. CASE WriteStmt
  <2>1. CASE fail
        BY <1>11, <2>1, <1>r DEF fail, Return
  <2>2. CASE ~fail
    <3>1. /\ pc = "stmt" /\ pc' = "index" /\ ignored \subseteq ignored'
          /\ UNCHANGED <<status, dirs, todo, height, loose>>
          BY <1>11, <2>2 DEF WriteStmt, control
    <3> QED BY <3>1 DEF Pending
  <2> QED BY <2>1, <2>2
<1>12. CASE WriteIndex
  <2>1. CASE fail
        BY <1>12, <2>1, <1>r DEF fail, Return
  <2>2. CASE ~fail
    <3>1. /\ pc = "index" /\ pc' = "unlink" /\ ignored \subseteq ignored'
          /\ UNCHANGED <<status, dirs, todo, height, loose>>
          BY <1>12, <2>2 DEF WriteIndex, control, locals
    <3> QED BY <3>1 DEF Pending
  <2> QED BY <2>1, <2>2
<1>13. CASE Unlink
  <2>1. /\ pc = "unlink" /\ pc' = "unlinkStmt" /\ UNCHANGED <<status, dirs, todo, height>>
        /\ \/ loose' = loose \ {height} /\ UNCHANGED ignored
           \/ ignored' = ignored \cup {"unlink"}
        BY <1>13 DEF Unlink, control, locals
  <2> QED BY <2>1 DEF Pending
<1>14. CASE UnlinkStmt
      BY <1>14 DEF UnlinkStmt, control, locals, Pending
<1>15. CASE Crash
      BY <1>15, <1>r DEF Crash
<1>16. CASE UNCHANGED vars
      BY <1>16 DEF vars, control, locals, disk, Pending
<1> QED BY <1>1, <1>2, <1>3, <1>4, <1>5, <1>6, <1>7, <1>8, <1>9, <1>10, <1>11, <1>12,
           <1>13, <1>14, <1>15, <1>16 DEF Next, run

(* A migration that reports "completed" has converted every block that was
   there, whatever was cancelled, failed or crashed before: unless a file
   could not be read or removed, which the code does not report. *)
THEOREM CompletionIsTrue == Spec => []CompletedMeansMigrated
<1>1. Init => LooseIsPending
      BY DEF Init, LooseIsPending
<1>2. LooseIsPending => CompletedMeansMigrated
      BY DEF LooseIsPending, CompletedMeansMigrated
<1> QED BY <1>1, <1>2, PendingStep, TypeCorrect, PTL DEF Spec
=============================================================================
