--------------------------- MODULE WalWriterProofs ---------------------------
(***************************************************************************)
(* What holds of the WAL writer for every set of records, group size,      *)
(* segment size, mode and combination of faults.                           *)
(***************************************************************************)
EXTENDS WalWriter, WalFilesProofs

-----------------------------------------------------------------------------
(* What a power failure leaves of a segment.                               *)

LEMMA SurvivorType ==
  ASSUME NEW f \in Segment, NEW g \in Survivors(f)
  PROVE  g \in Segment
<1>1. CASE g = [start |-> f.start, cells |-> f.cells, synced |-> Len(f.cells)]
  BY <1>1 DEF Segment
<1>2. ASSUME NEW n \in f.synced..(Len(f.cells) - 1), NEW tail \in {<<>>, <<Torn>>},
             g = [start |-> f.start, cells |-> SubSeq(f.cells, 1, n) \o tail, synced |-> n + Len(tail)]
      PROVE  g \in Segment
  <2>1. n \in Nat /\ n <= Len(f.cells)
    BY DEF Segment
  <2>2. SubSeq(f.cells, 1, n) \in Seq(Cell) /\ Len(SubSeq(f.cells, 1, n)) = n
    BY <2>1 DEF Segment
  <2>3. tail \in Seq(Cell) /\ Len(tail) \in Nat
    <3>1. <<>> \in Seq(Cell) /\ Len(<<>>) = 0
      OBVIOUS
    <3>2. <<Torn>> \in Seq(Cell) /\ Len(<<Torn>>) = 1
      BY TornIsCell
    <3>. QED
      BY <3>1, <3>2
  <2>4. /\ SubSeq(f.cells, 1, n) \o tail \in Seq(Cell)
        /\ Len(SubSeq(f.cells, 1, n) \o tail) = n + Len(tail)
    BY <2>2, <2>3
  <2>. QED
    BY <1>2, <2>1, <2>3, <2>4 DEF Segment
<1>. QED
  BY <1>1, <1>2 DEF Survivors

LEMMA SurvivorFrames ==
  ASSUME NEW f \in Segment, NEW g \in Survivors(f), NEW i \in FrameIndexes(g)
  PROVE  /\ i \in FrameIndexes(f)
         /\ g.cells[i] = f.cells[i]
         /\ i <= g.synced
<1>1. CASE g = [start |-> f.start, cells |-> f.cells, synced |-> Len(f.cells)]
  BY <1>1 DEF FrameIndexes, Segment
<1>2. ASSUME NEW n \in f.synced..(Len(f.cells) - 1), NEW tail \in {<<>>, <<Torn>>},
             g = [start |-> f.start, cells |-> SubSeq(f.cells, 1, n) \o tail, synced |-> n + Len(tail)]
      PROVE  /\ i \in FrameIndexes(f)
             /\ g.cells[i] = f.cells[i]
             /\ i <= g.synced
  <2>1. n \in Nat /\ n <= Len(f.cells) /\ f.cells \in Seq(Cell) /\ Len(f.cells) \in Nat
    BY DEF Segment
  <2>2. /\ SubSeq(f.cells, 1, n) \in Seq(Cell) /\ Len(SubSeq(f.cells, 1, n)) = n
        /\ \A j \in 1..n : SubSeq(f.cells, 1, n)[j] = f.cells[j]
    BY <2>1
  <2>3. \A j \in 1..n : g.cells[j] = f.cells[j]
    <3>1. CASE tail = <<>>
      BY <1>2, <2>1, <2>2, <3>1
    <3>2. CASE tail = <<Torn>>
      BY <1>2, <2>1, <2>2, <3>2
    <3>. QED
      BY <3>1, <3>2
  <2>4. i \in 1..n
    <3>1. CASE tail = <<>>
      BY <1>2, <2>1, <2>2, <3>1 DEF FrameIndexes
    <3>2. CASE tail = <<Torn>>
      <4>1. Len(g.cells) = n + 1 /\ g.cells[n + 1] = Torn
        BY <1>2, <2>1, <2>2, <3>2
      <4>2. i \in 1..(n + 1) /\ \A j \in 1..i : g.cells[j].kind = "frame"
        BY <4>1 DEF FrameIndexes
      <4>3. i # n + 1
        BY <2>1, <4>1, <4>2 DEF Torn
      <4>. QED
        BY <2>1, <4>2, <4>3
    <3>. QED
      BY <3>1, <3>2
  <2>5. i \in 1..Len(f.cells) /\ \A j \in 1..i : j \in 1..n
    BY <2>1, <2>4
  <2>6. i \in FrameIndexes(f)
    BY <2>3, <2>5, CommonPrefix
  <2>7. Len(tail) \in Nat
    OBVIOUS
  <2>. QED
    BY <1>2, <2>1, <2>3, <2>4, <2>6, <2>7
<1>. QED
  BY <1>1, <1>2 DEF Survivors

-----------------------------------------------------------------------------
(* Type correctness.                                                       *)

LEMMA InitType == Init => TypeOK
<1>. SUFFICES ASSUME Init PROVE TypeOK
  OBVIOUS
<1>1. EmptySegment(1) \in Segment
  BY DEF EmptySegment, Segment
<1>2. IsDirectory(files)
  BY <1>1 DEF Init, IsDirectory, FirstSegmentId
<1>. QED
  BY <1>2 DEF Init, TypeOK, Position, NoCheckpoint, Phases, Replies, FirstSegmentId

(* The answer to the senders of a flush.                                   *)
LEMMA AnswerType ==
  ASSUME reply \in [Records -> Replies], NEW answer \in Replies, Answer(answer)
  PROVE  reply' \in [Records -> Replies]
BY DEF Answer

LEMMA AppendRecordType ==
  ASSUME TypeOK, NEW r \in Records, AppendRecord(r)
  PROVE  TypeOK'
<1>1. [lsn |-> nextLsn, rec |-> r] \in Buffered
  BY DEF TypeOK, Buffered
<1>2. buffered' \in Seq(Buffered) /\ Len(buffered') = Len(buffered) + 1
  BY <1>1 DEF TypeOK, AppendRecord
<1>3. /\ pc' \in Phases /\ buffered' # <<>>
      /\ written' \in 0..Len(buffered')
      /\ touched' \in SUBSET (Nat \ {0})
      /\ rollback' \in [segment : Nat \ {0}, offset : Nat]
  <2>1. buffered' # <<>> /\ Len(buffered) \in Nat
    BY <1>2 DEF TypeOK
  <2>2. CASE StartFlush
    BY <1>2, <2>1, <2>2 DEF TypeOK, StartFlush, Phases
  <2>3. CASE UNCHANGED flushing
    BY <1>2, <2>1, <2>3 DEF TypeOK, flushing
  <2>. QED
    BY <2>1, <2>2, <2>3 DEF AppendRecord
<1>4. reply' \in [Records -> Replies]
  BY DEF TypeOK, AppendRecord, Replies
<1>. QED
  BY <1>2, <1>3, <1>4 DEF TypeOK, AppendRecord, disk

LEMMA FlushStepType ==
  ASSUME TypeOK, FlushStep
  PROVE  TypeOK'
<1>1. CASE Rotate
  <2>1. NextFrame \in Buffered
    BY <1>1 DEF Rotate, NextFrame, TypeOK
  <2>2. IsDirectory(files')
    BY <1>1, <2>1, EnsureType DEF Rotate, TypeOK, Buffered
  <2>. QED
    BY <1>1, <2>2 DEF Rotate, TypeOK, flushing
<1>2. CASE WriteFrame
  <2>1. NextFrame \in Buffered
    BY <1>2 DEF WriteFrame, NextFrame, TypeOK
  <2>2. Frame(NextFrame.lsn, NextFrame.rec) \in Cell
    BY <2>1, FrameIsCell DEF Buffered
  <2>3. IsDirectory(files')
    BY <1>2, <2>2, AppendCellType DEF WriteFrame, TypeOK
  <2>. QED
    BY <1>2, <2>3 DEF WriteFrame, TypeOK, Phases
<1>3. CASE SyncNext
  <2>1. IsDirectory(files')
    BY <1>3, SyncType DEF SyncNext, TypeOK
  <2>. QED
    BY <1>3, <2>1 DEF SyncNext, TypeOK
<1>4. CASE FlushDone
  <2>1. reply' \in [Records -> Replies]
    BY <1>4, AnswerType DEF FlushDone, TypeOK, Replies
  <2>. QED
    BY <1>4, <2>1 DEF FlushDone, TypeOK, disk, Phases
<1>5. CASE UndoTruncate
  <2>1. IsDirectory(files')
    BY <1>5, TruncateType DEF UndoTruncate, TypeOK
  <2>. QED
    BY <1>5, <2>1 DEF UndoTruncate, TypeOK, Phases
<1>6. CASE UndoRemove
  <2>1. IsDirectory(files')
    BY <1>6, WithoutType DEF UndoRemove, TypeOK
  <2>2. reply' \in [Records -> Replies]
    BY <1>6, AnswerType DEF UndoRemove, TypeOK, Replies
  <2>3. buffered[1].lsn \in Nat
    <3>1. buffered \in Seq(Buffered) /\ buffered # <<>>
      BY <1>6 DEF UndoRemove, TypeOK
    <3>2. buffered[1] \in Buffered
      BY <3>1
    <3>. QED
      BY <3>2 DEF Buffered
  <2>4. nextLsn' \in Nat
    BY <1>6, <2>3 DEF UndoRemove, RolledBackLsn, TypeOK
  <2>5. buffered' \in Seq(Buffered) /\ written' \in 0..Len(buffered')
    BY <1>6 DEF UndoRemove, TypeOK
  <2>. QED
    BY <1>6, <2>1, <2>2, <2>4, <2>5 DEF UndoRemove, TypeOK, Phases
<1>. QED
  BY <1>1, <1>2, <1>3, <1>4, <1>5, <1>6 DEF FlushStep

LEMMA LoseMemoryType ==
  ASSUME TypeOK, LoseMemory
  PROVE  /\ up' \in BOOLEAN
         /\ buffered' \in Seq(Buffered)
         /\ pc' = "idle"
         /\ written' \in 0..Len(buffered')
         /\ touched' \in SUBSET (Nat \ {0})
         /\ reply' \in [Records -> Replies]
         /\ crashes' \in Nat
<1>1. reply' \in [Records -> Replies]
  BY DEF TypeOK, LoseMemory, Replies
<1>2. buffered' \in Seq(Buffered) /\ Len(buffered') = 0
  BY DEF LoseMemory
<1>3. written' \in 0..Len(buffered')
  BY <1>2 DEF LoseMemory
<1>4. touched' \in SUBSET (Nat \ {0}) /\ crashes' \in Nat
  BY DEF TypeOK, LoseMemory
<1>. QED
  BY <1>1, <1>2, <1>3, <1>4 DEF LoseMemory

LEMMA FaultType ==
  ASSUME TypeOK, Fault
  PROVE  TypeOK'
<1>1. CASE RotateFails
  BY <1>1 DEF RotateFails, TypeOK, disk, Phases
<1>2. CASE WriteFails
  <2>1. IsDirectory(files')
    BY <1>2, TornIsCell, AppendCellType DEF WriteFails, TypeOK
  <2>. QED
    BY <1>2, <2>1 DEF WriteFails, TypeOK, Phases
<1>3. CASE SyncFails
  BY <1>3 DEF SyncFails, TypeOK, disk, Phases
<1>4. CASE UndoFails
  <2>1. reply' \in [Records -> Replies]
    BY <1>4, AnswerType DEF UndoFails, TypeOK, Replies
  <2>. QED
    BY <1>4, <2>1 DEF UndoFails, TypeOK, disk, Phases
<1>5. CASE Crash
  BY <1>5, LoseMemoryType DEF Crash, TypeOK, disk, Phases
<1>6. CASE PowerLoss
  <2>1. \A s \in DOMAIN files : files'[s] \in Survivors(files[s])
    BY <1>6 DEF PowerLoss
  <2>2. DOMAIN files' = DOMAIN files /\ files' = [s \in DOMAIN files |-> files'[s]]
    BY <1>6 DEF PowerLoss
  <2>3. IsDirectory(files')
    BY <2>1, <2>2, SurvivorType DEF TypeOK, IsDirectory
  <2>. QED
    BY <1>6, <2>3, LoseMemoryType DEF PowerLoss, TypeOK, Phases
<1>. QED
  BY <1>1, <1>2, <1>3, <1>4, <1>5, <1>6 DEF Fault

LEMMA ReplayAdvanceType ==
  ASSUME TypeOK, ReplayAdvance
  PROVE  TypeOK'
<1> DEFINE from == ReplayStart(files, checkpoint)
<1>1. PICK e \in EntriesAfter(files, from) :
        /\ checkpoint' = NextPosition(e)
        /\ files' = RemoveCovered(files, NextPosition(e))
        /\ delivered' = delivered \cup {e.rec}
  BY DEF ReplayAdvance
<1>2. e \in Entries(files)
  BY <1>1 DEF EntriesAfter
<1>3. /\ e.segment \in Nat \ {0} /\ e.index \in Nat
      /\ e.lsn \in Nat /\ e.rec \in Records
  BY <1>2, EntryType DEF TypeOK
<1>4. checkpoint' \in Position
  BY <1>1, <1>3 DEF NextPosition, Position
<1>5. IsDirectory(files')
  BY <1>1, WithoutType DEF RemoveCovered, TypeOK
<1>6. delivered' \in SUBSET Records
  BY <1>1, <1>3 DEF TypeOK
<1>. QED
  BY <1>4, <1>5, <1>6 DEF ReplayAdvance, TypeOK, flushing

LEMMA RecoverType ==
  ASSUME TypeOK, Recover
  PROVE  TypeOK'
<1>1. PICK active \in SegmentCandidates, top \in UsedLsns :
        LET opened == EnsureSegment(files, active, top + 1) IN
        /\ \E n \in 0..Len(opened[active].cells) :
             /\ ValidOffset(opened[active], n)
             /\ files' = Truncate(opened, active, n)
             /\ offset' = n
        /\ segment' = active
        /\ nextLsn' = top + 1
  BY DEF Recover
<1>2. active \in Nat \ {0}
  BY DEF SegmentCandidates, TypeOK, IsDirectory, Position
<1>3. top \in Nat
  <2>1. \A e \in Entries(files) : e.lsn \in Nat
    BY EntryType DEF TypeOK
  <2>. QED
    BY <2>1 DEF UsedLsns, Lsns, TypeOK, Position
<1> DEFINE opened == EnsureSegment(files, active, top + 1)
<1>4. IsDirectory(opened) /\ active \in DOMAIN opened
  <2>1. IsDirectory(files) /\ top + 1 \in Nat
    BY <1>3 DEF TypeOK
  <2>. QED
    BY <1>2, <2>1, EnsureType
<1>5. PICK n \in 0..Len(opened[active].cells) : files' = Truncate(opened, active, n) /\ offset' = n
  BY <1>1
<1>7. n \in Nat
  OBVIOUS
<1>. HIDE DEF opened
<1>6. IsDirectory(files')
  BY <1>4, <1>5, <1>7, TruncateType
<1>. QED
  BY <1>1, <1>2, <1>3, <1>5, <1>6, <1>7 DEF Recover, TypeOK, flushing

LEMMA NextType == TypeOK /\ [Next]_vars => TypeOK'
<1>. SUFFICES ASSUME TypeOK, [Next]_vars PROVE TypeOK'
  OBVIOUS
<1>1. ASSUME NEW r \in Records, AppendRecord(r) PROVE TypeOK'
  BY <1>1, AppendRecordType
<1>2. CASE FlushTick
  BY <1>2 DEF FlushTick, StartFlush, TypeOK, disk, Phases
<1>3. CASE FlushStep
  BY <1>3, FlushStepType
<1>4. CASE Fault
  BY <1>4, FaultType
<1>5. CASE ReplayAdvance
  BY <1>5, ReplayAdvanceType
<1>6. CASE Recover
  BY <1>6, RecoverType
<1>7. CASE UNCHANGED vars
  BY <1>7 DEF vars, TypeOK
<1>. QED
  BY <1>1, <1>2, <1>3, <1>4, <1>5, <1>6, <1>7 DEF Next, WriterNext

(* The writer's state, the files and the checkpoint keep their types and a *)
(* flush always has a batch, whatever fails and whenever.                  *)
THEOREM TypeCorrect == Spec => []TypeOK
<1>. QED
  BY InitType, NextType, PTL DEF Spec

-----------------------------------------------------------------------------
(* The inductive invariant, in the default mode.                           *)

LEMMA FramesIntro ==
  ASSUME TypeOK',
         \A s \in DOMAIN files' : \A i \in FrameIndexes(files'[s]) : \A q \in Records :
           q = files'[s].cells[i].rec => FrameInv(s, i, q)'
  PROVE  FramesInv'
<1>1. \A s \in DOMAIN files' : \A i \in FrameIndexes(files'[s]) : files'[s].cells[i].rec \in Records
  BY FrameFacts DEF TypeOK
<1>. QED
  BY <1>1 DEF FramesInv, FrameInv

(* The files afterwards hold no frame that was not there before, and what  *)
(* is said of a frame stays true.                                          *)
LEMMA FramesInherit ==
  ASSUME TypeOK, TypeOK', FramesInv,
         FramesFrom(files', files),
         \A s \in DOMAIN files \cap DOMAIN files' :
           \A i \in FrameIndexes(files[s]) \cap FrameIndexes(files'[s]) : \A q \in Records :
             files[s].cells[i].rec = q /\ FrameInv(s, i, q) => FrameInv(s, i, q)'
  PROVE  FramesInv'
<1>. SUFFICES ASSUME NEW s \in DOMAIN files', NEW i \in FrameIndexes(files'[s]),
                     NEW q \in Records, q = files'[s].cells[i].rec
              PROVE  FrameInv(s, i, q)'
  BY FramesIntro
<1>1. s \in DOMAIN files /\ i \in FrameIndexes(files[s]) /\ files[s].cells[i].rec = q
  BY DEF FramesFrom
<1>2. FrameInv(s, i, q)
  BY <1>1 DEF FramesInv
<1>. QED
  BY <1>1, <1>2

LEMMA InitAck == Init => AckInv
<1>. SUFFICES ASSUME Init PROVE AckInv
  OBVIOUS
<1>1. FrameIndexes(EmptySegment(1)) = {}
  BY DEF FrameIndexes, EmptySegment
<1>2. FramesInv
  BY <1>1 DEF Init, FramesInv
<1>. QED
  BY <1>2 DEF Init, AckInv, DownInv, PendingInv

(* Every sender that waits has its record in the buffer, so the answer of  *)
(* a flush reaches them all.                                               *)
LEMMA AnswerAll ==
  ASSUME TypeOK, PendingInv, NEW answer \in {"ok", "err"}, Answer(answer), buffered' = <<>>
  PROVE  /\ \A r \in Records : reply'[r] = IF reply[r] = "pending" THEN answer ELSE reply[r]
         /\ PendingInv'
<1>1. \A r \in Records : reply'[r] = IF reply[r] = "pending" THEN answer ELSE reply[r]
  BY DEF Answer, PendingInv
<1>2. Len(buffered') = 0
  OBVIOUS
<1>. QED
  BY <1>1, <1>2 DEF PendingInv

LEMMA AppendRecordAck ==
  ASSUME TypeOK, AckInv, ~NoSync, NEW r \in Records, AppendRecord(r)
  PROVE  AckInv'
<1> DEFINE new == [lsn |-> nextLsn, rec |-> r]
<1>1. /\ up /\ pc = "idle" /\ reply[r] = "none"
      /\ buffered' = Append(buffered, new)
      /\ reply' = [reply EXCEPT ![r] = "pending"]
      /\ StartFlush \/ UNCHANGED flushing
      /\ UNCHANGED <<files, up, segment, offset>>
  BY DEF AppendRecord, disk
<1>2. new \in Buffered /\ new.rec = r
  BY DEF TypeOK, Buffered
<1>. HIDE DEF new
<1>3. /\ Len(buffered) \in Nat
      /\ Len(buffered') = Len(buffered) + 1
      /\ \A k \in 1..Len(buffered) : buffered'[k] = buffered[k]
      /\ buffered'[Len(buffered) + 1] = new
  BY <1>1, <1>2 DEF TypeOK
<1>4. PendingInv'
  <2>. SUFFICES ASSUME NEW q \in Records
                PROVE  reply'[q] = "pending" <=> \E k \in 1..Len(buffered') : buffered'[k].rec = q
    BY DEF PendingInv
  <2>1. CASE q = r
    <3>1. Len(buffered) + 1 \in 1..Len(buffered')
      BY <1>3
    <3>. QED
      BY <1>1, <1>2, <1>3, <2>1, <3>1 DEF TypeOK
  <2>2. CASE q # r
    <3>1. reply'[q] = reply[q]
      BY <1>1, <2>2 DEF TypeOK
    <3>2. reply[q] = "pending" <=> \E k \in 1..Len(buffered) : buffered[k].rec = q
      BY DEF AckInv, PendingInv
    <3>3. \A k \in 1..Len(buffered') : k \in 1..Len(buffered) \/ k = Len(buffered) + 1
      BY <1>3
    <3>4. \A k \in 1..Len(buffered) : k \in 1..Len(buffered')
      BY <1>3
    <3>. QED
      BY <1>2, <1>3, <2>2, <3>1, <3>2, <3>3, <3>4
  <2>. QED
    BY <2>1, <2>2
<1>5. FramesInv'
  <2>1. FramesFrom(files', files)
    BY <1>1 DEF FramesFrom
  <2>2. ASSUME NEW s \in DOMAIN files, NEW i \in FrameIndexes(files[s]), NEW q \in Records,
               FrameInv(s, i, q)
        PROVE  FrameInv(s, i, q)'
    <3>1. q # r
      BY <1>1, <2>2 DEF FrameInv
    <3>2. reply'[q] = reply[q]
      BY <1>1, <3>1 DEF TypeOK
    <3>. QED
      BY <1>1, <2>2, <3>2 DEF FrameInv, StartFlush, flushing, NotAfter
  <2>3. TypeOK'
    BY AppendRecordType
  <2>. QED
    BY <2>1, <2>2, <2>3, FramesInherit DEF AckInv
<1>6. DownInv'
  BY <1>1 DEF DownInv
<1>. QED
  BY <1>4, <1>5, <1>6 DEF AckInv

LEMMA FlushTickAck ==
  ASSUME TypeOK, AckInv, ~NoSync, FlushTick
  PROVE  AckInv'
<1>1. /\ up /\ pc = "idle" /\ StartFlush
      /\ UNCHANGED <<files, up, segment, offset, buffered, reply>>
  BY DEF FlushTick, disk
<1>2. FramesInv'
  <2>1. FramesFrom(files', files)
    BY <1>1 DEF FramesFrom
  <2>2. ASSUME NEW s \in DOMAIN files, NEW i \in FrameIndexes(files[s]), NEW q \in Records,
               FrameInv(s, i, q)
        PROVE  FrameInv(s, i, q)'
    BY <1>1, <2>2 DEF FrameInv, StartFlush, NotAfter
  <2>3. TypeOK'
    BY NextType DEF Next, WriterNext
  <2>. QED
    BY <2>1, <2>2, <2>3, FramesInherit DEF AckInv
<1>. QED
  BY <1>1, <1>2 DEF AckInv, DownInv, PendingInv

LEMMA RotateAck ==
  ASSUME TypeOK, AckInv, ~NoSync, Rotate
  PROVE  AckInv'
<1>1. /\ segment' = segment + 1 /\ offset' = 0
      /\ files' = EnsureSegment(files, segment + 1, NextFrame.lsn)
      /\ UNCHANGED <<up, buffered, pc, touched, rollback, reply>>
  BY DEF Rotate, flushing
<1>2. /\ FramesFrom(files', files)
      /\ \A s \in DOMAIN files : FrameIndexes(files[s]) # {} => files'[s] = files[s]
  BY <1>1, EnsureFrames DEF TypeOK
<1>3. FramesInv'
  <2>2. ASSUME NEW s \in DOMAIN files, NEW i \in FrameIndexes(files[s]), NEW q \in Records,
               FrameInv(s, i, q)
        PROVE  FrameInv(s, i, q)'
    <3>1. files'[s] = files[s]
      BY <1>2
    <3>2. s \in Nat /\ segment \in Nat
      BY FrameFacts DEF TypeOK
    <3>. QED
      BY <1>1, <2>2, <3>1, <3>2 DEF FrameInv, NotAfter
  <2>3. TypeOK'
    BY FlushStepType DEF FlushStep
  <2>. QED
    BY <1>2, <2>2, <2>3, FramesInherit DEF AckInv
<1>. QED
  BY <1>1, <1>3 DEF AckInv, DownInv, PendingInv

LEMMA WriteFrameAck ==
  ASSUME TypeOK, AckInv, ~NoSync, WriteFrame
  PROVE  AckInv'
<1> DEFINE rec == NextFrame.rec
           cell == Frame(NextFrame.lsn, rec)
           last == Len(files[segment].cells) + 1
<1>1. /\ pc = "write" /\ segment \in DOMAIN files
      /\ files' = AppendCell(files, segment, cell)
      /\ offset' = offset + 1
      /\ touched' = touched \cup {segment}
      /\ pc' \in {"write", "sync"}
      /\ UNCHANGED <<up, segment, buffered, rollback, reply>>
  BY DEF WriteFrame
<1>2. NextFrame \in Buffered /\ reply[rec] = "pending"
  <2>1. written + 1 \in 1..Len(buffered)
    BY DEF WriteFrame, TypeOK
  <2>2. NextFrame \in Buffered
    BY <2>1 DEF NextFrame, TypeOK
  <2>3. rec \in Records
    BY <2>2 DEF Buffered
  <2>. QED
    BY <2>1, <2>2, <2>3 DEF AckInv, PendingInv, NextFrame
<1>3. cell \in Cell /\ cell.rec = rec /\ rec \in Records
  BY <1>2, FrameIsCell DEF Buffered, Frame
<1>. HIDE DEF cell, rec
<1>4. /\ DOMAIN files' = DOMAIN files
      /\ \A s \in DOMAIN files : files'[s].synced = files[s].synced
      /\ \A s \in DOMAIN files : s # segment => files'[s] = files[s]
      /\ \A s \in DOMAIN files : \A i \in FrameIndexes(files[s]) : files'[s].cells[i] = files[s].cells[i]
      /\ \A i \in FrameIndexes(files'[segment]) :
           \/ i \in FrameIndexes(files[segment])
           \/ /\ i = last /\ files'[segment].cells[i] = cell
              /\ last # 1 => last - 1 \in FrameIndexes(files[segment])
  BY <1>1, <1>3, AppendFrames DEF TypeOK
<1>5. segment \in Nat /\ offset \in Nat /\ last \in Nat
  BY <1>1 DEF TypeOK, IsDirectory, Segment
<1>6. up
  BY <1>1 DEF AckInv, DownInv
<1>7. ASSUME NEW i \in FrameIndexes(files'[segment]), i \notin FrameIndexes(files[segment])
      PROVE  i = last /\ i <= offset + 1 /\ files'[segment].cells[i].rec = rec
  <2>1. /\ i = last /\ files'[segment].cells[i] = cell
        /\ last # 1 => last - 1 \in FrameIndexes(files[segment])
    BY <1>4, <1>7
  <2>2. CASE last - 1 \in FrameIndexes(files[segment])
    <3>1. FrameInv(segment, last - 1, files[segment].cells[last - 1].rec)
      BY <1>1, <2>2 DEF AckInv, FramesInv
    <3>2. last - 1 <= offset
      BY <1>5, <1>6, <3>1 DEF FrameInv, NotAfter
    <3>. QED
      BY <1>3, <1>5, <2>1, <3>2
  <2>3. CASE last = 1
    BY <1>3, <1>5, <2>1, <2>3
  <2>. QED
    BY <2>1, <2>2, <2>3
<1>8. FramesInv'
  <2>. SUFFICES ASSUME NEW s \in DOMAIN files', NEW i \in FrameIndexes(files'[s]),
                       NEW q \in Records, q = files'[s].cells[i].rec
                PROVE  FrameInv(s, i, q)'
    <3>1. TypeOK'
      BY FlushStepType DEF FlushStep
    <3>. QED
      BY <3>1, FramesIntro
  <2>1. s \in Nat /\ s \in DOMAIN files /\ i \in Nat
    BY <1>4 DEF TypeOK, IsDirectory, FrameIndexes
  <2>2. CASE i \in FrameIndexes(files[s])
    <3>1. FrameInv(s, i, q)
      BY <1>4, <2>1, <2>2 DEF AckInv, FramesInv
    <3>. QED
      BY <1>1, <1>4, <1>5, <2>1, <3>1 DEF FrameInv, NotAfter
  <2>3. CASE i \notin FrameIndexes(files[s])
    <3>1. s = segment
      BY <1>4, <2>1, <2>3
    <3>2. q = rec /\ i <= offset + 1
      BY <1>7, <2>3, <3>1
    <3>. QED
      BY <1>1, <1>2, <2>1, <3>1, <3>2 DEF FrameInv, NotAfter
  <2>. QED
    BY <2>2, <2>3
<1>. QED
  BY <1>1, <1>6, <1>8 DEF AckInv, DownInv, PendingInv

LEMMA SyncNextAck ==
  ASSUME TypeOK, AckInv, ~NoSync, SyncNext
  PROVE  AckInv'
<1>1. PICK t \in touched :
        /\ t \in DOMAIN files
        /\ files' = SyncSegment(files, t)
        /\ touched' = touched \ {t}
  BY DEF SyncNext
<1>2. UNCHANGED <<up, segment, offset, buffered, pc, rollback, reply>>
  BY DEF SyncNext
<1>3. /\ DOMAIN files' = DOMAIN files
      /\ \A s \in DOMAIN files : /\ FrameIndexes(files'[s]) = FrameIndexes(files[s])
                                 /\ files'[s].cells = files[s].cells
                                 /\ s # t => files'[s] = files[s]
      /\ files'[t].synced = Len(files[t].cells)
  BY <1>1, SyncFrames DEF TypeOK
<1>4. FramesInv'
  <2>1. FramesFrom(files', files)
    BY <1>3 DEF FramesFrom
  <2>2. ASSUME NEW s \in DOMAIN files, NEW i \in FrameIndexes(files[s]), NEW q \in Records,
               FrameInv(s, i, q)
        PROVE  FrameInv(s, i, q)'
    <3>1. CASE s = t
      <4>1. i <= files'[s].synced
        BY <1>3, <3>1 DEF FrameIndexes, TypeOK, IsDirectory, Segment
      <4>. QED
        BY <1>2, <2>2, <4>1 DEF FrameInv, NotAfter
    <3>2. CASE s # t
      BY <1>1, <1>2, <1>3, <2>2, <3>2 DEF FrameInv, NotAfter
    <3>. QED
      BY <3>1, <3>2
  <2>3. TypeOK'
    BY FlushStepType DEF FlushStep
  <2>. QED
    BY <2>1, <2>2, <2>3, FramesInherit DEF AckInv
<1>. QED
  BY <1>2, <1>4 DEF AckInv, DownInv, PendingInv

LEMMA FlushDoneAck ==
  ASSUME TypeOK, AckInv, ~NoSync, FlushDone
  PROVE  AckInv'
<1>1. /\ pc = "sync" /\ touched = {} /\ pc' = "idle" /\ buffered' = <<>> /\ Answer("ok")
      /\ UNCHANGED <<files, up, segment, offset, rollback>>
  BY DEF FlushDone, disk
<1>2. /\ \A r \in Records : reply'[r] = IF reply[r] = "pending" THEN "ok" ELSE reply[r]
      /\ PendingInv'
  BY <1>1, AnswerAll DEF AckInv
<1>3. FramesInv'
  <2>1. FramesFrom(files', files)
    BY <1>1 DEF FramesFrom
  <2>2. ASSUME NEW s \in DOMAIN files, NEW i \in FrameIndexes(files[s]), NEW q \in Records,
               FrameInv(s, i, q)
        PROVE  FrameInv(s, i, q)'
    BY <1>1, <1>2, <2>2 DEF FrameInv, NotAfter
  <2>3. TypeOK'
    BY FlushStepType DEF FlushStep
  <2>. QED
    BY <2>1, <2>2, <2>3, FramesInherit DEF AckInv
<1>. QED
  BY <1>1, <1>2, <1>3 DEF AckInv, DownInv

LEMMA UndoTruncateAck ==
  ASSUME TypeOK, AckInv, ~NoSync, UndoTruncate
  PROVE  AckInv'
<1> DEFINE t == rollback.segment
<1>1. /\ pc = "truncate" /\ pc' = "remove" /\ t \in DOMAIN files
      /\ files' = Truncate(files, t, rollback.offset)
      /\ UNCHANGED <<up, segment, offset, buffered, touched, rollback, reply>>
  BY DEF UndoTruncate
<1>2. /\ FramesFrom(files', files)
      /\ \A i \in FrameIndexes(files'[t]) : i <= rollback.offset
      /\ files'[t].synced = rollback.offset
      /\ \A s \in DOMAIN files : s # t => files'[s] = files[s]
  BY <1>1, TruncateFrames DEF TypeOK
<1>3. FramesInv'
  <2>2. ASSUME NEW s \in DOMAIN files, NEW i \in FrameIndexes(files'[s]), NEW q \in Records,
               FrameInv(s, i, q)
        PROVE  FrameInv(s, i, q)'
    BY <1>1, <1>2, <2>2 DEF FrameInv, NotAfter
  <2>3. TypeOK'
    BY FlushStepType DEF FlushStep
  <2>. QED
    BY <1>2, <2>2, <2>3, FramesInherit DEF AckInv
<1>. QED
  BY <1>1, <1>3 DEF AckInv, DownInv, PendingInv

LEMMA UndoRemoveAck ==
  ASSUME TypeOK, AckInv, ~NoSync, UndoRemove
  PROVE  AckInv'
<1> DEFINE gone == (rollback.segment + 1)..segment
<1>1. /\ pc = "remove" /\ pc' = "idle" /\ buffered' = <<>> /\ Answer("err")
      /\ files' = WithoutSegments(files, gone)
      /\ segment' = rollback.segment /\ offset' = rollback.offset
      /\ UNCHANGED <<up, rollback>>
  BY DEF UndoRemove, HasWaiters
<1>2. /\ \A r \in Records : reply'[r] = IF reply[r] = "pending" THEN "err" ELSE reply[r]
      /\ PendingInv'
  BY <1>1, AnswerAll DEF AckInv
<1>3. /\ FramesFrom(files', files)
      /\ DOMAIN files' = DOMAIN files \ gone
      /\ \A s \in DOMAIN files \ gone : files'[s] = files[s]
  BY <1>1, WithoutFrames
<1>4. up
  BY <1>1 DEF AckInv, DownInv
<1>5. FramesInv'
  <2>2. ASSUME NEW s \in DOMAIN files \ gone, NEW i \in FrameIndexes(files[s]), NEW q \in Records,
               FrameInv(s, i, q)
        PROVE  FrameInv(s, i, q)'
    <3>1. s \in Nat /\ segment \in Nat /\ rollback.segment \in Nat
      BY FrameFacts DEF TypeOK
    <3>2. s <= segment
      BY <1>4, <2>2, <3>1 DEF FrameInv, NotAfter
    <3>3. s <= rollback.segment
      BY <3>1, <3>2
    <3>4. NotAfter(s, i, rollback.segment, rollback.offset)
      BY <1>1, <2>2, <3>1, <3>3 DEF FrameInv, NotAfter
    <3>. QED
      BY <1>1, <1>2, <1>3, <2>2, <3>4 DEF FrameInv, NotAfter
  <2>3. TypeOK'
    BY FlushStepType DEF FlushStep
  <2>. QED
    BY <1>3, <2>2, <2>3, FramesInherit DEF AckInv
<1>. QED
  BY <1>1, <1>2, <1>4, <1>5 DEF AckInv, DownInv

LEMMA ForwardFailsAck ==
  ASSUME TypeOK, AckInv, ~NoSync, RotateFails \/ WriteFails \/ SyncFails
  PROVE  AckInv'
<1>1. /\ pc \in {"write", "sync"} /\ pc' = "truncate"
      /\ UNCHANGED <<up, buffered, touched, rollback, reply>>
  BY DEF RotateFails, WriteFails, SyncFails, disk
<1>2. /\ segment \in Nat /\ offset \in Nat
      /\ \/ segment' = segment /\ offset' = offset
         \/ segment' = segment + 1 /\ offset' = 0
  BY DEF RotateFails, WriteFails, SyncFails, TypeOK
<1>3. CASE UNCHANGED files
  <2>1. FramesFrom(files', files)
    BY <1>3 DEF FramesFrom
  <2>2. ASSUME NEW s \in DOMAIN files, NEW i \in FrameIndexes(files[s]), NEW q \in Records,
               FrameInv(s, i, q)
        PROVE  FrameInv(s, i, q)'
    <3>1. s \in Nat
      BY FrameFacts DEF TypeOK
    <3>. QED
      BY <1>1, <1>2, <1>3, <2>2, <3>1 DEF FrameInv, NotAfter
  <2>3. TypeOK'
    BY FaultType DEF Fault
  <2>4. FramesInv'
    BY <2>1, <2>2, <2>3, FramesInherit DEF AckInv
  <2>. QED
    BY <1>1, <2>4 DEF AckInv, DownInv, PendingInv
<1>4. CASE /\ segment \in DOMAIN files
           /\ files' = AppendCell(files, segment, Torn)
           /\ UNCHANGED <<segment, offset>>
  <2>1. Torn \in Cell /\ Torn.kind # "frame"
    BY TornIsCell DEF Torn
  <2>2. /\ DOMAIN files' = DOMAIN files
        /\ \A s \in DOMAIN files : files'[s].synced = files[s].synced
        /\ \A s \in DOMAIN files : s # segment => files'[s] = files[s]
        /\ \A s \in DOMAIN files : \A i \in FrameIndexes(files[s]) : files'[s].cells[i] = files[s].cells[i]
        /\ \A i \in FrameIndexes(files'[segment]) : i \in FrameIndexes(files[segment])
    BY <1>4, <2>1, AppendFrames DEF TypeOK
  <2>3. FramesFrom(files', files)
    BY <2>2 DEF FramesFrom
  <2>4. ASSUME NEW s \in DOMAIN files, NEW i \in FrameIndexes(files[s]), NEW q \in Records,
               FrameInv(s, i, q)
        PROVE  FrameInv(s, i, q)'
    BY <1>1, <1>4, <2>2, <2>4 DEF FrameInv, NotAfter
  <2>5. TypeOK'
    BY FaultType DEF Fault
  <2>6. FramesInv'
    BY <2>3, <2>4, <2>5, FramesInherit DEF AckInv
  <2>. QED
    BY <1>1, <2>6 DEF AckInv, DownInv, PendingInv
<1>. QED
  BY <1>3, <1>4 DEF RotateFails, WriteFails, SyncFails, disk

LEMMA UndoFailsAck ==
  ASSUME TypeOK, AckInv, ~NoSync, UndoFails
  PROVE  AckInv'
<1>1. /\ pc # "idle" /\ pc' = "idle" /\ buffered' = <<>> /\ Answer("err")
      /\ UNCHANGED <<files, up, segment, offset, rollback>>
  BY DEF UndoFails, disk
<1>2. /\ \A r \in Records : reply'[r] = IF reply[r] = "pending" THEN "err" ELSE reply[r]
      /\ PendingInv'
  BY <1>1, AnswerAll DEF AckInv
<1>3. FramesInv'
  <2>1. FramesFrom(files', files)
    BY <1>1 DEF FramesFrom
  <2>2. ASSUME NEW s \in DOMAIN files, NEW i \in FrameIndexes(files[s]), NEW q \in Records,
               FrameInv(s, i, q)
        PROVE  FrameInv(s, i, q)'
    BY <1>1, <1>2, <2>2 DEF FrameInv, NotAfter
  <2>3. TypeOK'
    BY FaultType DEF Fault
  <2>. QED
    BY <2>1, <2>2, <2>3, FramesInherit DEF AckInv
<1>. QED
  BY <1>1, <1>2, <1>3 DEF AckInv, DownInv

(* A crash closes the channels of the senders that wait; what a scan finds *)
(* afterwards counts as synced no later than before.                       *)
LEMMA CrashAck ==
  ASSUME TypeOK, AckInv, ~NoSync, Crash \/ PowerLoss
  PROVE  AckInv'
<1>1. LoseMemory
  BY DEF Crash, PowerLoss
<1>2. /\ ~up' /\ pc' = "idle" /\ Len(buffered') = 0
      /\ \A r \in Records : reply'[r] = IF reply[r] = "pending" THEN "lost" ELSE reply[r]
  BY <1>1 DEF LoseMemory, TypeOK
<1>3. /\ DOMAIN files' = DOMAIN files
      /\ \A s \in DOMAIN files : \A i \in FrameIndexes(files'[s]) :
           /\ i \in FrameIndexes(files[s])
           /\ files'[s].cells[i] = files[s].cells[i]
           /\ i <= files[s].synced => i <= files'[s].synced
  <2>1. CASE Crash
    BY <2>1 DEF Crash, disk
  <2>2. CASE PowerLoss
    <3>1. DOMAIN files' = DOMAIN files /\ \A s \in DOMAIN files : files'[s] \in Survivors(files[s])
      BY <2>2 DEF PowerLoss
    <3>2. \A s \in DOMAIN files : files[s] \in Segment
      BY DEF TypeOK, IsDirectory
    <3>. QED
      BY <3>1, <3>2, SurvivorFrames
  <2>. QED
    BY <2>1, <2>2
<1>4. FramesFrom(files', files)
  BY <1>3 DEF FramesFrom
<1>5. FramesInv'
  <2>2. ASSUME NEW s \in DOMAIN files, NEW i \in FrameIndexes(files'[s]), NEW q \in Records,
               FrameInv(s, i, q)
        PROVE  FrameInv(s, i, q)'
    BY <1>2, <1>3, <2>2 DEF FrameInv, NotAfter
  <2>3. TypeOK'
    BY FaultType DEF Fault
  <2>. QED
    BY <1>4, <2>2, <2>3, FramesInherit DEF AckInv
<1>. QED
  BY <1>2, <1>5 DEF AckInv, DownInv, PendingInv

LEMMA ReplayAdvanceAck ==
  ASSUME TypeOK, AckInv, ~NoSync, ReplayAdvance
  PROVE  AckInv'
<1>1. PICK gone : files' = WithoutSegments(files, gone)
  BY DEF ReplayAdvance, RemoveCovered
<1>2. UNCHANGED <<up, segment, offset, buffered, pc, touched, rollback, reply>>
  BY DEF ReplayAdvance, flushing
<1>3. /\ FramesFrom(files', files)
      /\ DOMAIN files' = DOMAIN files \ gone
      /\ \A s \in DOMAIN files \ gone : files'[s] = files[s]
  BY <1>1, WithoutFrames
<1>4. FramesInv'
  <2>2. ASSUME NEW s \in DOMAIN files \ gone, NEW i \in FrameIndexes(files[s]), NEW q \in Records,
               FrameInv(s, i, q)
        PROVE  FrameInv(s, i, q)'
    BY <1>2, <1>3, <2>2 DEF FrameInv, NotAfter
  <2>3. TypeOK'
    BY ReplayAdvanceType
  <2>. QED
    BY <1>3, <2>2, <2>3, FramesInherit DEF AckInv
<1>. QED
  BY <1>2, <1>4 DEF AckInv, DownInv, PendingInv

(* Recovery opens the last segment and cuts it where its frames end, which *)
(* it also makes durable.                                                  *)
LEMMA RecoverFacts ==
  ASSUME TypeOK, Recover
  PROVE  \E active \in Nat \ {0}, start \in Nat, n \in Nat :
           LET opened == EnsureSegment(files, active, start) IN
           /\ \A s \in DOMAIN files : s <= active
           /\ IsDirectory(opened) /\ active \in DOMAIN opened
           /\ FrameIndexes(opened[active]) = 1..n
           /\ files' = Truncate(opened, active, n)
           /\ segment' = active /\ offset' = n
<1>1. PICK active \in SegmentCandidates, top \in UsedLsns :
        LET opened == EnsureSegment(files, active, top + 1) IN
        /\ \A s \in SegmentCandidates : s <= active
        /\ \E n \in 0..Len(opened[active].cells) :
             /\ ValidOffset(opened[active], n)
             /\ files' = Truncate(opened, active, n)
             /\ offset' = n
        /\ segment' = active
  BY DEF Recover
<1>2. active \in Nat \ {0}
  BY DEF SegmentCandidates, TypeOK, IsDirectory, Position
<1>3. top \in Nat
  <2>1. \A e \in Entries(files) : e.lsn \in Nat
    BY EntryType DEF TypeOK
  <2>. QED
    BY <2>1 DEF UsedLsns, Lsns, TypeOK, Position
<1> DEFINE opened == EnsureSegment(files, active, top + 1)
<1>4. IsDirectory(opened) /\ active \in DOMAIN opened
  <2>1. IsDirectory(files) /\ top + 1 \in Nat
    BY <1>3 DEF TypeOK
  <2>. QED
    BY <1>2, <2>1, EnsureType
<1>5. PICK n \in 0..Len(opened[active].cells) :
        /\ FrameIndexes(opened[active]) = 1..n
        /\ files' = Truncate(opened, active, n)
        /\ offset' = n
  BY <1>1 DEF ValidOffset
<1>6. n \in Nat /\ top + 1 \in Nat
  BY <1>3
<1>7. \A s \in DOMAIN files : s <= active
  BY <1>1 DEF SegmentCandidates
<1>. QED
  BY <1>1, <1>2, <1>4, <1>5, <1>6, <1>7

LEMMA RecoverAck ==
  ASSUME TypeOK, AckInv, ~NoSync, Recover
  PROVE  AckInv'
<1>1. PICK active \in Nat \ {0}, start \in Nat, n \in Nat :
        LET opened == EnsureSegment(files, active, start) IN
        /\ \A s \in DOMAIN files : s <= active
        /\ IsDirectory(opened) /\ active \in DOMAIN opened
        /\ FrameIndexes(opened[active]) = 1..n
        /\ files' = Truncate(opened, active, n)
        /\ segment' = active /\ offset' = n
  BY RecoverFacts
<1> DEFINE opened == EnsureSegment(files, active, start)
<1>2. /\ FramesFrom(opened, files)
      /\ \A s \in DOMAIN files : s \in DOMAIN opened
      /\ \A s \in DOMAIN files : FrameIndexes(files[s]) # {} => opened[s] = files[s]
  BY EnsureFrames DEF TypeOK
<1>3. IsDirectory(opened) /\ active \in DOMAIN opened /\ files' = Truncate(opened, active, n)
  BY <1>1
<1>. HIDE DEF opened
<1>4. /\ FramesFrom(files', opened)
      /\ DOMAIN files' = DOMAIN opened
      /\ \A i \in FrameIndexes(files'[active]) : i <= n
      /\ files'[active].synced = n
      /\ \A s \in DOMAIN opened : s # active => files'[s] = opened[s]
  BY <1>3, TruncateFrames
<1>5. FramesFrom(files', files)
  BY <1>2, <1>4 DEF FramesFrom
<1>6. pc = "idle" /\ UNCHANGED <<buffered, pc, touched, rollback, reply>>
  BY DEF Recover, AckInv, DownInv, flushing
<1>7. FramesInv'
  <2>2. ASSUME NEW s \in DOMAIN files \cap DOMAIN files',
               NEW i \in FrameIndexes(files[s]) \cap FrameIndexes(files'[s]), NEW q \in Records,
               FrameInv(s, i, q)
        PROVE  FrameInv(s, i, q)'
    <3>1. s \in Nat /\ s <= active
      BY <1>1, FrameFacts DEF TypeOK
    <3>2. CASE s = active
      BY <1>1, <1>4, <1>6, <2>2, <3>2 DEF FrameInv, NotAfter
    <3>3. CASE s # active
      <4>1. files'[s] = files[s]
        BY <1>2, <1>4, <3>3
      <4>. QED
        BY <1>1, <1>6, <2>2, <3>1, <3>3, <4>1 DEF FrameInv, NotAfter
    <3>. QED
      BY <3>2, <3>3
  <2>3. TypeOK'
    BY RecoverType
  <2>. QED
    BY <1>5, <2>2, <2>3, FramesInherit DEF AckInv
<1>. QED
  BY <1>6, <1>7 DEF AckInv, DownInv, PendingInv

LEMMA NextAck == TypeOK /\ AckInv /\ [Next]_vars => AckInv'
<1>. SUFFICES ASSUME TypeOK, AckInv, [Next]_vars, ~NoSync PROVE AckInv'
  BY DEF AckInv
<1>1. ASSUME NEW r \in Records, AppendRecord(r) PROVE AckInv'
  BY <1>1, AppendRecordAck
<1>2. CASE FlushTick
  BY <1>2, FlushTickAck
<1>3. CASE FlushStep
  BY <1>3, RotateAck, WriteFrameAck, SyncNextAck, FlushDoneAck, UndoTruncateAck, UndoRemoveAck
     DEF FlushStep
<1>4. CASE Fault
  BY <1>4, ForwardFailsAck, UndoFailsAck, CrashAck DEF Fault
<1>5. CASE ReplayAdvance
  BY <1>5, ReplayAdvanceAck
<1>6. CASE Recover
  BY <1>6, RecoverAck
<1>7. CASE UNCHANGED vars
  BY <1>7 DEF vars, AckInv, DownInv, PendingInv, FramesInv, FrameInv
<1>. QED
  BY <1>1, <1>2, <1>3, <1>4, <1>5, <1>6, <1>7 DEF Next, WriterNext

(* The invariant that carries the durability of acknowledged frames holds  *)
(* under every fault, the failure of a rollback included.                  *)
THEOREM AckInvariant == Spec => []AckInv
<1>1. Init => TypeOK /\ AckInv
  BY InitType, InitAck
<1>2. TypeOK /\ AckInv /\ [Next]_vars => (TypeOK /\ AckInv)'
  BY NextType, NextAck
<1>. QED
  BY <1>1, <1>2, PTL DEF Spec

-----------------------------------------------------------------------------
(* Acknowledged frames stay.                                               *)

(* What is left of a file when it is cut no shorter than a frame's end.    *)
LEMMA TruncateKeeps ==
  ASSUME NEW fs, IsDirectory(fs), NEW t \in DOMAIN fs, NEW n \in Nat,
         NEW i \in FrameIndexes(fs[t]), i <= n
  PROVE  /\ i \in FrameIndexes(Truncate(fs, t, n)[t])
         /\ Truncate(fs, t, n)[t].cells[i] = fs[t].cells[i]
<1> DEFINE cut == SetLen(fs[t].cells, n)
<1>1. fs[t].cells \in Seq(Cell) /\ Len(fs[t].cells) \in Nat
  BY DEF IsDirectory, Segment
<1>2. Len(cut) = n /\ \A j \in 1..n : cut[j] = IF j <= Len(fs[t].cells) THEN fs[t].cells[j] ELSE Zero
  BY <1>1, SetLenType, SetLenCells
<1>3. Truncate(fs, t, n)[t].cells = cut
  BY DEF Truncate, IsDirectory
<1>. HIDE DEF cut
<1>4. i \in 1..Len(fs[t].cells) /\ \A j \in 1..i : fs[t].cells[j].kind = "frame"
  BY DEF FrameIndexes
<1>5. \A j \in 1..i : j \in 1..n /\ j <= Len(fs[t].cells)
  BY <1>1, <1>4
<1>6. \A j \in 1..i : cut[j] = fs[t].cells[j]
  BY <1>2, <1>5
<1>7. i \in 1..n /\ i \in 1..i
  BY <1>4
<1>. QED
  BY <1>2, <1>3, <1>4, <1>6, <1>7 DEF FrameIndexes

(* A power failure takes no frame that was synced.                         *)
LEMMA SurvivorKeeps ==
  ASSUME NEW f \in Segment, NEW g \in Survivors(f), NEW i \in FrameIndexes(f), i <= f.synced
  PROVE  i \in FrameIndexes(g) /\ g.cells[i] = f.cells[i]
<1>1. CASE g = [start |-> f.start, cells |-> f.cells, synced |-> Len(f.cells)]
  BY <1>1 DEF FrameIndexes
<1>2. ASSUME NEW n \in f.synced..(Len(f.cells) - 1), NEW tail \in {<<>>, <<Torn>>},
             g = [start |-> f.start, cells |-> SubSeq(f.cells, 1, n) \o tail, synced |-> n + Len(tail)]
      PROVE  i \in FrameIndexes(g) /\ g.cells[i] = f.cells[i]
  <2>1. n \in Nat /\ f.synced <= n /\ n <= Len(f.cells) /\ f.cells \in Seq(Cell) /\ Len(f.cells) \in Nat
    BY DEF Segment
  <2>2. /\ SubSeq(f.cells, 1, n) \in Seq(Cell) /\ Len(SubSeq(f.cells, 1, n)) = n
        /\ \A j \in 1..n : SubSeq(f.cells, 1, n)[j] = f.cells[j]
    BY <2>1
  <2>3. /\ \A j \in 1..n : g.cells[j] = f.cells[j]
        /\ Len(g.cells) \in Nat /\ n <= Len(g.cells)
    <3>1. CASE tail = <<>>
      BY <1>2, <2>1, <2>2, <3>1
    <3>2. CASE tail = <<Torn>>
      BY <1>2, <2>1, <2>2, <3>2
    <3>. QED
      BY <3>1, <3>2
  <2>4. i \in 1..Len(f.cells) /\ \A j \in 1..i : f.cells[j].kind = "frame"
    BY DEF FrameIndexes
  <2>5. i \in 1..n /\ i \in 1..Len(g.cells) /\ \A j \in 1..i : j \in 1..n
    BY <2>1, <2>3, <2>4 DEF Segment
  <2>. QED
    BY <2>3, <2>4, <2>5 DEF FrameIndexes
<1>. QED
  BY <1>1, <1>2 DEF Survivors

(* A frame stays where it is.                                              *)
Stays(s, i) ==
  /\ s \in DOMAIN files'
  /\ i \in FrameIndexes(files'[s])
  /\ files'[s].cells[i] = files[s].cells[i]

LEMMA FramesStay ==
  ASSUME TypeOK, AckInv, [Next]_vars,
         NEW s \in DOMAIN files, NEW i \in FrameIndexes(files[s]),
         Acked(files[s].cells[i].rec)
  PROVE  s < checkpoint'.segment \/ Stays(s, i)
<1>1. /\ ~NoSync /\ IsDirectory(files) /\ s \in Nat /\ i \in Nat /\ files[s] \in Segment
      /\ FrameIndexes(files[s]) # {}
  BY FrameFacts DEF TypeOK, Acked, IsDirectory
<1>2. /\ i <= files[s].synced
      /\ up => NotAfter(s, i, segment, offset)
      /\ pc # "idle" => NotAfter(s, i, rollback.segment, rollback.offset)
      /\ pc # "idle" => up
  BY <1>1 DEF AckInv, DownInv, FramesInv, FrameInv, Acked
<1>3. CASE UNCHANGED files
  BY <1>3 DEF Stays
<1>4. CASE Rotate
  BY <1>1, <1>4, EnsureFrames DEF Rotate, Stays
<1>5. ASSUME NEW cell \in Cell, segment \in DOMAIN files, files' = AppendCell(files, segment, cell)
      PROVE  Stays(s, i)
  BY <1>1, <1>5, AppendFrames DEF Stays
<1>6. CASE WriteFrame
  <2>1. NextFrame \in Buffered
    BY <1>6 DEF WriteFrame, NextFrame, TypeOK
  <2>2. Frame(NextFrame.lsn, NextFrame.rec) \in Cell
    BY <2>1, FrameIsCell DEF Buffered
  <2>. QED
    BY <1>5, <1>6, <2>2 DEF WriteFrame
<1>7. CASE WriteFails
  BY <1>3, <1>5, <1>7, TornIsCell DEF WriteFails
<1>8. CASE SyncNext
  BY <1>1, <1>8, SyncFrames DEF SyncNext, Stays
<1>9. CASE UndoTruncate
  <2>1. /\ rollback.segment \in DOMAIN files /\ rollback.offset \in Nat
        /\ files' = Truncate(files, rollback.segment, rollback.offset)
        /\ NotAfter(s, i, rollback.segment, rollback.offset)
    BY <1>2, <1>9 DEF UndoTruncate, TypeOK
  <2>2. DOMAIN files' = DOMAIN files
    BY <1>1, <2>1, TruncateFrames
  <2>3. CASE s = rollback.segment
    <3>1. i <= rollback.offset
      BY <1>1, <2>1, <2>3 DEF NotAfter
    <3>. QED
      BY <1>1, <2>1, <2>2, <2>3, <3>1, TruncateKeeps DEF Stays
  <2>4. CASE s # rollback.segment
    BY <1>1, <2>1, <2>2, <2>4, TruncateFrames DEF Stays
  <2>. QED
    BY <2>3, <2>4
<1>15. ASSUME NEW gone, s \notin gone, files' = WithoutSegments(files, gone)
       PROVE  Stays(s, i)
  BY <1>15 DEF WithoutSegments, Stays
<1>10. CASE UndoRemove
  <2>1. s \notin (rollback.segment + 1)..segment
    BY <1>1, <1>2, <1>10 DEF UndoRemove, NotAfter, TypeOK
  <2>. QED
    BY <1>10, <1>15, <2>1 DEF UndoRemove
<1>11. CASE ReplayAdvance
  <2>1. PICK e : /\ checkpoint' = NextPosition(e)
                 /\ files' = WithoutSegments(files, Covered(files, NextPosition(e)))
    BY <1>11 DEF ReplayAdvance, RemoveCovered
  <2>2. s \in Covered(files, NextPosition(e)) => s < checkpoint'.segment
    BY <2>1 DEF Covered
  <2>. QED
    BY <1>15, <2>1, <2>2
<1>12. CASE PowerLoss
  BY <1>1, <1>2, <1>12, SurvivorKeeps DEF PowerLoss, Stays
<1>13. CASE Recover
  <2>1. PICK active \in Nat \ {0}, start \in Nat, n \in Nat :
          LET opened == EnsureSegment(files, active, start) IN
          /\ IsDirectory(opened) /\ active \in DOMAIN opened
          /\ FrameIndexes(opened[active]) = 1..n
          /\ files' = Truncate(opened, active, n)
    BY <1>13, RecoverFacts
  <2> DEFINE opened == EnsureSegment(files, active, start)
  <2>2. s \in DOMAIN opened /\ opened[s] = files[s]
    BY <1>1, EnsureFrames
  <2>3. /\ IsDirectory(opened) /\ active \in DOMAIN opened
        /\ FrameIndexes(opened[active]) = 1..n
        /\ files' = Truncate(opened, active, n)
    BY <2>1
  <2>. HIDE DEF opened
  <2>4. DOMAIN files' = DOMAIN opened
    BY <2>3, TruncateFrames
  <2>5. CASE s = active
    <3>1. i \in FrameIndexes(opened[active]) /\ i <= n
      BY <2>2, <2>3, <2>5
    <3>2. i \in FrameIndexes(files'[active]) /\ files'[active].cells[i] = opened[active].cells[i]
      BY <2>3, <3>1, TruncateKeeps
    <3>. QED
      BY <2>2, <2>4, <2>5, <3>2 DEF Stays
  <2>6. CASE s # active
    BY <2>2, <2>3, <2>4, <2>6, TruncateFrames DEF Stays
  <2>. QED
    BY <2>5, <2>6
<1>14. CASE FlushTick \/ FlushDone \/ RotateFails \/ SyncFails \/ UndoFails \/ Crash
            \/ \E r \in Records : AppendRecord(r)
  BY <1>3, <1>14 DEF FlushTick, FlushDone, RotateFails, SyncFails, UndoFails, Crash, AppendRecord, disk
<1>. QED
  BY <1>3, <1>4, <1>6, <1>7, <1>8, <1>9, <1>10, <1>11, <1>12, <1>13, <1>14
     DEF Next, WriterNext, FlushStep, Fault, vars

(* No step cuts, overwrites or hides a frame whose sender was told 200,    *)
(* except the cleanup of a segment the checkpoint has passed.              *)
THEOREM AckedFramesStay == Spec => AckedFrameStays
<1> DEFINE Kept == \A s \in DOMAIN files : \A i \in FrameIndexes(files[s]) :
                     Acked(files[s].cells[i].rec) =>
                       \/ s < checkpoint'.segment
                       \/ /\ s \in DOMAIN files'
                          /\ i \in FrameIndexes(files'[s])
                          /\ files'[s].cells[i] = files[s].cells[i]
<1>1. TypeOK /\ AckInv /\ [Next]_vars => [Kept]_vars
  BY FramesStay DEF Stays
<1>. QED
  BY <1>1, TypeCorrect, AckInvariant, PTL DEF Spec, AckedFrameStays

-----------------------------------------------------------------------------
(* Durability where replay makes no progress and no rollback fails.        *)

LEMMA StartFlushEnd ==
  ASSUME TypeOK, EndInv, up, pc = "idle", StartFlush \/ UNCHANGED flushing,
         UNCHANGED <<files, up, segment, offset>>
  PROVE  EndInv'
<1>1. TailInv /\ offset <= Len(files[segment].cells)
  BY DEF EndInv, TailInv, TypeOK
<1>2. CASE StartFlush
  BY <1>1, <1>2 DEF StartFlush, EndInv, TailInv, RollbackInv, OnlyFrames, DownInv
<1>3. CASE UNCHANGED flushing
  BY <1>1, <1>3 DEF flushing, EndInv, TailInv, OnlyFrames, DownInv
<1>. QED
  BY <1>2, <1>3

(* Cells added after a point leave the cells before it alone.              *)
LEMMA AppendCells ==
  ASSUME NEW fs, IsDirectory(fs), NEW t \in DOMAIN fs, NEW cell \in Cell
  PROVE  /\ DOMAIN AppendCell(fs, t, cell) = DOMAIN fs
         /\ Len(AppendCell(fs, t, cell)[t].cells) = Len(fs[t].cells) + 1
         /\ AppendCell(fs, t, cell)[t].cells[Len(fs[t].cells) + 1] = cell
         /\ \A j \in 1..Len(fs[t].cells) : AppendCell(fs, t, cell)[t].cells[j] = fs[t].cells[j]
         /\ \A s \in DOMAIN fs : s # t => AppendCell(fs, t, cell)[s] = fs[s]
<1>1. fs[t].cells \in Seq(Cell) /\ Len(fs[t].cells) \in Nat
  BY DEF IsDirectory, Segment
<1>2. /\ DOMAIN AppendCell(fs, t, cell) = DOMAIN fs
      /\ AppendCell(fs, t, cell)[t].cells = Append(fs[t].cells, cell)
      /\ \A s \in DOMAIN fs : s # t => AppendCell(fs, t, cell)[s] = fs[s]
  BY DEF AppendCell, IsDirectory, Segment
<1>. QED
  BY <1>1, <1>2

(* The point a failed flush returns to survives whatever the flush writes. *)
LEMMA AppendRollback ==
  ASSUME TypeOK, RollbackInv, NEW cell \in Cell, segment \in DOMAIN files,
         files' = AppendCell(files, segment, cell), UNCHANGED rollback, pc' # "remove"
  PROVE  RollbackInv'
<1> DEFINE t == rollback.segment
<1>1. /\ DOMAIN files' = DOMAIN files
      /\ Len(files'[segment].cells) = Len(files[segment].cells) + 1
      /\ \A j \in 1..Len(files[segment].cells) : files'[segment].cells[j] = files[segment].cells[j]
      /\ \A s \in DOMAIN files : s # segment => files'[s] = files[s]
  BY AppendCells DEF TypeOK
<1>2. /\ t \in DOMAIN files /\ Len(files[t].cells) \in Nat /\ rollback.offset \in Nat
      /\ rollback.offset <= Len(files[t].cells)
  BY DEF RollbackInv, TypeOK, IsDirectory, Segment
<1>3. \A j \in 1..rollback.offset : j \in 1..Len(files[t].cells)
  BY <1>2
<1>4. /\ \A j \in 1..rollback.offset : files'[t].cells[j] = files[t].cells[j]
      /\ rollback.offset <= Len(files'[t].cells)
  BY <1>1, <1>2, <1>3
<1>. QED
  BY <1>1, <1>2, <1>4 DEF RollbackInv, OnlyFrames

LEMMA RotateEnd ==
  ASSUME TypeOK, EndInv, Rotate
  PROVE  EndInv'
<1>1. /\ pc = "write" /\ segment' = segment + 1 /\ offset' = 0
      /\ files' = EnsureSegment(files, segment + 1, NextFrame.lsn)
      /\ UNCHANGED <<up, pc, rollback>>
  BY DEF Rotate, flushing
<1>2. /\ up /\ segment \in Nat /\ RollbackInv /\ \A s \in DOMAIN files : s \in Nat /\ s <= segment
  BY <1>1 DEF EndInv, DownInv, TypeOK, IsDirectory
<1>3. segment + 1 \notin DOMAIN files
  BY <1>2
<1>4. files' = WithSegment(files, segment + 1, EmptySegment(NextFrame.lsn))
  BY <1>1, <1>3 DEF EnsureSegment
<1>5. /\ DOMAIN files' = DOMAIN files \cup {segment + 1}
      /\ files'[segment + 1] = EmptySegment(NextFrame.lsn)
      /\ \A s \in DOMAIN files : files'[s] = files[s]
  BY <1>3, <1>4 DEF WithSegment
<1>6. TailInv'
  BY <1>1, <1>5 DEF TailInv, EmptySegment, OnlyFrames
<1>7. RollbackInv'
  BY <1>1, <1>2, <1>5 DEF RollbackInv, OnlyFrames
<1>8. \A s \in DOMAIN files' : s <= segment'
  BY <1>1, <1>2, <1>5
<1>. QED
  BY <1>1, <1>2, <1>6, <1>7, <1>8 DEF EndInv, DownInv

LEMMA WriteFrameEnd ==
  ASSUME TypeOK, EndInv, WriteFrame
  PROVE  EndInv' /\ \A q \in Records : q = NextFrame.rec => Logged(q)'
<1> DEFINE cell == Frame(NextFrame.lsn, NextFrame.rec)
<1>1. /\ pc = "write" /\ segment \in DOMAIN files
      /\ files' = AppendCell(files, segment, cell)
      /\ offset' = offset + 1
      /\ pc' \in {"write", "sync"}
      /\ UNCHANGED <<up, segment, buffered, rollback>>
  BY DEF WriteFrame
<1>2. cell \in Cell /\ cell.kind = "frame" /\ cell.rec = NextFrame.rec
  <2>1. NextFrame \in Buffered
    BY DEF WriteFrame, NextFrame, TypeOK
  <2>. QED
    BY <2>1, FrameIsCell DEF Buffered, Frame
<1>3. up /\ TailInv /\ RollbackInv /\ \A s \in DOMAIN files : s <= segment
  BY <1>1 DEF EndInv, DownInv
<1>. HIDE DEF cell
<1>4. /\ DOMAIN files' = DOMAIN files
      /\ Len(files'[segment].cells) = Len(files[segment].cells) + 1
      /\ files'[segment].cells[Len(files[segment].cells) + 1] = cell
      /\ \A j \in 1..Len(files[segment].cells) : files'[segment].cells[j] = files[segment].cells[j]
  <2>1. IsDirectory(files) /\ segment \in DOMAIN files /\ cell \in Cell
    BY <1>1, <1>2 DEF TypeOK
  <2>2. files' = AppendCell(files, segment, cell)
    BY <1>1
  <2>. QED
    BY ONLY <2>1, <2>2, AppendCells
<1>5. offset = Len(files[segment].cells) /\ OnlyFrames(files[segment], offset) /\ offset \in Nat
  BY <1>3 DEF TailInv, TypeOK
<1>6. OnlyFrames(files'[segment], offset + 1)
  <2>1. \A j \in 1..(offset + 1) : j \in 1..offset \/ j = offset + 1
    BY <1>5
  <2>. QED
    BY <1>2, <1>4, <1>5, <2>1 DEF OnlyFrames
<1>7. TailInv'
  BY <1>1, <1>4, <1>5, <1>6 DEF TailInv
<1>8. RollbackInv'
  BY <1>1, <1>2, <1>3, AppendRollback
<1>9. ASSUME NEW q \in Records, q = NextFrame.rec
      PROVE  Logged(q)'
  <2>1. offset + 1 \in FrameIndexes(files'[segment])
    <3>1. offset + 1 \in 1..Len(files'[segment].cells)
      BY <1>4, <1>5
    <3>. QED
      BY <1>6, <3>1 DEF FrameIndexes, OnlyFrames
  <2>2. files'[segment].cells[offset + 1].rec = q
    BY <1>2, <1>4, <1>5, <1>9
  <2>3. segment \in DOMAIN files'
    BY <1>1, <1>4
  <2>. QED
    BY <2>1, <2>2, <2>3 DEF Logged
<1>. QED
  BY <1>1, <1>3, <1>4, <1>7, <1>8, <1>9 DEF EndInv, DownInv

LEMMA SyncNextEnd ==
  ASSUME TypeOK, EndInv, SyncNext
  PROVE  EndInv'
<1>1. PICK t \in DOMAIN files : files' = SyncSegment(files, t)
  BY DEF SyncNext
<1>2. pc = "sync" /\ UNCHANGED <<up, segment, offset, pc, rollback>>
  BY DEF SyncNext
<1>3. DOMAIN files' = DOMAIN files /\ \A s \in DOMAIN files : files'[s].cells = files[s].cells
  BY <1>1, SyncFrames DEF TypeOK
<1>. QED
  BY <1>2, <1>3 DEF EndInv, DownInv, TailInv, RollbackInv, OnlyFrames

LEMMA UndoTruncateEnd ==
  ASSUME TypeOK, EndInv, UndoTruncate
  PROVE  EndInv'
<1> DEFINE t == rollback.segment
           cut == SetLen(files[t].cells, rollback.offset)
<1>1. /\ pc = "truncate" /\ pc' = "remove" /\ t \in DOMAIN files
      /\ files' = Truncate(files, t, rollback.offset)
      /\ UNCHANGED <<up, segment, offset, rollback>>
  BY DEF UndoTruncate
<1>2. up /\ RollbackInv /\ \A s \in DOMAIN files : s <= segment
  BY <1>1 DEF EndInv, DownInv
<1>3. files[t].cells \in Seq(Cell) /\ rollback.offset \in Nat
  BY <1>1 DEF TypeOK, IsDirectory, Segment
<1>4. Len(cut) = rollback.offset /\ \A j \in 1..rollback.offset : cut[j] = files[t].cells[j]
  <2>1. \A j \in 1..rollback.offset : j <= Len(files[t].cells)
    BY <1>2, <1>3 DEF RollbackInv
  <2>. QED
    BY <1>3, <2>1, SetLenType, SetLenCells
<1>5. DOMAIN files' = DOMAIN files /\ files'[t].cells = cut
  BY <1>1 DEF Truncate, TypeOK, IsDirectory
<1>. HIDE DEF cut
<1>6. RollbackInv'
  BY <1>1, <1>2, <1>3, <1>4, <1>5 DEF RollbackInv, OnlyFrames
<1>. QED
  BY <1>1, <1>2, <1>5, <1>6 DEF EndInv, DownInv

LEMMA UndoRemoveEnd ==
  ASSUME TypeOK, EndInv, UndoRemove
  PROVE  EndInv'
<1> DEFINE gone == (rollback.segment + 1)..segment
<1>1. /\ pc = "remove" /\ pc' = "idle"
      /\ files' = WithoutSegments(files, gone)
      /\ segment' = rollback.segment /\ offset' = rollback.offset
      /\ UNCHANGED <<up, rollback>>
  BY DEF UndoRemove
<1>2. /\ up /\ RollbackInv /\ \A s \in DOMAIN files : s <= segment
      /\ rollback.offset = Len(files[rollback.segment].cells)
  BY <1>1 DEF EndInv, DownInv, RollbackInv
<1>3. DOMAIN files' = DOMAIN files \ gone /\ \A s \in DOMAIN files \ gone : files'[s] = files[s]
  BY <1>1, WithoutFrames
<1>4. \A s \in DOMAIN files \ gone : s <= rollback.segment
  BY <1>2 DEF TypeOK, IsDirectory
<1>5. rollback.segment \in DOMAIN files \ gone
  BY <1>2 DEF RollbackInv, TypeOK
<1>6. TailInv'
  BY <1>1, <1>2, <1>3, <1>5 DEF RollbackInv, TailInv, OnlyFrames
<1>. QED
  BY <1>1, <1>2, <1>3, <1>4, <1>6 DEF EndInv, DownInv

LEMMA FailureEnd ==
  ASSUME TypeOK, EndInv, RotateFails \/ WriteFails \/ SyncFails
  PROVE  EndInv'
<1>1. /\ pc \in {"write", "sync"} /\ pc' = "truncate"
      /\ UNCHANGED <<up, rollback>>
      /\ segment' \in {segment, segment + 1}
  BY DEF RotateFails, WriteFails, SyncFails, disk
<1>2. /\ up /\ RollbackInv /\ segment \in Nat
      /\ \A s \in DOMAIN files : s \in Nat /\ s <= segment
  BY <1>1 DEF EndInv, DownInv, TypeOK, IsDirectory
<1>3. CASE UNCHANGED files
  BY <1>1, <1>2, <1>3 DEF EndInv, DownInv, RollbackInv, OnlyFrames
<1>4. CASE segment \in DOMAIN files /\ files' = AppendCell(files, segment, Torn)
  <2>1. RollbackInv'
    BY <1>1, <1>2, <1>4, TornIsCell, AppendRollback
  <2>2. DOMAIN files' = DOMAIN files
    BY <1>4, TornIsCell, AppendCells DEF TypeOK
  <2>. QED
    BY <1>1, <1>2, <2>1, <2>2 DEF EndInv, DownInv
<1>. QED
  BY <1>3, <1>4 DEF RotateFails, WriteFails, SyncFails, disk

LEMMA RecoverEnd ==
  ASSUME TypeOK, EndInv, Recover
  PROVE  EndInv'
<1>1. PICK active \in Nat \ {0}, start \in Nat, n \in Nat :
        LET opened == EnsureSegment(files, active, start) IN
        /\ \A s \in DOMAIN files : s <= active
        /\ IsDirectory(opened) /\ active \in DOMAIN opened
        /\ FrameIndexes(opened[active]) = 1..n
        /\ files' = Truncate(opened, active, n)
        /\ segment' = active /\ offset' = n
  BY RecoverFacts
<1> DEFINE opened == EnsureSegment(files, active, start)
           cut == SetLen(opened[active].cells, n)
<1>2. \A s \in DOMAIN opened : s <= active
  BY <1>1 DEF EnsureSegment, WithSegment
<1>3. /\ IsDirectory(opened) /\ active \in DOMAIN opened
      /\ FrameIndexes(opened[active]) = 1..n
      /\ files' = Truncate(opened, active, n)
  BY <1>1
<1>. HIDE DEF opened
<1>4. opened[active].cells \in Seq(Cell)
  BY <1>3 DEF IsDirectory, Segment
<1>5. \A j \in 1..n : j <= Len(opened[active].cells) /\ opened[active].cells[j].kind = "frame"
  <2>1. \A j \in 1..n : j \in FrameIndexes(opened[active]) /\ j \in 1..j
    BY <1>3
  <2>. QED
    BY <2>1 DEF FrameIndexes
<1>6. Len(cut) = n /\ \A j \in 1..n : cut[j].kind = "frame"
  BY <1>4, <1>5, SetLenType, SetLenCells
<1>7. DOMAIN files' = DOMAIN opened /\ files'[active].cells = cut
  BY <1>3 DEF Truncate, IsDirectory
<1>. HIDE DEF cut
<1>8. TailInv'
  BY <1>1, <1>3, <1>6, <1>7 DEF TailInv, OnlyFrames
<1>9. ~up /\ pc = "idle" /\ pc' = "idle"
  BY DEF Recover, EndInv, DownInv, flushing
<1>. QED
  BY <1>1, <1>2, <1>7, <1>8, <1>9 DEF EndInv, DownInv

(* Without a failing rollback, every step but the reader's leaves the      *)
(* writer at the end of its log.                                           *)
LEMMA NextEnd ==
  ASSUME "undo" \notin Faults, TypeOK, EndInv, [WriterNext]_vars
  PROVE  EndInv'
<1>1. ASSUME NEW r \in Records, AppendRecord(r) PROVE EndInv'
  BY <1>1, StartFlushEnd DEF AppendRecord, disk
<1>2. CASE FlushTick
  BY <1>2, StartFlushEnd DEF FlushTick, disk
<1>3. CASE FlushDone
  BY <1>3 DEF FlushDone, disk, EndInv, DownInv, TailInv, OnlyFrames
<1>4. CASE UndoFails
  BY <1>4 DEF UndoFails, EndInv, RollbackInv
<1>5. CASE Crash \/ PowerLoss
  BY <1>5 DEF Crash, PowerLoss, LoseMemory, EndInv, DownInv
<1>6. CASE UNCHANGED vars
  BY <1>6 DEF vars, EndInv, DownInv, TailInv, RollbackInv, OnlyFrames
<1>. QED
  BY <1>1, <1>2, <1>3, <1>4, <1>5, <1>6, RotateEnd, WriteFrameEnd, SyncNextEnd, UndoTruncateEnd,
     UndoRemoveEnd, FailureEnd, RecoverEnd DEF WriterNext, FlushStep, Fault

LEMMA InitDurability == Init => DurabilityInv
<1>. SUFFICES ASSUME Init PROVE DurabilityInv
  OBVIOUS
<1>1. files = [s \in {1} |-> EmptySegment(1)] /\ segment = 1 /\ offset = 0 /\ pc = "idle"
  BY DEF Init, FirstSegmentId
<1>2. TailInv
  BY <1>1 DEF TailInv, EmptySegment, OnlyFrames
<1>3. EndInv
  BY <1>1, <1>2 DEF EndInv, DownInv
<1>. QED
  BY <1>3, InitAck DEF Init, DurabilityInv, LoggedInv

(* Frames move no step, so what was logged is logged.                      *)
LEMMA LoggedStays ==
  ASSUME NEW q,
         \A s \in DOMAIN files : \A i \in FrameIndexes(files[s]) :
           files[s].cells[i].rec = q => Stays(s, i),
         Logged(q)
  PROVE  Logged(q)'
<1>1. PICK s \in DOMAIN files : \E i \in FrameIndexes(files[s]) : files[s].cells[i].rec = q
  BY DEF Logged
<1>2. PICK i \in FrameIndexes(files[s]) : files[s].cells[i].rec = q
  BY <1>1
<1>3. s \in DOMAIN files' /\ i \in FrameIndexes(files'[s]) /\ files'[s].cells[i].rec = q
  BY <1>2 DEF Stays
<1>. QED
  BY <1>3 DEF Logged

(* While a flush goes forward every frame stays, acknowledged or not.      *)
LEMMA ForwardStays ==
  ASSUME TypeOK, Rotate \/ WriteFrame \/ SyncNext,
         NEW s \in DOMAIN files, NEW i \in FrameIndexes(files[s])
  PROVE  Stays(s, i)
<1>1. CASE Rotate
  BY <1>1, EnsureFrames DEF Rotate, Stays, TypeOK
<1>2. CASE WriteFrame
  <2>1. NextFrame \in Buffered
    BY <1>2 DEF WriteFrame, NextFrame, TypeOK
  <2>2. Frame(NextFrame.lsn, NextFrame.rec) \in Cell
    BY <2>1, FrameIsCell DEF Buffered
  <2>. QED
    BY <1>2, <2>2, AppendFrames DEF WriteFrame, Stays, TypeOK
<1>3. CASE SyncNext
  BY <1>3, SyncFrames DEF SyncNext, Stays, TypeOK
<1>. QED
  BY <1>1, <1>2, <1>3

LEMMA CheckpointStays == [WriterNext]_vars => checkpoint' = checkpoint
<1>. SUFFICES ASSUME [WriterNext]_vars PROVE checkpoint' = checkpoint
  OBVIOUS
<1>1. ASSUME NEW r \in Records, AppendRecord(r) PROVE checkpoint' = checkpoint
  BY <1>1 DEF AppendRecord, disk
<1>2. CASE FlushTick \/ Recover \/ UNCHANGED vars
  BY <1>2 DEF FlushTick, Recover, vars, disk
<1>3. CASE FlushStep
  BY <1>3 DEF FlushStep, Rotate, WriteFrame, SyncNext, FlushDone, UndoTruncate, UndoRemove, disk
<1>4. CASE RotateFails \/ WriteFails \/ SyncFails \/ UndoFails
  BY <1>4 DEF RotateFails, WriteFails, SyncFails, UndoFails, disk
<1>5. CASE Crash \/ PowerLoss
  BY <1>5 DEF Crash, PowerLoss, disk
<1>. QED
  BY <1>1, <1>2, <1>3, <1>4, <1>5 DEF WriterNext, Fault

LEMMA NextLogged ==
  ASSUME "undo" \notin Faults, ~NoSync, TypeOK, DurabilityInv, [WriterNext]_vars
  PROVE  LoggedInv'
<1>1. ASSUME NEW r \in Records, reply[r] = "ok"
      PROVE  Logged(r)'
  <2>1. checkpoint'.segment = 0
    BY CheckpointStays DEF DurabilityInv, NoCheckpoint
  <2>2. [Next]_vars
    BY DEF Next
  <2>3. \A s \in DOMAIN files : \A i \in FrameIndexes(files[s]) :
          files[s].cells[i].rec = r => Stays(s, i)
    <3>. SUFFICES ASSUME NEW s \in DOMAIN files, NEW i \in FrameIndexes(files[s]),
                         files[s].cells[i].rec = r
                  PROVE  Stays(s, i)
      OBVIOUS
    <3>1. Acked(files[s].cells[i].rec)
      BY <1>1 DEF Acked
    <3>2. s < checkpoint'.segment \/ Stays(s, i)
      BY <2>2, <3>1, FramesStay DEF DurabilityInv
    <3>3. s \in Nat \ {0}
      BY DEF TypeOK, IsDirectory
    <3>. QED
      BY <2>1, <3>2, <3>3
  <2>4. Logged(r)
    BY <1>1 DEF DurabilityInv, LoggedInv
  <2>. QED
    BY <2>3, <2>4, LoggedStays
<1>2. ASSUME NEW k \in 1..written, pc \in {"write", "sync"}, Rotate \/ WriteFrame \/ SyncNext
      PROVE  \A q : q = buffered[k].rec => Logged(q)'
  <2>. SUFFICES ASSUME NEW q, q = buffered[k].rec PROVE Logged(q)'
    OBVIOUS
  <2>1. Logged(q)
    BY <1>2 DEF DurabilityInv, LoggedInv
  <2>. QED
    BY <1>2, <2>1, ForwardStays, LoggedStays
<1>3. CASE WriteFrame
  <2>1. /\ written' = written + 1 /\ UNCHANGED <<buffered, reply>>
        /\ pc' = IF written + 1 = Len(buffered) THEN "sync" ELSE "write"
        /\ written \in Nat /\ pc = "write" /\ buffered[written + 1] \in Buffered
    BY <1>3 DEF WriteFrame, TypeOK
  <2>2. ASSUME NEW k \in 1..(written + 1)
        PROVE  Logged(buffered[k].rec)'
    <3>. SUFFICES ASSUME NEW q, q = buffered[k].rec PROVE Logged(q)'
      BY <2>1
    <3>1. CASE k \in 1..written
      BY <1>2, <1>3, <2>1, <3>1
    <3>2. CASE k = written + 1
      <4>1. q \in Records /\ q = NextFrame.rec
        BY <2>1, <3>2 DEF NextFrame, Buffered
      <4>. QED
        BY <1>3, <4>1, WriteFrameEnd DEF DurabilityInv
    <3>. QED
      BY <2>1, <3>1, <3>2
  <2>. QED
    BY <1>1, <2>1, <2>2 DEF LoggedInv
<1>4. CASE Rotate \/ SyncNext
  <2>1. UNCHANGED <<pc, written, buffered, reply>> /\ pc \in {"write", "sync"}
    BY <1>4 DEF Rotate, SyncNext, flushing
  <2>2. ASSUME NEW k \in 1..written
        PROVE  Logged(buffered[k].rec)'
    <3>. SUFFICES ASSUME NEW q, q = buffered[k].rec PROVE Logged(q)'
      BY <2>1
    <3>. QED
      BY <1>2, <1>4, <2>1
  <2>3. pc = "sync" => written = Len(buffered)
    BY DEF DurabilityInv, LoggedInv
  <2>. QED
    BY <1>1, <2>1, <2>2, <2>3 DEF LoggedInv
<1>5. CASE FlushDone
  <2>1. /\ pc = "sync" /\ pc' = "idle" /\ Answer("ok") /\ buffered' = <<>> /\ UNCHANGED files
    BY <1>5 DEF FlushDone, disk
  <2>2. \A r \in Records : reply'[r] = IF reply[r] = "pending" THEN "ok" ELSE reply[r]
    BY <2>1, AnswerAll DEF DurabilityInv, AckInv
  <2>3. ASSUME NEW r \in Records, reply[r] = "pending" PROVE Logged(r)
    <3>1. PICK k \in 1..Len(buffered) : buffered[k].rec = r
      BY <2>3 DEF DurabilityInv, AckInv, PendingInv
    <3>2. k \in 1..written
      BY <2>1 DEF DurabilityInv, LoggedInv
    <3>. QED
      BY <2>1, <3>1, <3>2 DEF DurabilityInv, LoggedInv
  <2>4. ASSUME NEW r \in Records, reply'[r] = "ok" PROVE Logged(r)'
    BY <1>1, <2>1, <2>2, <2>3, <2>4 DEF Logged
  <2>. QED
    BY <2>1, <2>4 DEF LoggedInv
<1>6. ASSUME pc' \in {"write", "sync"} => pc' = "write" /\ written' = 0,
             \A r \in Records : reply'[r] = "ok" => reply[r] = "ok"
      PROVE  LoggedInv'
  BY <1>1, <1>6 DEF LoggedInv
<1>7. ASSUME NEW r \in Records, AppendRecord(r) PROVE LoggedInv'
  <2>1. pc = "idle" /\ (StartFlush \/ UNCHANGED flushing)
    BY <1>7 DEF AppendRecord
  <2>3. \A q \in Records : reply'[q] = "ok" => reply[q] = "ok"
    BY <1>7 DEF AppendRecord, TypeOK
  <2>4. pc' \in {"write", "sync"} => pc' = "write" /\ written' = 0
    BY <2>1 DEF StartFlush, flushing
  <2>. QED
    BY <1>6, <2>3, <2>4
<1>8. CASE FlushTick \/ RotateFails \/ WriteFails \/ SyncFails \/ UndoTruncate \/ Recover
  <2>1. CASE FlushTick
    BY <1>6, <2>1 DEF FlushTick, StartFlush
  <2>2. CASE RotateFails \/ WriteFails \/ SyncFails \/ UndoTruncate
    <3>1. pc' \in {"truncate", "remove"} /\ UNCHANGED reply
      BY <2>2 DEF RotateFails, WriteFails, SyncFails, UndoTruncate
    <3>. QED
      BY <1>6, <3>1
  <2>3. CASE Recover
    <3>1. pc' = "idle" /\ UNCHANGED reply
      BY <2>3 DEF Recover, DurabilityInv, EndInv, DownInv, flushing
    <3>. QED
      BY <1>6, <3>1
  <2>. QED
    BY <1>8, <2>1, <2>2, <2>3
<1>9. CASE UndoRemove \/ UndoFails
  <2>1. pc' = "idle" /\ Answer("err")
    BY <1>9 DEF UndoRemove, UndoFails
  <2>2. \A q \in Records : reply'[q] = "ok" => reply[q] = "ok"
    BY <2>1 DEF Answer
  <2>. QED
    BY <1>6, <2>1, <2>2
<1>10. CASE Crash \/ PowerLoss
  <2>1. LoseMemory
    BY <1>10 DEF Crash, PowerLoss
  <2>2. pc' = "idle"
    BY <2>1 DEF LoseMemory
  <2>3. \A q \in Records : reply'[q] = "ok" => reply[q] = "ok"
    BY <2>1 DEF LoseMemory
  <2>. QED
    BY <1>6, <2>2, <2>3
<1>11. CASE UNCHANGED vars
  <2>1. UNCHANGED <<files, buffered, written, pc, reply>>
    BY <1>11 DEF vars
  <2>2. LoggedInv
    BY DEF DurabilityInv
  <2>. QED
    BY <2>1, <2>2 DEF LoggedInv, Logged
<1>. QED
  BY <1>3, <1>4, <1>5, <1>7, <1>8, <1>9, <1>10, <1>11 DEF WriterNext, FlushStep, Fault

LEMMA NextDurability ==
  ASSUME "undo" \notin Faults, TypeOK, DurabilityInv, [WriterNext]_vars
  PROVE  DurabilityInv'
<1>1. checkpoint' = NoCheckpoint
  BY CheckpointStays DEF DurabilityInv
<1>2. AckInv'
  BY NextAck DEF DurabilityInv, Next
<1>3. EndInv'
  BY NextEnd DEF DurabilityInv
<1>4. LoggedInv'
  BY NextLogged DEF LoggedInv
<1>. QED
  BY <1>1, <1>2, <1>3, <1>4 DEF DurabilityInv

LEMMA DurabilityCorrect ==
  ASSUME "undo" \notin Faults
  PROVE  WriterSpec => [](TypeOK /\ DurabilityInv)
<1>1. Init => TypeOK /\ DurabilityInv
  BY InitType, InitDurability
<1>2. TypeOK /\ DurabilityInv /\ [WriterNext]_vars => (TypeOK /\ DurabilityInv)'
  BY NextType, NextDurability DEF Next
<1>. QED
  BY <1>1, <1>2, PTL DEF WriterSpec

(* The invariant behind the two theorems below: replay has not moved, an   *)
(* acknowledged frame is synced and before every rollback point, the       *)
(* writer stands at the end of the log, what was acknowledged is found.    *)
THEOREM DurabilityInvariant == ASSUME "undo" \notin Faults PROVE WriterSpec => []DurabilityInv
<1>1. WriterSpec => [](TypeOK /\ DurabilityInv)
  BY DurabilityCorrect
<1>. QED
  BY <1>1, PTL

LEMMA DurabilityImplied == TypeOK /\ DurabilityInv => AckedDurable /\ WriterAtEnd
<1>. SUFFICES ASSUME TypeOK, DurabilityInv PROVE AckedDurable /\ WriterAtEnd
  OBVIOUS
<1>1. ASSUME ~NoSync, NEW r \in Records, reply[r] = "ok"
      PROVE  Durable(r)
  <2>1. PICK s \in DOMAIN files : \E i \in FrameIndexes(files[s]) : files[s].cells[i].rec = r
    BY <1>1 DEF DurabilityInv, LoggedInv, Logged
  <2>2. PICK i \in FrameIndexes(files[s]) : files[s].cells[i].rec = r
    BY <2>1
  <2>3. i <= files[s].synced
    BY <1>1, <2>2 DEF DurabilityInv, AckInv, FramesInv, FrameInv
  <2> DEFINE e == [segment |-> s, index |-> i, lsn |-> files[s].cells[i].lsn,
                   rec |-> files[s].cells[i].rec]
  <2>4. e \in Entries(files)
    BY DEF Entries
  <2>. QED
    BY <2>2, <2>3, <2>4 DEF Durable
<1>2. AckedDurable
  BY <1>1 DEF AckedDurable
<1>3. WriterAtEnd
  BY DEF DurabilityInv, EndInv, TailInv, WriterAtEnd, Idle
<1>. QED
  BY <1>2, <1>3

(* While replay makes no progress and no rollback fails, a 200 means that  *)
(* the record is on disk, synced, where a scan finds it, through write and *)
(* sync failures, crashes, power failures and restarts.                    *)
THEOREM AckDurability == ASSUME "undo" \notin Faults PROVE WriterSpec => []AckedDurable
<1>1. WriterSpec => [](TypeOK /\ DurabilityInv)
  BY DurabilityCorrect
<1>. QED
  BY <1>1, DurabilityImplied, PTL

(* Under the same conditions a failed flush leaves the writer at the end   *)
(* of the log it will append to.                                           *)
THEOREM RollbackExact == ASSUME "undo" \notin Faults PROVE WriterSpec => []WriterAtEnd
<1>1. WriterSpec => [](TypeOK /\ DurabilityInv)
  BY DurabilityCorrect
<1>. QED
  BY <1>1, DurabilityImplied, PTL
=============================================================================
