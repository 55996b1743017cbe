---------------------------- MODULE WalLogProofs ----------------------------
(***************************************************************************)
(* What the WAL writer does to the sequence of records in its log: which   *)
(* LSNs are given out, which are on disk and in which order, what a failed *)
(* flush takes back, and that the log can be read.                         *)
(***************************************************************************)
EXTENDS WalWriterProofs

-----------------------------------------------------------------------------
(* The entries a scan returns, and what the file operations do to them.    *)

EntryAt(fs, s, i) ==
  [segment |-> s, index |-> i, lsn |-> fs[s].cells[i].lsn, rec |-> fs[s].cells[i].rec]

LEMMA EntryIs ==
  ASSUME NEW fs, NEW e
  PROVE  e \in Entries(fs) <=>
           \E s \in DOMAIN fs : \E i \in FrameIndexes(fs[s]) : e = EntryAt(fs, s, i)
<1> DEFINE In(s) == {EntryAt(fs, s, i) : i \in FrameIndexes(fs[s])}
<1>1. Entries(fs) = UNION {In(s) : s \in DOMAIN fs}
  BY DEF Entries, EntryAt
<1>2. \A s : e \in In(s) <=> \E i \in FrameIndexes(fs[s]) : e = EntryAt(fs, s, i)
  OBVIOUS
<1>. HIDE DEF In
<1>3. e \in Entries(fs) <=> \E s \in DOMAIN fs : e \in In(s)
  BY <1>1
<1>. QED
  BY <1>2, <1>3

LEMMA EntryPlace ==
  ASSUME NEW fs, NEW e \in Entries(fs)
  PROVE  /\ e.segment \in DOMAIN fs
         /\ e.index \in FrameIndexes(fs[e.segment])
         /\ e = EntryAt(fs, e.segment, e.index)
<1>1. PICK s \in DOMAIN fs : \E i \in FrameIndexes(fs[s]) : e = EntryAt(fs, s, i)
  BY EntryIs
<1>2. PICK i \in FrameIndexes(fs[s]) : e = EntryAt(fs, s, i)
  BY <1>1
<1>3. e.segment = s /\ e.index = i
  BY <1>2 DEF EntryAt
<1>. QED
  BY <1>2, <1>3

(* Two directories with the same frames have the same entries.             *)
LEMMA EntriesFrom ==
  ASSUME NEW fs, NEW gs, FramesFrom(gs, fs)
  PROVE  Entries(gs) \subseteq Entries(fs)
<1>. SUFFICES ASSUME NEW e \in Entries(gs) PROVE e \in Entries(fs)
  OBVIOUS
<1>1. /\ e.segment \in DOMAIN gs /\ e.index \in FrameIndexes(gs[e.segment])
      /\ e = EntryAt(gs, e.segment, e.index)
  BY EntryPlace
<1>2. /\ e.segment \in DOMAIN fs /\ e.index \in FrameIndexes(fs[e.segment])
      /\ gs[e.segment].cells[e.index] = fs[e.segment].cells[e.index]
  BY <1>1 DEF FramesFrom
<1>3. e = EntryAt(fs, e.segment, e.index)
  BY <1>1, <1>2 DEF EntryAt
<1>. QED
  BY <1>2, <1>3, EntryIs

LEMMA EntriesSame ==
  ASSUME NEW fs, NEW gs, FramesFrom(gs, fs), FramesFrom(fs, gs)
  PROVE  Entries(gs) = Entries(fs)
BY EntriesFrom

LEMMA AppendFrameEntries ==
  ASSUME NEW fs, IsDirectory(fs), NEW t \in DOMAIN fs,
         OnlyFrames(fs[t], Len(fs[t].cells)),
         NEW lsn \in Nat, NEW rec \in Records
  PROVE  Entries(AppendCell(fs, t, Frame(lsn, rec))) =
           Entries(fs) \cup
             {[segment |-> t, index |-> Len(fs[t].cells) + 1, lsn |-> lsn, rec |-> rec]}
<1> DEFINE cell == Frame(lsn, rec)
           gs == AppendCell(fs, t, cell)
           last == Len(fs[t].cells) + 1
           new == [segment |-> t, index |-> last, lsn |-> lsn, rec |-> rec]
<1>1. cell \in Cell /\ cell.kind = "frame" /\ cell.lsn = lsn /\ cell.rec = rec
  BY FrameIsCell DEF Frame
<1>. HIDE DEF cell
<1>2. /\ DOMAIN gs = DOMAIN fs
      /\ \A s \in DOMAIN fs : s # t => gs[s] = fs[s]
      /\ \A s \in DOMAIN fs : FrameIndexes(fs[s]) \subseteq FrameIndexes(gs[s])
      /\ \A s \in DOMAIN fs : \A i \in FrameIndexes(fs[s]) : gs[s].cells[i] = fs[s].cells[i]
      /\ \A i \in FrameIndexes(gs[t]) :
           i \in FrameIndexes(fs[t]) \/ (i = last /\ gs[t].cells[i] = cell)
  BY <1>1, AppendFrames
<1>3. last \in FrameIndexes(gs[t]) /\ gs[t].cells[last] = cell
  <2>1. /\ Len(gs[t].cells) = last /\ gs[t].cells[last] = cell
        /\ \A j \in 1..Len(fs[t].cells) : gs[t].cells[j] = fs[t].cells[j]
        /\ Len(fs[t].cells) \in Nat
    <3>1. Len(fs[t].cells) \in Nat
      BY DEF IsDirectory, Segment
    <3>. QED
      BY <1>1, <3>1, AppendCells
  <2>2. \A j \in 1..last : j \in 1..Len(fs[t].cells) \/ j = last
    BY <2>1
  <2>3. \A j \in 1..last : gs[t].cells[j].kind = "frame"
    BY <1>1, <2>1, <2>2 DEF OnlyFrames
  <2>4. last \in 1..Len(gs[t].cells)
    BY <2>1
  <2>. QED
    BY <2>1, <2>3, <2>4 DEF FrameIndexes
<1>. HIDE DEF gs, last
<1>4. EntryAt(gs, t, last) = new
  BY <1>1, <1>3 DEF EntryAt
<1>5. ASSUME NEW e \in Entries(gs) PROVE e \in Entries(fs) \cup {new}
  <2>1. /\ e.segment \in DOMAIN gs /\ e.index \in FrameIndexes(gs[e.segment])
        /\ e = EntryAt(gs, e.segment, e.index)
    BY EntryPlace
  <2>2. CASE e.index \in FrameIndexes(fs[e.segment])
    <3>1. e = EntryAt(fs, e.segment, e.index)
      BY <1>2, <2>1, <2>2 DEF EntryAt
    <3>. QED
      BY <1>2, <2>1, <2>2, <3>1, EntryIs
  <2>3. CASE e.index \notin FrameIndexes(fs[e.segment])
    <3>1. e.segment = t /\ e.index = last
      BY <1>2, <2>1, <2>3
    <3>. QED
      BY <1>4, <2>1, <3>1
  <2>. QED
    BY <2>2, <2>3
<1>6. ASSUME NEW e \in Entries(fs) PROVE e \in Entries(gs)
  <2>1. /\ e.segment \in DOMAIN fs /\ e.index \in FrameIndexes(fs[e.segment])
        /\ e = EntryAt(fs, e.segment, e.index)
    BY EntryPlace
  <2>2. e.index \in FrameIndexes(gs[e.segment]) /\ e = EntryAt(gs, e.segment, e.index)
    BY <1>2, <2>1 DEF EntryAt
  <2>. QED
    BY <1>2, <2>1, <2>2, EntryIs
<1>7. new \in Entries(gs)
  BY <1>2, <1>3, <1>4, EntryIs
<1>8. Entries(gs) = Entries(fs) \cup {new}
  BY <1>5, <1>6, <1>7
<1>. QED
  BY <1>8 DEF gs, cell, last

(* A piece of a frame is no entry.                                         *)
LEMMA AppendTornEntries ==
  ASSUME NEW fs, IsDirectory(fs), NEW t \in DOMAIN fs
  PROVE  Entries(AppendCell(fs, t, Torn)) = Entries(fs)
<1> DEFINE gs == AppendCell(fs, t, Torn)
<1>1. Torn \in Cell /\ Torn.kind # "frame"
  BY TornIsCell DEF Torn
<1>2. /\ DOMAIN gs = DOMAIN fs
      /\ \A s \in DOMAIN fs : s # t => gs[s] = fs[s]
      /\ \A s \in DOMAIN fs : FrameIndexes(fs[s]) \subseteq FrameIndexes(gs[s])
      /\ \A s \in DOMAIN fs : \A i \in FrameIndexes(fs[s]) : gs[s].cells[i] = fs[s].cells[i]
      /\ \A i \in FrameIndexes(gs[t]) : i \in FrameIndexes(fs[t])
  BY <1>1, AppendFrames
<1>. HIDE DEF gs
<1>3. FramesFrom(gs, fs) /\ FramesFrom(fs, gs)
  BY <1>2 DEF FramesFrom
<1>4. Entries(gs) = Entries(fs)
  BY <1>3, EntriesSame
<1>. QED
  BY <1>4 DEF gs

LEMMA TruncateEntries ==
  ASSUME NEW fs, IsDirectory(fs), NEW t \in DOMAIN fs, NEW n \in Nat
  PROVE  Entries(Truncate(fs, t, n)) = {e \in Entries(fs) : e.segment = t => e.index <= n}
<1> DEFINE gs == Truncate(fs, t, n)
<1>1. /\ FramesFrom(gs, fs) /\ DOMAIN gs = DOMAIN fs
      /\ \A i \in FrameIndexes(gs[t]) : i <= n
      /\ \A s \in DOMAIN fs : s # t => gs[s] = fs[s]
  BY TruncateFrames
<1>2. \A i \in FrameIndexes(fs[t]) : i <= n =>
        i \in FrameIndexes(gs[t]) /\ gs[t].cells[i] = fs[t].cells[i]
  BY TruncateKeeps
<1>. HIDE DEF gs
<1>3. ASSUME NEW e \in Entries(gs) PROVE e \in Entries(fs) /\ (e.segment = t => e.index <= n)
  BY <1>1, EntriesFrom, EntryPlace
<1>4. ASSUME NEW e \in Entries(fs), e.segment = t => e.index <= n PROVE e \in Entries(gs)
  <2>1. /\ e.segment \in DOMAIN fs /\ e.index \in FrameIndexes(fs[e.segment])
        /\ e = EntryAt(fs, e.segment, e.index)
    BY EntryPlace
  <2>2. /\ e.index \in FrameIndexes(gs[e.segment])
        /\ gs[e.segment].cells[e.index] = fs[e.segment].cells[e.index]
    BY <1>1, <1>2, <1>4, <2>1
  <2>3. e = EntryAt(gs, e.segment, e.index)
    BY <2>1, <2>2 DEF EntryAt
  <2>. QED
    BY <1>1, <2>1, <2>2, <2>3, EntryIs
<1>5. Entries(gs) = {e \in Entries(fs) : e.segment = t => e.index <= n}
  BY <1>3, <1>4
<1>. QED
  BY <1>5 DEF gs

LEMMA WithoutEntries ==
  ASSUME NEW fs, NEW gone
  PROVE  Entries(WithoutSegments(fs, gone)) = {e \in Entries(fs) : e.segment \notin gone}
<1> DEFINE gs == WithoutSegments(fs, gone)
<1>1. /\ FramesFrom(gs, fs) /\ DOMAIN gs = DOMAIN fs \ gone
      /\ \A s \in DOMAIN fs \ gone : gs[s] = fs[s]
  BY WithoutFrames
<1>. HIDE DEF gs
<1>2. ASSUME NEW e \in Entries(gs) PROVE e \in Entries(fs) /\ e.segment \notin gone
  BY <1>1, EntriesFrom, EntryPlace
<1>3. ASSUME NEW e \in Entries(fs), e.segment \notin gone PROVE e \in Entries(gs)
  <2>1. /\ e.segment \in DOMAIN gs /\ e.index \in FrameIndexes(gs[e.segment])
        /\ e = EntryAt(fs, e.segment, e.index)
    BY <1>1, <1>3, EntryPlace
  <2>2. e = EntryAt(gs, e.segment, e.index)
    BY <1>1, <1>3, <2>1 DEF EntryAt
  <2>. QED
    BY <2>1, <2>2, EntryIs
<1>4. Entries(gs) = {e \in Entries(fs) : e.segment \notin gone}
  BY <1>2, <1>3
<1>. QED
  BY <1>4 DEF gs

(* ensure_segment_file replaces only a bare header.                        *)
LEMMA EnsureEntries ==
  ASSUME NEW fs, IsDirectory(fs), NEW t, NEW start
  PROVE  Entries(EnsureSegment(fs, t, start)) = Entries(fs)
<1>1. FramesFrom(EnsureSegment(fs, t, start), fs)
  BY EnsureFrames
<1>2. FramesFrom(fs, EnsureSegment(fs, t, start))
  BY EnsureFrames DEF FramesFrom
<1>. QED
  BY <1>1, <1>2, EntriesSame

LEMMA SyncEntries ==
  ASSUME NEW fs, IsDirectory(fs), NEW t \in DOMAIN fs
  PROVE  Entries(SyncSegment(fs, t)) = Entries(fs)
<1>1. FramesFrom(SyncSegment(fs, t), fs) /\ FramesFrom(fs, SyncSegment(fs, t))
  BY SyncFrames DEF FramesFrom
<1>. QED
  BY <1>1, EntriesSame

-----------------------------------------------------------------------------
(* What each step of the writer does to the entries.                       *)

(* The entries a rollback keeps.                                           *)
Kept ==
  {e \in Entries(files) : NotAfter(e.segment, e.index, rollback.segment, rollback.offset)}

LEMMA RecoverEntries ==
  ASSUME TypeOK, Recover
  PROVE  Entries(files') = Entries(files)
<1>1. PICK active \in Nat \ {0}, start \in Nat, n \in Nat :
        LET opened == EnsureSegment(files, active, start) IN
        /\ IsDirectory(opened) /\ active \in DOMAIN opened
        /\ FrameIndexes(opened[active]) = 1..n
        /\ files' = Truncate(opened, active, n)
  BY RecoverFacts
<1> DEFINE opened == EnsureSegment(files, active, start)
<1>2. Entries(opened) = Entries(files)
  BY EnsureEntries DEF TypeOK
<1>3. /\ IsDirectory(opened) /\ active \in DOMAIN opened
      /\ FrameIndexes(opened[active]) = 1..n
      /\ files' = Truncate(opened, active, n)
  BY <1>1
<1>. HIDE DEF opened
<1>4. Entries(files') = {e \in Entries(opened) : e.segment = active => e.index <= n}
  BY <1>3, TruncateEntries
<1>5. \A e \in Entries(opened) : e.segment = active => e.index <= n
  BY <1>3, EntryPlace
<1>. QED
  BY <1>2, <1>4, <1>5

(* Most steps move no entry, a failed write among them.                    *)
LEMMA SameEntries ==
  ASSUME TypeOK,
         \/ \E r \in Records : AppendRecord(r)
         \/ FlushTick \/ Rotate \/ SyncNext \/ FlushDone
         \/ RotateFails \/ WriteFails \/ SyncFails
         \/ Crash \/ Recover
         \/ UNCHANGED vars
  PROVE  Entries(files') = Entries(files)
<1>1. CASE UNCHANGED files
  BY <1>1
<1>2. CASE Rotate
  BY <1>2, EnsureEntries DEF Rotate, TypeOK
<1>3. CASE SyncNext
  BY <1>3, SyncEntries DEF SyncNext, TypeOK
<1>4. CASE segment \in DOMAIN files /\ files' = AppendCell(files, segment, Torn)
  BY <1>4, AppendTornEntries DEF TypeOK
<1>5. CASE Recover
  BY <1>5, RecoverEntries
<1>. QED
  BY <1>1, <1>2, <1>3, <1>4, <1>5
     DEF AppendRecord, FlushTick, FlushDone, RotateFails, WriteFails, SyncFails, Crash, vars, disk

NewEntry ==
  [segment |-> segment, index |-> offset + 1, lsn |-> NextFrame.lsn, rec |-> NextFrame.rec]

(* A written frame comes after everything in the log and after the point   *)
(* the flush would roll back to.                                           *)
LEMMA WriteFrameEntries ==
  ASSUME TypeOK, EndInv, WriteFrame
  PROVE  /\ Entries(files') = Entries(files) \cup {NewEntry}
         /\ NextFrame \in Buffered
         /\ \A e \in Entries(files) : Before(e, NewEntry)
         /\ ~ NotAfter(segment, offset + 1, rollback.segment, rollback.offset)
<1>1. /\ pc = "write" /\ segment \in DOMAIN files
      /\ files' = AppendCell(files, segment, Frame(NextFrame.lsn, NextFrame.rec))
  BY DEF WriteFrame
<1>2. NextFrame \in Buffered
  BY DEF WriteFrame, NextFrame, TypeOK
<1>3. TailInv /\ RollbackInv /\ \A s \in DOMAIN files : s <= segment
  BY <1>1 DEF EndInv, DownInv
<1>4. /\ OnlyFrames(files[segment], Len(files[segment].cells))
      /\ offset = Len(files[segment].cells)
  BY <1>3 DEF TailInv
<1>5. Entries(files') = Entries(files) \cup {NewEntry}
  <2>1. NextFrame.lsn \in Nat /\ NextFrame.rec \in Records /\ IsDirectory(files)
    BY <1>2 DEF Buffered, TypeOK
  <2>2. Entries(AppendCell(files, segment, Frame(NextFrame.lsn, NextFrame.rec))) =
          Entries(files) \cup {[segment |-> segment, index |-> Len(files[segment].cells) + 1,
                                lsn |-> NextFrame.lsn, rec |-> NextFrame.rec]}
    BY <1>1, <1>4, <2>1, AppendFrameEntries
  <2>. QED
    BY <1>1, <1>4, <2>2 DEF NewEntry
<1>6. ASSUME NEW e \in Entries(files) PROVE Before(e, NewEntry)
  <2>1. e.segment \in DOMAIN files /\ e.index \in FrameIndexes(files[e.segment])
    BY EntryPlace
  <2>2. /\ e.segment \in Nat /\ e.segment <= segment /\ segment \in Nat
        /\ e.index \in Nat /\ e.index <= Len(files[e.segment].cells)
        /\ offset \in Nat
    BY <1>3, <2>1, FrameFacts DEF TypeOK
  <2>3. e.segment = segment => e.index < offset + 1
    BY <1>4, <2>2
  <2>. QED
    BY <2>2, <2>3 DEF Before, NewEntry
<1>7. ~ NotAfter(segment, offset + 1, rollback.segment, rollback.offset)
  <2>1. /\ rollback.segment \in Nat /\ rollback.segment <= segment /\ segment \in Nat
        /\ rollback.offset \in Nat /\ offset \in Nat
        /\ rollback.segment = segment => rollback.offset <= offset
    BY <1>3, <1>4 DEF RollbackInv, TypeOK
  <2>. QED
    BY <2>1 DEF NotAfter
<1>. QED
  BY <1>2, <1>5, <1>6, <1>7

LEMMA UndoTruncateEntries ==
  ASSUME TypeOK, UndoTruncate
  PROVE  /\ Entries(files') \subseteq Entries(files)
         /\ Kept' = Kept
<1>1. /\ rollback.segment \in DOMAIN files /\ rollback.offset \in Nat
      /\ files' = Truncate(files, rollback.segment, rollback.offset)
      /\ rollback' = rollback
  BY DEF UndoTruncate, TypeOK
<1>2. Entries(files') =
        {e \in Entries(files) : e.segment = rollback.segment => e.index <= rollback.offset}
  BY <1>1, TruncateEntries DEF TypeOK
<1>3. \A e \in Entries(files) :
        NotAfter(e.segment, e.index, rollback.segment, rollback.offset) =>
          (e.segment = rollback.segment => e.index <= rollback.offset)
  BY EntryType DEF NotAfter, TypeOK
<1>. QED
  BY <1>1, <1>2, <1>3 DEF Kept

(* The second half of a rollback leaves what the flush found.              *)
LEMMA UndoRemoveEntries ==
  ASSUME TypeOK, EndInv, UndoRemove
  PROVE  Entries(files') = Kept
<1>1. /\ pc = "remove" /\ rollback.segment \in Nat
      /\ files' = WithoutSegments(files, (rollback.segment + 1)..segment)
  BY DEF UndoRemove, TypeOK
<1>2. /\ rollback.offset = Len(files[rollback.segment].cells)
      /\ \A s \in DOMAIN files : s <= segment
  BY <1>1 DEF EndInv, DownInv, RollbackInv
<1>3. Entries(files') = {e \in Entries(files) : e.segment \notin (rollback.segment + 1)..segment}
  BY <1>1, WithoutEntries
<1>4. ASSUME NEW e \in Entries(files)
      PROVE  e.segment \notin (rollback.segment + 1)..segment <=>
               NotAfter(e.segment, e.index, rollback.segment, rollback.offset)
  <2>1. e.segment \in DOMAIN files /\ e.index \in FrameIndexes(files[e.segment])
    BY EntryPlace
  <2>2. /\ e.segment \in Nat /\ e.segment <= segment /\ segment \in Nat
        /\ e.index \in Nat /\ e.index <= Len(files[e.segment].cells)
    BY <1>2, <2>1, FrameFacts DEF TypeOK
  <2>3. e.segment = rollback.segment => e.index <= rollback.offset
    BY <1>2, <2>2
  <2>. QED
    BY <1>1, <2>2, <2>3 DEF NotAfter
<1>. QED
  BY <1>3, <1>4 DEF Kept

LEMMA PowerLossEntries ==
  ASSUME TypeOK, PowerLoss
  PROVE  Entries(files') \subseteq Entries(files)
<1>1. DOMAIN files' = DOMAIN files /\ \A s \in DOMAIN files : files'[s] \in Survivors(files[s])
  BY DEF PowerLoss
<1>2. \A s \in DOMAIN files : files[s] \in Segment
  BY DEF TypeOK, IsDirectory
<1>3. FramesFrom(files', files)
  BY <1>1, <1>2, SurvivorFrames DEF FramesFrom
<1>. QED
  BY <1>3, EntriesFrom

-----------------------------------------------------------------------------
(* The LSNs: what the buffer holds carries on from what the log holds.     *)

KeptLsns == {e.lsn : e \in Kept}

(* m is the last LSN of the set L, 0 if there is none.                     *)
Ends(L, m) == m \in L \cup {0} /\ \A l \in L : l <= m

(* The last LSN written: what the buffer still has to write follows it.    *)
LastWritten == nextLsn + written - Len(buffered) - 1

BufferInv ==
  /\ ~up => buffered = <<>>
  /\ pc = "idle" => written = 0
  /\ pc = "sync" => written = Len(buffered)
  /\ Len(buffered) < nextLsn
  /\ \A k \in 1..Len(buffered) : buffered[k].lsn + Len(buffered) + 1 = nextLsn + k

OrderInv ==
  /\ \A e \in Entries(files) : e.lsn > 0
  /\ \A e, f \in Entries(files) : Before(e, f) => e.lsn < f.lsn

EndsInv ==
  /\ up /\ pc # "remove" => Ends(Lsns(files), LastWritten)
  /\ pc # "idle" => Ends(KeptLsns, nextLsn - Len(buffered) - 1)

LsnInv == BufferInv /\ OrderInv /\ EndsInv

LEMMA BufferType ==
  ASSUME TypeOK
  PROVE  /\ Len(buffered) \in Nat /\ nextLsn \in Nat /\ written \in Nat
         /\ written <= Len(buffered)
         /\ \A k \in 1..Len(buffered) : buffered[k].lsn \in Nat
<1>1. /\ buffered \in Seq(Buffered) /\ nextLsn \in Nat /\ written \in 0..Len(buffered)
  BY DEF TypeOK
<1>2. \A k \in 1..Len(buffered) : buffered[k] \in Buffered
  BY <1>1
<1>3. \A k \in 1..Len(buffered) : buffered[k].lsn \in Nat
  BY <1>2 DEF Buffered
<1>. QED
  BY <1>1, <1>3

LEMMA NextBuffer ==
  ASSUME TypeOK, EndInv, BufferInv, "undo" \notin Faults, [WriterNext]_vars
  PROVE  BufferInv'
<1>1. ASSUME NEW r \in Records, AppendRecord(r) PROVE BufferInv'
  <2> DEFINE new == [lsn |-> nextLsn, rec |-> r]
  <2>1. /\ up /\ pc = "idle" /\ up' = up
        /\ buffered' = Append(buffered, new) /\ nextLsn' = nextLsn + 1
        /\ StartFlush \/ UNCHANGED flushing
    BY <1>1 DEF AppendRecord
  <2>2. new \in Buffered /\ new.lsn = nextLsn
    BY DEF TypeOK, Buffered
  <2>. HIDE DEF new
  <2>3. /\ Len(buffered') = Len(buffered) + 1 /\ Len(buffered) \in Nat /\ nextLsn \in Nat
        /\ \A k \in 1..Len(buffered) : buffered'[k] = buffered[k]
        /\ buffered'[Len(buffered) + 1] = new
    BY <2>1, <2>2 DEF TypeOK
  <2>4. ASSUME NEW k \in 1..Len(buffered')
        PROVE  buffered'[k].lsn + Len(buffered') + 1 = nextLsn' + k
    <3>1. CASE k = Len(buffered) + 1
      BY <2>1, <2>2, <2>3, <3>1
    <3>2. CASE k # Len(buffered) + 1
      <4>1. k \in 1..Len(buffered)
        BY <2>3, <3>2
      <4>2. buffered[k].lsn + Len(buffered) + 1 = nextLsn + k /\ buffered[k].lsn \in Nat
        BY <4>1, BufferType DEF BufferInv
      <4>3. buffered'[k] = buffered[k] /\ nextLsn' = nextLsn + 1
        BY <2>1, <2>3, <4>1
      <4>4. /\ k \in Nat /\ Len(buffered') = Len(buffered) + 1 /\ Len(buffered) \in Nat
            /\ nextLsn \in Nat
        BY <2>3
      <4>5. buffered[k].lsn + (Len(buffered) + 1) + 1 = (nextLsn + 1) + k
        <5>1. \A a, b, c, d \in Nat : a + b + 1 = c + d => a + (b + 1) + 1 = (c + 1) + d
          OBVIOUS
        <5>. QED
          BY <4>2, <4>4, <5>1, Zenon
      <4>. QED
        BY <4>3, <4>4, <4>5, Zenon
    <3>. QED
      BY <3>1, <3>2
  <2>5. Len(buffered') < nextLsn'
    BY <2>1, <2>3 DEF BufferInv
  <2>6. (pc' = "idle" => written' = 0) /\ pc' # "sync"
    BY <2>1 DEF StartFlush, flushing, BufferInv
  <2>. QED
    BY <2>1, <2>4, <2>5, <2>6 DEF BufferInv
<1>2. CASE FlushTick
  BY <1>2 DEF FlushTick, StartFlush, BufferInv
<1>3. CASE UNCHANGED <<buffered, nextLsn, up>> /\ pc' \in {"write", "truncate", "remove"}
  BY <1>3 DEF BufferInv
<1>4. CASE Rotate \/ RotateFails \/ WriteFails \/ SyncFails \/ UndoTruncate
  BY <1>3, <1>4 DEF Rotate, RotateFails, WriteFails, SyncFails, UndoTruncate, flushing
<1>5. CASE WriteFrame \/ SyncNext
  BY <1>5, BufferType DEF WriteFrame, SyncNext, BufferInv
<1>6. ASSUME buffered' = <<>>, written' = 0, pc' = "idle", nextLsn' \in Nat, nextLsn' > 0
      PROVE  BufferInv'
  <2>1. Len(buffered') = 0
    BY <1>6
  <2>. QED
    BY <1>6, <2>1 DEF BufferInv
<1>7. CASE FlushDone \/ Crash \/ PowerLoss
  <2>1. buffered' = <<>> /\ written' = 0 /\ pc' = "idle" /\ nextLsn' = nextLsn
    BY <1>7 DEF FlushDone, Crash, PowerLoss, LoseMemory
  <2>. QED
    BY <1>6, <2>1, BufferType DEF BufferInv
<1>8. CASE UndoRemove
  <2>1. /\ pc' = "idle" /\ written' = 0 /\ up' = up /\ nextLsn' = RolledBackLsn
        /\ buffered' = IF HasWaiters THEN <<>> ELSE buffered
        /\ pc = "remove"
    BY <1>8 DEF UndoRemove
  <2>2. CASE HasWaiters
    <3>1. 1 \in 1..Len(buffered)
      BY <2>1, BufferType DEF TypeOK
    <3>2. nextLsn' = buffered[1].lsn /\ buffered[1].lsn > 0 /\ buffered[1].lsn \in Nat
      BY <2>1, <2>2, <3>1, BufferType DEF BufferInv, RolledBackLsn
    <3>. QED
      BY <1>6, <2>1, <2>2, <3>2
  <2>3. CASE ~HasWaiters
    BY <2>1, <2>3 DEF BufferInv, RolledBackLsn
  <2>. QED
    BY <2>2, <2>3
<1>9. CASE UndoFails
  BY <1>9 DEF UndoFails, EndInv, RollbackInv
<1>10. CASE Recover
  <2>1. /\ buffered' = buffered /\ written' = written /\ pc' = pc /\ ~up /\ pc = "idle"
        /\ \E top \in UsedLsns : nextLsn' = top + 1
    BY <1>10 DEF Recover, flushing, EndInv, DownInv
  <2>2. \A top \in UsedLsns : top \in Nat
    BY EntryType DEF UsedLsns, Lsns, TypeOK, Position
  <2>. QED
    BY <1>6, <2>1, <2>2 DEF BufferInv
<1>11. CASE UNCHANGED vars
  BY <1>11 DEF vars, BufferInv
<1>. QED
  BY <1>1, <1>2, <1>4, <1>5, <1>7, <1>8, <1>9, <1>10, <1>11 DEF WriterNext, FlushStep, Fault

LEMMA NextOrder ==
  ASSUME TypeOK, EndInv, LsnInv, "undo" \notin Faults, [WriterNext]_vars
  PROVE  OrderInv'
<1>1. CASE Entries(files') \subseteq Entries(files)
  BY <1>1 DEF LsnInv, OrderInv
<1>2. CASE WriteFrame
  <2>1. /\ Entries(files') = Entries(files) \cup {NewEntry}
        /\ NextFrame \in Buffered
        /\ \A e \in Entries(files) : Before(e, NewEntry)
    BY <1>2, WriteFrameEntries
  <2>2. up /\ pc = "write" /\ written + 1 \in 1..Len(buffered)
    BY <1>2, BufferType DEF WriteFrame, EndInv, DownInv
  <2>3. NewEntry.lsn = LastWritten + 1 /\ NewEntry.lsn \in Nat /\ NewEntry.lsn > 0
    <3>1. NewEntry.lsn = buffered[written + 1].lsn
      BY DEF NewEntry, NextFrame
    <3>2. /\ buffered[written + 1].lsn + Len(buffered) + 1 = nextLsn + (written + 1)
          /\ Len(buffered) < nextLsn
      BY <2>2 DEF LsnInv, BufferInv
    <3>3. buffered[written + 1].lsn \in Nat
      BY <2>2, BufferType
    <3>. QED
      BY <3>1, <3>2, <3>3, BufferType DEF LastWritten
  <2>4. \A e \in Entries(files) : e.lsn < NewEntry.lsn /\ e.lsn \in Nat
    <3>1. \A e \in Entries(files) : e.lsn \in Lsns(files) /\ e.lsn \in Nat
      BY EntryType DEF Lsns, TypeOK
    <3>2. Ends(Lsns(files), LastWritten)
      BY <2>2 DEF LsnInv, EndsInv
    <3>. QED
      BY <2>3, <3>1, <3>2, BufferType DEF Ends, LastWritten
  <2>5. \A e \in Entries(files) : ~ Before(NewEntry, e)
    BY <2>1, EntryType DEF Before, NewEntry, TypeOK
  <2>6. ~ Before(NewEntry, NewEntry)
    BY DEF Before, NewEntry, TypeOK
  <2>. HIDE DEF NewEntry
  <2>. QED
    BY <2>1, <2>3, <2>4, <2>5, <2>6 DEF LsnInv, OrderInv
<1>3. CASE UndoTruncate
  BY <1>1, <1>3, UndoTruncateEntries
<1>4. CASE UndoRemove
  BY <1>1, <1>4, UndoRemoveEntries DEF Kept
<1>5. CASE PowerLoss
  BY <1>1, <1>5, PowerLossEntries
<1>6. CASE UndoFails
  BY <1>6 DEF UndoFails, EndInv, RollbackInv
<1>. QED
  BY <1>1, <1>2, <1>3, <1>4, <1>5, <1>6, SameEntries DEF WriterNext, FlushStep, Fault

LEMMA LsnFacts ==
  ASSUME TypeOK
  PROVE  /\ \A l \in Lsns(files) : l \in Nat
         /\ \A l \in KeptLsns : l \in Nat
BY EntryType DEF Lsns, KeptLsns, Kept, TypeOK

(* At the start of a flush everything in the log is kept.                  *)
LEMMA StartKept ==
  ASSUME TypeOK, EndInv, up, pc = "idle", StartFlush, UNCHANGED files
  PROVE  Kept' = Entries(files) /\ KeptLsns' = Lsns(files)
<1>1. /\ rollback'.segment = segment /\ rollback'.offset = offset
  BY DEF StartFlush
<1>2. ASSUME NEW e \in Entries(files)
      PROVE  NotAfter(e.segment, e.index, segment, offset)
  <2>1. e.segment \in DOMAIN files /\ e.index \in FrameIndexes(files[e.segment])
    BY EntryPlace
  <2>2. /\ e.segment <= segment /\ e.segment \in Nat /\ segment \in Nat
        /\ e.index <= Len(files[e.segment].cells)
        /\ offset = Len(files[segment].cells)
    BY <2>1, FrameFacts DEF EndInv, TailInv, TypeOK
  <2>. QED
    BY <2>2 DEF NotAfter
<1>3. Kept' = Entries(files)
  BY <1>1, <1>2 DEF Kept
<1>. QED
  BY <1>3 DEF KeptLsns, Lsns

LEMMA KeptStays ==
  ASSUME Entries(files') = Entries(files), UNCHANGED rollback
  PROVE  Lsns(files') = Lsns(files) /\ Kept' = Kept /\ KeptLsns' = KeptLsns
<1>1. Lsns(files') = Lsns(files)
  BY DEF Lsns
<1>2. Kept' = Kept
  BY DEF Kept
<1>. QED
  BY <1>1, <1>2 DEF KeptLsns

LEMMA WriteFrameLsns ==
  ASSUME TypeOK, EndInv, LsnInv, WriteFrame
  PROVE  /\ Lsns(files') = Lsns(files) \cup {LastWritten + 1}
         /\ LastWritten \in Nat /\ Ends(Lsns(files), LastWritten)
         /\ LastWritten' = LastWritten + 1
         /\ KeptLsns' = KeptLsns
<1>1. /\ Entries(files') = Entries(files) \cup {NewEntry}
      /\ ~ NotAfter(segment, offset + 1, rollback.segment, rollback.offset)
  BY WriteFrameEntries
<1>2. /\ up /\ pc = "write" /\ written + 1 \in 1..Len(buffered)
      /\ UNCHANGED <<buffered, nextLsn, rollback>> /\ written' = written + 1
  BY BufferType DEF WriteFrame, EndInv, DownInv
<1>3. NewEntry.lsn = LastWritten + 1
  <2>1. NewEntry.lsn = buffered[written + 1].lsn
    BY DEF NewEntry, NextFrame
  <2>2. /\ buffered[written + 1].lsn + Len(buffered) + 1 = nextLsn + (written + 1)
        /\ buffered[written + 1].lsn \in Nat
    BY <1>2, BufferType DEF LsnInv, BufferInv
  <2>3. \A b, l, n, w \in Nat : b + l + 1 = n + (w + 1) => b = n + w - l - 1 + 1
    OBVIOUS
  <2>4. buffered[written + 1].lsn = nextLsn + written - Len(buffered) - 1 + 1
    <3>1. Len(buffered) \in Nat /\ nextLsn \in Nat /\ written \in Nat
      BY BufferType
    <3>2. \A b \in Nat :
            b + Len(buffered) + 1 = nextLsn + (written + 1) =>
              b = nextLsn + written - Len(buffered) - 1 + 1
      BY <3>1
    <3>. QED
      BY <2>2, <3>2, Zenon
  <2>. QED
    BY <2>1, <2>4, Zenon DEF LastWritten
<1>4. LastWritten \in Nat /\ LastWritten' = LastWritten + 1
  BY <1>2, BufferType DEF LastWritten, LsnInv, BufferInv
<1>5. Lsns(files') = Lsns(files) \cup {LastWritten + 1}
  BY <1>1, <1>3 DEF Lsns
<1>6. Kept' = Kept
  <2>1. ~ NotAfter(NewEntry.segment, NewEntry.index, rollback.segment, rollback.offset)
    BY <1>1 DEF NewEntry
  <2>. HIDE DEF NewEntry
  <2>. QED
    BY <1>1, <1>2, <2>1 DEF Kept
<1>7. Ends(Lsns(files), LastWritten)
  BY <1>2 DEF LsnInv, EndsInv
<1>. QED
  BY <1>4, <1>5, <1>6, <1>7 DEF KeptLsns

LEMMA RecoverLsns ==
  ASSUME TypeOK, EndInv, LsnInv, checkpoint = NoCheckpoint, Recover
  PROVE  /\ Lsns(files') = Lsns(files)
         /\ Ends(Lsns(files), LastWritten')
         /\ pc' = "idle" /\ buffered' = <<>> /\ written' = 0
<1>1. /\ ~up /\ pc = "idle" /\ UNCHANGED <<pc, written, buffered>>
      /\ buffered = <<>> /\ written = 0
  BY DEF Recover, flushing, EndInv, DownInv, LsnInv, BufferInv
<1>2. PICK top \in UsedLsns : (\A l \in UsedLsns : l <= top) /\ nextLsn' = top + 1
  BY DEF Recover
<1>3. UsedLsns = Lsns(files) \cup {0}
  BY DEF UsedLsns, NoCheckpoint
<1>4. LastWritten' = top
  <2>1. Len(buffered') = 0 /\ written' = 0 /\ top \in Nat
    BY <1>1, <1>3, LsnFacts
  <2>. QED
    BY <1>2, <2>1 DEF LastWritten
<1>. QED
  BY <1>1, <1>2, <1>3, <1>4, RecoverEntries DEF Lsns, Ends

LEMMA UndoRemoveLsns ==
  ASSUME TypeOK, EndInv, LsnInv, UndoRemove
  PROVE  /\ Lsns(files') = KeptLsns
         /\ LastWritten' = nextLsn - Len(buffered) - 1
         /\ pc' = "idle"
<1>1. /\ pc = "remove" /\ pc' = "idle" /\ written' = 0 /\ nextLsn' = RolledBackLsn
      /\ buffered' = IF HasWaiters THEN <<>> ELSE buffered
  BY DEF UndoRemove
<1>2. Lsns(files') = KeptLsns
  BY UndoRemoveEntries DEF Lsns, KeptLsns
<1>3. CASE HasWaiters
  <2>1. 1 \in 1..Len(buffered)
    BY <1>1, BufferType DEF TypeOK
  <2>2. nextLsn' = buffered[1].lsn /\ buffered[1].lsn + Len(buffered) + 1 = nextLsn + 1
    BY <1>1, <1>3, <2>1 DEF LsnInv, BufferInv, RolledBackLsn
  <2>3. buffered[1].lsn \in Nat /\ Len(buffered') = 0
    BY <1>1, <1>3, <2>1, BufferType
  <2>. QED
    <3>1. \A b, l, n \in Nat : b + l + 1 = n + 1 => b + 0 - 0 - 1 = n - l - 1
      OBVIOUS
    <3>2. buffered[1].lsn + 0 - 0 - 1 = nextLsn - Len(buffered) - 1
      BY <2>2, <2>3, <3>1, BufferType, Zenon
    <3>. QED
      BY <1>1, <1>2, <2>2, <2>3, <3>2, Zenon DEF LastWritten
<1>4. CASE ~HasWaiters
  BY <1>1, <1>2, <1>4, BufferType DEF LastWritten, RolledBackLsn
<1>. QED
  BY <1>3, <1>4

LEMMA NextEnds ==
  ASSUME TypeOK, EndInv, LsnInv, checkpoint = NoCheckpoint, "undo" \notin Faults,
         [WriterNext]_vars
  PROVE  EndsInv'
<1>1. ASSUME up, pc = "idle", UNCHANGED files, StartFlush \/ UNCHANGED flushing,
             nextLsn' - Len(buffered') = nextLsn - Len(buffered),
             Len(buffered') \in Nat, nextLsn' \in Nat
      PROVE  EndsInv'
  <2>1. Ends(Lsns(files), LastWritten) /\ written = 0 /\ written' = 0
    BY <1>1 DEF LsnInv, EndsInv, BufferInv, StartFlush, flushing
  <2>2. /\ LastWritten = nextLsn - Len(buffered) - 1
        /\ LastWritten' = LastWritten
        /\ nextLsn' - Len(buffered') - 1 = LastWritten
    BY <1>1, <2>1, BufferType DEF LastWritten
  <2>3. Lsns(files') = Lsns(files)
    BY <1>1
  <2>4. CASE StartFlush
    BY <1>1, <2>1, <2>2, <2>3, <2>4, StartKept DEF EndsInv, StartFlush
  <2>5. CASE UNCHANGED flushing
    BY <1>1, <2>1, <2>2, <2>3, <2>5 DEF EndsInv, flushing
  <2>. QED
    BY <1>1, <2>4, <2>5
<1>2. ASSUME NEW r \in Records, AppendRecord(r) PROVE EndsInv'
  <2>1. /\ up /\ pc = "idle" /\ UNCHANGED files
        /\ buffered' = Append(buffered, [lsn |-> nextLsn, rec |-> r]) /\ nextLsn' = nextLsn + 1
        /\ StartFlush \/ UNCHANGED flushing
    BY <1>2 DEF AppendRecord, disk
  <2>2. Len(buffered') = Len(buffered) + 1
    BY <2>1 DEF TypeOK
  <2>. QED
    BY <1>1, <2>1, <2>2, BufferType
<1>3. CASE FlushTick
  BY <1>1, <1>3, BufferType DEF FlushTick, disk
<1>4. ASSUME Entries(files') = Entries(files),
             UNCHANGED <<up, nextLsn, buffered, written, rollback>>,
             pc \in {"write", "sync"}, pc' \in {"write", "sync", "truncate"}
      PROVE  EndsInv'
  BY <1>4, KeptStays DEF LsnInv, EndsInv, LastWritten
<1>5. CASE Rotate \/ RotateFails \/ WriteFails \/ SyncNext \/ SyncFails
  BY <1>4, <1>5, SameEntries
     DEF Rotate, RotateFails, WriteFails, SyncNext, SyncFails, flushing
<1>6. CASE WriteFrame
  <2>1. /\ Lsns(files') = Lsns(files) \cup {LastWritten + 1}
        /\ LastWritten \in Nat /\ Ends(Lsns(files), LastWritten)
        /\ LastWritten' = LastWritten + 1
        /\ KeptLsns' = KeptLsns
    BY <1>6, WriteFrameLsns
  <2>2. UNCHANGED <<up, nextLsn, buffered>> /\ pc = "write"
    BY <1>6 DEF WriteFrame
  <2>3. Ends(Lsns(files'), LastWritten')
    <3>1. \A l \in Lsns(files) : l \in Nat /\ l <= LastWritten
      BY <2>1, LsnFacts DEF Ends
    <3>. QED
      BY <2>1, <3>1 DEF Ends
  <2>. QED
    BY <2>1, <2>2, <2>3 DEF LsnInv, EndsInv
<1>7. CASE FlushDone
  <2>1. /\ pc = "sync" /\ pc' = "idle" /\ buffered' = <<>> /\ written' = 0
        /\ UNCHANGED <<files, up, nextLsn>>
    BY <1>7 DEF FlushDone, disk
  <2>2. up /\ Ends(Lsns(files), LastWritten)
    BY <2>1 DEF LsnInv, EndsInv, EndInv, DownInv
  <2>3. LastWritten' = LastWritten
    <3>1. Len(buffered') = 0
      BY <2>1
    <3>. QED
      BY <2>1, <3>1, BufferType DEF LsnInv, BufferInv, LastWritten
  <2>. QED
    BY <2>1, <2>2, <2>3 DEF EndsInv
<1>8. CASE UndoTruncate
  <2>1. /\ pc = "truncate" /\ pc' = "remove" /\ UNCHANGED <<nextLsn, buffered>>
    BY <1>8 DEF UndoTruncate
  <2>2. KeptLsns' = KeptLsns
    BY <1>8, UndoTruncateEntries DEF KeptLsns
  <2>. QED
    BY <2>1, <2>2 DEF LsnInv, EndsInv
<1>9. CASE UndoRemove
  <2>1. Ends(KeptLsns, nextLsn - Len(buffered) - 1)
    BY <1>9 DEF UndoRemove, LsnInv, EndsInv
  <2>. QED
    BY <1>9, <2>1, UndoRemoveLsns DEF EndsInv
<1>10. CASE UndoFails
  BY <1>10 DEF UndoFails, EndInv, RollbackInv
<1>11. CASE Crash \/ PowerLoss
  BY <1>11 DEF Crash, PowerLoss, LoseMemory, EndsInv
<1>12. CASE Recover
  BY <1>12, RecoverLsns DEF EndsInv
<1>13. CASE UNCHANGED vars
  <2>1. UNCHANGED <<up, pc, files, nextLsn, buffered, written, rollback>>
    BY <1>13 DEF vars
  <2>. QED
    BY <2>1, KeptStays DEF LsnInv, EndsInv, LastWritten
<1>. QED
  BY <1>2, <1>3, <1>5, <1>6, <1>7, <1>8, <1>9, <1>10, <1>11, <1>12, <1>13
     DEF WriterNext, FlushStep, Fault

LEMMA InitEntries ==
  ASSUME Init
  PROVE  Entries(files) = {} /\ Lsns(files) = {}
<1>1. FrameIndexes(EmptySegment(1)) = {}
  BY DEF FrameIndexes, EmptySegment
<1>2. \A s \in DOMAIN files : FrameIndexes(files[s]) = {}
  BY <1>1 DEF Init
<1>3. Entries(files) = {}
  BY <1>2, EntryPlace
<1>. QED
  BY <1>3 DEF Lsns

LEMMA InitLsn == Init => LsnInv
<1>. SUFFICES ASSUME Init PROVE LsnInv
  OBVIOUS
<1>1. Len(buffered) = 0 /\ nextLsn = 1 /\ written = 0 /\ pc = "idle" /\ up
  BY DEF Init
<1>2. LastWritten = 0
  BY <1>1 DEF LastWritten
<1>. QED
  BY <1>1, <1>2, InitEntries DEF LsnInv, BufferInv, OrderInv, EndsInv, Ends

LEMMA NextLsnInv ==
  ASSUME "undo" \notin Faults, TypeOK, DurabilityInv, LsnInv, [WriterNext]_vars
  PROVE  LsnInv'
<1>1. EndInv /\ checkpoint = NoCheckpoint
  BY DEF DurabilityInv
<1>. QED
  BY <1>1, NextBuffer, NextOrder, NextEnds DEF LsnInv

LEMMA LsnCorrect ==
  ASSUME "undo" \notin Faults
  PROVE  WriterSpec => [](TypeOK /\ DurabilityInv /\ LsnInv)
<1>1. Init => LsnInv
  BY InitLsn
<1>2. TypeOK /\ DurabilityInv /\ LsnInv /\ [WriterNext]_vars => LsnInv'
  BY NextLsnInv
<1>3. WriterSpec => [](TypeOK /\ DurabilityInv)
  BY DurabilityCorrect
<1>. QED
  BY <1>1, <1>2, <1>3, PTL DEF WriterSpec

LEMMA LsnImplied == TypeOK /\ DurabilityInv /\ LsnInv => BufferFollowsLog
<1>. SUFFICES ASSUME TypeOK, DurabilityInv, LsnInv, Idle PROVE BufferFollowsLog
  BY DEF BufferFollowsLog
<1>1. Ends(Lsns(files), LastWritten) /\ written = 0
  BY DEF LsnInv, EndsInv, BufferInv, Idle
<1> DEFINE used == Lsns(files) \cup {checkpoint.lsn}
<1>2. used = Lsns(files) \cup {0}
  BY DEF DurabilityInv, NoCheckpoint
<1>3. LastWritten + Len(buffered) + 1 = nextLsn /\ LastWritten \in Nat
  BY <1>1, BufferType DEF LastWritten, LsnInv, BufferInv
<1>4. \A l \in used : l \in Nat /\ l <= LastWritten
  BY <1>1, <1>2, <1>3, LsnFacts DEF Ends
<1>5. \A l \in used : l + Len(buffered) < nextLsn
  BY <1>3, <1>4, BufferType
<1>6. LastWritten \in used
  BY <1>1, <1>2 DEF Ends
<1>7. \A i \in 1..Len(buffered) : buffered[i].lsn + Len(buffered) + 1 = nextLsn + i
  BY DEF LsnInv, BufferInv
<1>. QED
  BY <1>3, <1>5, <1>6, <1>7 DEF BufferFollowsLog

(* Between flushes no LSN is skipped or given out twice: the buffer's LSNs *)
(* follow one another and the last of the log, and the next one follows    *)
(* them, whatever write or sync failed, was rolled back or was lost in a   *)
(* crash or power failure (append, rollback_next_lsn, recover_next_lsn).   *)
THEOREM LsnsCarryOn == ASSUME "undo" \notin Faults PROVE WriterSpec => []BufferFollowsLog
<1>1. WriterSpec => [](TypeOK /\ DurabilityInv /\ LsnInv)
  BY LsnCorrect
<1>. QED
  BY <1>1, LsnImplied, PTL

-----------------------------------------------------------------------------
(* Refused records.                                                        *)

RefusedInv ==
  ~NoSync =>
    /\ delivered = {}
    /\ \A e \in Entries(files) : reply[e.rec] # "err"
    /\ pc # "idle" => \A e \in Kept : reply[e.rec] # "pending"

(* Of the sender of a frame: it has been heard, and where no flush is      *)
(* under way it has been answered.                                         *)
LEMMA EntrySender ==
  ASSUME TypeOK, AckInv, ~NoSync, NEW e \in Entries(files)
  PROVE  /\ e.rec \in Records
         /\ reply[e.rec] # "none"
         /\ pc = "idle" => reply[e.rec] # "pending"
<1>1. /\ e.segment \in DOMAIN files /\ e.index \in FrameIndexes(files[e.segment])
      /\ e.rec = files[e.segment].cells[e.index].rec
  BY EntryPlace DEF EntryAt
<1>2. FrameInv(e.segment, e.index, e.rec)
  BY <1>1 DEF AckInv, FramesInv
<1>. QED
  BY <1>2, EntryType DEF FrameInv, TypeOK

LEMMA DeliveredStays == [WriterNext]_vars => delivered' = delivered
<1>. SUFFICES ASSUME [WriterNext]_vars PROVE delivered' = delivered
  OBVIOUS
<1>1. ASSUME NEW r \in Records, AppendRecord(r) PROVE delivered' = delivered
  BY <1>1 DEF AppendRecord
<1>2. CASE FlushTick \/ Recover \/ UNCHANGED vars
  BY <1>2 DEF FlushTick, Recover, vars
<1>3. CASE FlushStep
  BY <1>3 DEF FlushStep, Rotate, WriteFrame, SyncNext, FlushDone, UndoTruncate, UndoRemove
<1>4. CASE Fault
  BY <1>4 DEF Fault, RotateFails, WriteFails, SyncFails, UndoFails, Crash, PowerLoss
<1>. QED
  BY <1>1, <1>2, <1>3, <1>4 DEF WriterNext

LEMMA NextRefused ==
  ASSUME "undo" \notin Faults, ~NoSync, TypeOK, DurabilityInv, RefusedInv, [WriterNext]_vars
  PROVE  RefusedInv'
<1>1. AckInv /\ EndInv /\ PendingInv /\ DownInv
  BY DEF DurabilityInv, AckInv
<1>2. delivered' = {} /\ \A e \in Entries(files) : reply[e.rec] # "err"
  BY DeliveredStays DEF RefusedInv
<1>3. ASSUME Entries(files') = Entries(files), UNCHANGED <<reply, rollback>>,
             pc' # "idle" => pc # "idle"
      PROVE  RefusedInv'
  BY <1>2, <1>3, KeptStays DEF RefusedInv
<1>4. ASSUME pc' = "idle", Entries(files') \subseteq Entries(files),
             \A e \in Entries(files') : e.rec \in Records /\ reply'[e.rec] # "err"
      PROVE  RefusedInv'
  BY <1>2, <1>4 DEF RefusedInv
<1>5. ASSUME NEW r \in Records, AppendRecord(r) PROVE RefusedInv'
  <2>1. /\ pc = "idle" /\ reply[r] = "none" /\ reply' = [reply EXCEPT ![r] = "pending"]
        /\ UNCHANGED files
    BY <1>5 DEF AppendRecord, disk
  <2>2. \A e \in Entries(files) : reply'[e.rec] = reply[e.rec]
    BY <1>1, <2>1, EntrySender DEF TypeOK
  <2>3. \A e \in Entries(files) : reply'[e.rec] \notin {"err", "pending"}
    BY <1>1, <1>2, <2>1, <2>2, EntrySender
  <2>4. \A e \in Kept' : e \in Entries(files)
    BY <2>1 DEF Kept
  <2>. QED
    BY <1>2, <2>1, <2>3, <2>4 DEF RefusedInv
<1>6. CASE FlushTick
  <2>1. pc = "idle" /\ UNCHANGED <<files, reply>>
    BY <1>6 DEF FlushTick, disk
  <2>2. \A e \in Kept' : e \in Entries(files)
    BY <2>1 DEF Kept
  <2>. QED
    BY <1>1, <1>2, <2>1, <2>2, EntrySender DEF RefusedInv
<1>7. CASE Rotate \/ SyncNext \/ RotateFails \/ WriteFails \/ SyncFails
  BY <1>3, <1>7, SameEntries
     DEF Rotate, SyncNext, RotateFails, WriteFails, SyncFails, flushing
<1>8. CASE WriteFrame
  <2>1. Entries(files') = Entries(files) \cup {NewEntry} /\ NextFrame \in Buffered
    BY <1>1, <1>8, WriteFrameEntries
  <2>2. ~ NotAfter(NewEntry.segment, NewEntry.index, rollback.segment, rollback.offset)
    BY <1>1, <1>8, WriteFrameEntries DEF NewEntry
  <2>3. reply[NewEntry.rec] = "pending"
    <3>1. written + 1 \in 1..Len(buffered)
      BY <1>8, BufferType DEF WriteFrame
    <3>2. NewEntry.rec = buffered[written + 1].rec /\ NewEntry.rec \in Records
      BY <2>1 DEF NewEntry, NextFrame, Buffered
    <3>. QED
      BY <1>1, <3>1, <3>2 DEF PendingInv
  <2>4. UNCHANGED <<reply, rollback>> /\ pc = "write"
    BY <1>8 DEF WriteFrame
  <2>. HIDE DEF NewEntry
  <2>5. Kept' = Kept
    BY <2>1, <2>2, <2>4 DEF Kept
  <2>. QED
    BY <1>2, <2>1, <2>3, <2>4, <2>5 DEF RefusedInv
<1>9. CASE FlushDone
  <2>1. Answer("ok") /\ buffered' = <<>> /\ pc' = "idle"
    BY <1>9 DEF FlushDone
  <2>2. \A q \in Records : reply'[q] = IF reply[q] = "pending" THEN "ok" ELSE reply[q]
    BY <1>1, <2>1, AnswerAll
  <2>3. Entries(files') = Entries(files)
    BY <1>9, SameEntries
  <2>. QED
    BY <1>1, <1>2, <1>4, <2>1, <2>2, <2>3, EntrySender
<1>10. CASE UndoTruncate
  <2>1. Entries(files') \subseteq Entries(files) /\ Kept' = Kept
    BY <1>10, UndoTruncateEntries
  <2>. QED
    BY <1>2, <1>10, <2>1 DEF UndoTruncate, RefusedInv
<1>11. CASE UndoRemove
  <2>1. Answer("err") /\ buffered' = <<>> /\ pc = "remove" /\ pc' = "idle"
    BY <1>11 DEF UndoRemove, HasWaiters
  <2>2. \A q \in Records : reply'[q] = IF reply[q] = "pending" THEN "err" ELSE reply[q]
    BY <1>1, <2>1, AnswerAll
  <2>3. Entries(files') = Kept /\ Kept \subseteq Entries(files)
    BY <1>1, <1>11, UndoRemoveEntries DEF Kept
  <2>4. \A e \in Kept : reply[e.rec] # "pending" /\ e.rec \in Records
    BY <1>1, <2>1, <2>3, EntrySender DEF RefusedInv
  <2>. QED
    BY <1>2, <1>4, <2>1, <2>2, <2>3, <2>4
<1>12. CASE UndoFails
  BY <1>1, <1>12 DEF UndoFails, EndInv, RollbackInv
<1>13. CASE Crash \/ PowerLoss
  <2>1. LoseMemory /\ pc' = "idle"
    BY <1>13 DEF Crash, PowerLoss, LoseMemory
  <2>2. \A q \in Records : reply'[q] = IF reply[q] = "pending" THEN "lost" ELSE reply[q]
    BY <2>1 DEF LoseMemory
  <2>3. Entries(files') \subseteq Entries(files)
    BY <1>13, SameEntries, PowerLossEntries
  <2>. QED
    BY <1>1, <1>2, <1>4, <2>1, <2>2, <2>3, EntrySender
<1>14. CASE Recover
  BY <1>1, <1>3, <1>14, SameEntries DEF Recover, flushing
<1>15. CASE UNCHANGED vars
  BY <1>3, <1>15, SameEntries DEF vars
<1>. QED
  BY <1>5, <1>6, <1>7, <1>8, <1>9, <1>10, <1>11, <1>12, <1>13, <1>14, <1>15
     DEF WriterNext, FlushStep, Fault

(* While replay makes no progress and no rollback fails, a record whose    *)
(* sender was refused is nowhere in the log, so a second attempt does not  *)
(* make it come out twice (flush_buffer_locked, truncate_after).           *)
THEOREM RefusedIsGone == ASSUME "undo" \notin Faults PROVE WriterSpec => []RefusedNotLogged
<1>1. WriterSpec => [](TypeOK /\ DurabilityInv)
  BY DurabilityCorrect
<1>2. Init => RefusedInv
  BY InitEntries DEF Init, RefusedInv, Kept
<1>3. TypeOK /\ DurabilityInv /\ RefusedInv /\ [WriterNext]_vars => RefusedInv'
  BY NextRefused DEF RefusedInv
<1>4. RefusedInv => RefusedNotLogged
  BY DEF RefusedInv, RefusedNotLogged
<1>. QED
  BY <1>1, <1>2, <1>3, <1>4, PTL DEF WriterSpec

-----------------------------------------------------------------------------
(* No hole, while no rollback is cut in two.                               *)

NoHole(L) == \A l \in L : 1..l \subseteq L

GapInv ==
  PowerKept =>
    /\ pc # "remove" => NoHole(Lsns(files))
    /\ pc # "idle" => NoHole(KeptLsns)

LEMMA CrashCount ==
  ASSUME TypeOK, [WriterNext]_vars
  PROVE  /\ crashes \in Nat /\ crashes' \in {crashes, crashes + 1}
         /\ ~Crash /\ ~PowerLoss => crashes' = crashes
<1>. crashes \in Nat
  BY DEF TypeOK
<1>1. ASSUME NEW r \in Records, AppendRecord(r) PROVE crashes' = crashes
  BY <1>1 DEF AppendRecord
<1>2. CASE FlushTick \/ Recover \/ UNCHANGED vars
  BY <1>2 DEF FlushTick, Recover, vars
<1>3. CASE FlushStep
  BY <1>3 DEF FlushStep, Rotate, WriteFrame, SyncNext, FlushDone, UndoTruncate, UndoRemove
<1>4. CASE RotateFails \/ WriteFails \/ SyncFails \/ UndoFails
  BY <1>4 DEF RotateFails, WriteFails, SyncFails, UndoFails
<1>5. CASE Crash \/ PowerLoss
  BY <1>5 DEF Crash, PowerLoss, LoseMemory
<1>. QED
  BY <1>1, <1>2, <1>3, <1>4, <1>5 DEF WriterNext, Fault

LEMMA PowerKeptBefore ==
  ASSUME TypeOK, [WriterNext]_vars
  PROVE  /\ PowerKept' => PowerKept
         /\ PowerLoss => ~PowerKept'
<1>1. PowerKept' => PowerKept
  BY CrashCount DEF PowerKept
<1>2. PowerLoss => ~PowerKept'
  <2>1. crashes \in Nat
    BY CrashCount
  <2>. QED
    BY <2>1 DEF PowerKept, PowerLoss, LoseMemory
<1>. QED
  BY <1>1, <1>2

LEMMA NextGap ==
  ASSUME "undo" \notin Faults, TypeOK, DurabilityInv, LsnInv, GapInv,
         [WriterNext /\ WholeRollback]_vars
  PROVE  GapInv'
<1>. SUFFICES ASSUME PowerKept' PROVE GapInv'
  BY DEF GapInv
<1>1. /\ PowerKept /\ ~PowerLoss
      /\ pc # "remove" => NoHole(Lsns(files))
      /\ pc # "idle" => NoHole(KeptLsns)
  BY PowerKeptBefore DEF GapInv
<1>2. EndInv /\ DownInv /\ checkpoint = NoCheckpoint
  BY DEF DurabilityInv, EndInv
<1>3. ASSUME up, pc = "idle", UNCHANGED files, StartFlush \/ UNCHANGED flushing
      PROVE  GapInv'
  <2>1. Lsns(files') = Lsns(files) /\ NoHole(Lsns(files))
    BY <1>1, <1>3
  <2>2. CASE StartFlush
    BY <1>2, <1>3, <2>1, <2>2, StartKept DEF GapInv
  <2>3. CASE UNCHANGED flushing
    BY <1>3, <2>1, <2>3 DEF GapInv, flushing
  <2>. QED
    BY <1>3, <2>2, <2>3
<1>4. ASSUME NEW r \in Records, AppendRecord(r) PROVE GapInv'
  BY <1>3, <1>4 DEF AppendRecord, disk
<1>5. CASE FlushTick
  BY <1>3, <1>5 DEF FlushTick, disk
<1>6. ASSUME Entries(files') = Entries(files), UNCHANGED rollback,
             pc # "remove", pc' # "idle" => pc # "idle"
      PROVE  GapInv'
  BY <1>1, <1>6, KeptStays DEF GapInv
<1>7. CASE Rotate \/ SyncNext \/ FlushDone \/ RotateFails \/ WriteFails \/ SyncFails
  BY <1>6, <1>7, SameEntries
     DEF Rotate, SyncNext, FlushDone, RotateFails, WriteFails, SyncFails, flushing
<1>8. CASE WriteFrame
  <2>1. /\ Lsns(files') = Lsns(files) \cup {LastWritten + 1}
        /\ LastWritten \in Nat /\ Ends(Lsns(files), LastWritten)
        /\ KeptLsns' = KeptLsns
    BY <1>2, <1>8, WriteFrameLsns
  <2>2. pc = "write" /\ NoHole(Lsns(files)) /\ NoHole(KeptLsns)
    BY <1>1, <1>8 DEF WriteFrame
  <2>3. 1..LastWritten \subseteq Lsns(files)
    BY <2>1, <2>2 DEF Ends, NoHole
  <2>4. 1..(LastWritten + 1) \subseteq Lsns(files')
    BY <2>1, <2>3
  <2>5. NoHole(Lsns(files'))
    BY <2>1, <2>2, <2>4 DEF NoHole
  <2>. QED
    BY <2>1, <2>2, <2>5 DEF GapInv
<1>9. CASE UndoTruncate
  <2>1. KeptLsns' = KeptLsns /\ pc = "truncate" /\ pc' = "remove"
    BY <1>9, UndoTruncateEntries DEF KeptLsns, UndoTruncate
  <2>. QED
    BY <1>1, <2>1 DEF GapInv
<1>10. CASE UndoRemove
  <2>1. pc = "remove" /\ pc' = "idle" /\ Lsns(files') = KeptLsns
    BY <1>2, <1>10, UndoRemoveLsns DEF UndoRemove
  <2>. QED
    BY <1>1, <2>1 DEF GapInv
<1>11. CASE UndoFails
  BY <1>2, <1>11 DEF UndoFails, EndInv, RollbackInv
<1>12. CASE Crash /\ WholeRollback
  <2>1. pc # "remove" /\ pc' = "idle" /\ UNCHANGED rollback
    BY <1>12 DEF WholeRollback, Crash, LoseMemory
  <2>. QED
    BY <1>6, <1>12, <2>1, SameEntries
<1>13. CASE Recover
  <2>1. pc = "idle" /\ UNCHANGED <<pc, rollback>>
    BY <1>2, <1>13 DEF DownInv, Recover, flushing
  <2>. QED
    BY <1>6, <1>13, <2>1, SameEntries
<1>14. CASE UNCHANGED vars
  <2>1. UNCHANGED <<pc, rollback, files>>
    BY <1>14 DEF vars
  <2>2. Lsns(files') = Lsns(files) /\ KeptLsns' = KeptLsns
    BY <2>1, KeptStays
  <2>. QED
    BY <1>1, <2>1, <2>2 DEF GapInv
<1>. QED
  BY <1>1, <1>4, <1>5, <1>7, <1>8, <1>9, <1>10, <1>11, <1>12, <1>13, <1>14
     DEF WriterNext, FlushStep, Fault

LEMMA NoCheckpointReadsAll ==
  ASSUME TypeOK, checkpoint = NoCheckpoint
  PROVE  /\ ReplayStart(files, checkpoint) = NoCheckpoint
         /\ EntriesAfter(files, NoCheckpoint) = Entries(files)
<1>1. ReplayStart(files, checkpoint) = NoCheckpoint
  BY DEF ReplayStart
<1>2. \A e \in Entries(files) : e.segment > NoCheckpoint.segment
  BY EntryType DEF NoCheckpoint, TypeOK
<1>. QED
  BY <1>1, <1>2 DEF EntriesAfter

LEMMA GapImplied == TypeOK /\ DurabilityInv /\ LsnInv /\ GapInv => LogHasNoGap
<1>. SUFFICES ASSUME TypeOK, DurabilityInv, LsnInv, GapInv PROVE LogHasNoGap
  OBVIOUS
<1>. SUFFICES ASSUME PowerKept, pc # "remove",
                     NEW e \in Entries(files), NEW f \in Entries(files)
              PROVE  /\ Before(e, f) => e.lsn < f.lsn
                     /\ \A n \in e.lsn..f.lsn : \E g \in Entries(files) : g.lsn = n
  <2>1. checkpoint = NoCheckpoint
    BY DEF DurabilityInv
  <2>. QED
    BY <2>1, NoCheckpointReadsAll DEF LogHasNoGap
<1>1. Before(e, f) => e.lsn < f.lsn
  BY DEF LsnInv, OrderInv
<1>2. e.lsn > 0 /\ e.lsn \in Nat /\ f.lsn \in Nat /\ f.lsn \in Lsns(files)
  BY EntryType DEF LsnInv, OrderInv, TypeOK, Lsns
<1>3. 1..f.lsn \subseteq Lsns(files)
  BY <1>2 DEF GapInv, NoHole
<1>4. \A n \in e.lsn..f.lsn : n \in Lsns(files)
  BY <1>2, <1>3
<1>. QED
  BY <1>1, <1>4 DEF Lsns

LEMMA RollbackSpecRefines == RollbackSpec => WriterSpec
<1>1. [WriterNext /\ WholeRollback]_vars => [WriterNext]_vars
  OBVIOUS
<1>. QED
  BY <1>1, PTL DEF RollbackSpec, WriterSpec

(* Without a power failure, a failing rollback or a crash between the two  *)
(* halves of a rollback, the log replay reads is one unbroken run of LSNs  *)
(* in reading order: replay never stops at a missing one.                  *)
THEOREM LogIsUnbroken == ASSUME "undo" \notin Faults PROVE RollbackSpec => []LogHasNoGap
<1>1. RollbackSpec => [](TypeOK /\ DurabilityInv /\ LsnInv)
  BY LsnCorrect, RollbackSpecRefines
<1>2. Init => GapInv
  BY InitEntries DEF GapInv, NoHole, Init
<1>3. TypeOK /\ DurabilityInv /\ LsnInv /\ GapInv /\ [WriterNext /\ WholeRollback]_vars => GapInv'
  BY NextGap
<1>. QED
  BY <1>1, <1>2, <1>3, GapImplied, PTL DEF RollbackSpec

-----------------------------------------------------------------------------
(* The log can be read.                                                    *)

CleanInv == \A s \in DOMAIN files : ~BadCell(files[s])

(* The header of a segment without frames names the LSN of the first one   *)
(* that will be written to it.                                             *)
BareSegment(s) == files[s].cells # <<>> /\ FrameIndexes(files[s]) = {}

StartInv ==
  /\ \A s \in DOMAIN files : ~StartMismatch(files[s])
  /\ up /\ pc \in {"idle", "write", "sync"} /\ offset = 0 =>
       files[segment].start = LastWritten + 1
  /\ pc # "idle" /\ rollback.offset = 0 =>
       files[rollback.segment].start = nextLsn - Len(buffered)
  /\ pc # "remove" =>
       \A s \in DOMAIN files : (\A t \in DOMAIN files : t <= s) /\ BareSegment(s) =>
         files[s].start > 0 /\ Ends(Lsns(files), files[s].start - 1)

ReadInv == CleanInv /\ (PowerKept => StartInv)

(* Cells that are all frames, but for a piece of one at the end, scan.     *)
LEMMA CleanCells ==
  ASSUME NEW f, NEW n \in Nat, Len(f.cells) \in Nat, Len(f.cells) <= n + 1,
         \A j \in 1..n : j <= Len(f.cells) => f.cells[j].kind = "frame",
         Len(f.cells) = n + 1 => f.cells[n + 1].kind \in {"frame", "torn"}
  PROVE  ~BadCell(f)
<1>1. \A j \in 1..Len(f.cells) : j \in 1..n \/ (j = n + 1 /\ Len(f.cells) = n + 1)
  OBVIOUS
<1>. QED
  BY <1>1 DEF BadCell

LEMMA OnlyFramesClean ==
  ASSUME NEW f, Len(f.cells) \in Nat, OnlyFrames(f, Len(f.cells))
  PROVE  ~BadCell(f)
BY DEF BadCell, OnlyFrames

LEMMA DirectoryCells ==
  ASSUME NEW fs, IsDirectory(fs), NEW s \in DOMAIN fs
  PROVE  /\ fs[s].cells \in Seq(Cell) /\ Len(fs[s].cells) \in Nat
         /\ fs[s].start \in Nat /\ fs[s].synced \in Nat
         /\ fs[s].synced <= Len(fs[s].cells)
         /\ s \in Nat \ {0}
BY DEF IsDirectory, Segment

LEMMA AppendClean ==
  ASSUME NEW fs, IsDirectory(fs), NEW t \in DOMAIN fs, NEW cell \in Cell,
         cell.kind \in {"frame", "torn"},
         OnlyFrames(fs[t], Len(fs[t].cells)),
         \A s \in DOMAIN fs : ~BadCell(fs[s])
  PROVE  \A s \in DOMAIN AppendCell(fs, t, cell) : ~BadCell(AppendCell(fs, t, cell)[s])
<1> DEFINE gs == AppendCell(fs, t, cell)
           n == Len(fs[t].cells)
<1>1. /\ DOMAIN gs = DOMAIN fs /\ Len(gs[t].cells) = n + 1 /\ gs[t].cells[n + 1] = cell
      /\ \A j \in 1..n : gs[t].cells[j] = fs[t].cells[j]
      /\ \A s \in DOMAIN fs : s # t => gs[s] = fs[s]
  BY AppendCells
<1>2. n \in Nat /\ \A j \in 1..n : fs[t].cells[j].kind = "frame"
  BY DirectoryCells DEF OnlyFrames
<1>. HIDE DEF gs, n
<1>3. ~BadCell(gs[t])
  BY <1>1, <1>2, CleanCells
<1>4. \A s \in DOMAIN gs : ~BadCell(gs[s])
  BY <1>1, <1>3
<1>. QED
  BY <1>4 DEF gs

LEMMA TruncateClean ==
  ASSUME NEW fs, IsDirectory(fs), NEW t \in DOMAIN fs, NEW n \in Nat,
         n <= Len(fs[t].cells), OnlyFrames(fs[t], n),
         \A s \in DOMAIN fs : ~BadCell(fs[s])
  PROVE  \A s \in DOMAIN Truncate(fs, t, n) : ~BadCell(Truncate(fs, t, n)[s])
<1> DEFINE gs == Truncate(fs, t, n)
           cut == SetLen(fs[t].cells, n)
<1>1. DOMAIN gs = DOMAIN fs /\ \A s \in DOMAIN fs : s # t => gs[s] = fs[s]
  BY TruncateFrames
<1>2. gs[t].cells = cut
  BY DEF Truncate, IsDirectory
<1>3. Len(cut) = n /\ \A j \in 1..n : cut[j].kind = "frame"
  <2>1. \A j \in 1..n : j <= Len(fs[t].cells)
    BY DirectoryCells
  <2>. QED
    BY <2>1, DirectoryCells, SetLenType, SetLenCells DEF OnlyFrames
<1>. HIDE DEF gs, cut
<1>4. ~BadCell(gs[t])
  BY <1>2, <1>3, OnlyFramesClean DEF OnlyFrames
<1>5. \A s \in DOMAIN gs : ~BadCell(gs[s])
  BY <1>1, <1>4
<1>. QED
  BY <1>5 DEF gs

LEMMA EnsureClean ==
  ASSUME NEW fs, NEW t, NEW start, \A s \in DOMAIN fs : ~BadCell(fs[s])
  PROVE  \A s \in DOMAIN EnsureSegment(fs, t, start) : ~BadCell(EnsureSegment(fs, t, start)[s])
<1>1. ~BadCell(EmptySegment(start))
  BY DEF BadCell, EmptySegment
<1>. QED
  BY <1>1 DEF EnsureSegment, WithSegment

LEMMA SurvivorClean ==
  ASSUME NEW f \in Segment, NEW g \in Survivors(f), ~BadCell(f)
  PROVE  ~BadCell(g)
<1>1. CASE g = [start |-> f.start, cells |-> f.cells, synced |-> Len(f.cells)]
  BY <1>1 DEF BadCell
<1>2. ASSUME NEW n \in f.synced..(Len(f.cells) - 1), NEW tail \in {<<>>, <<Torn>>},
             g = [start |-> f.start, cells |-> SubSeq(f.cells, 1, n) \o tail,
                  synced |-> n + Len(tail)]
      PROVE  ~BadCell(g)
  <2>1. /\ n \in Nat /\ n < Len(f.cells) /\ f.cells \in Seq(Cell) /\ Len(f.cells) \in Nat
    BY DEF Segment
  <2>2. \A j \in 1..n : f.cells[j].kind = "frame"
    BY <2>1 DEF BadCell
  <2>3. /\ SubSeq(f.cells, 1, n) \in Seq(Cell) /\ Len(SubSeq(f.cells, 1, n)) = n
        /\ \A j \in 1..n : SubSeq(f.cells, 1, n)[j] = f.cells[j]
    BY <2>1
  <2>4. CASE tail = <<>>
    <3>1. Len(g.cells) = n /\ \A j \in 1..n : g.cells[j] = f.cells[j]
      BY <1>2, <2>1, <2>3, <2>4
    <3>2. OnlyFrames(g, Len(g.cells)) /\ Len(g.cells) \in Nat
      BY <2>1, <2>2, <3>1 DEF OnlyFrames
    <3>. QED
      BY <3>2, OnlyFramesClean
  <2>5. CASE tail = <<Torn>>
    <3>1. /\ Len(g.cells) = n + 1 /\ g.cells[n + 1] = Torn
          /\ \A j \in 1..n : g.cells[j] = f.cells[j]
      <4> DEFINE kept == SubSeq(f.cells, 1, n)
      <4>1. g.cells = kept \o <<Torn>>
        BY <1>2, <2>5
      <4>2. kept \in Seq(Cell) /\ Len(kept) = n /\ \A j \in 1..n : kept[j] = f.cells[j]
        BY <2>3
      <4>3. <<Torn>> \in Seq({Torn}) /\ Len(<<Torn>>) = 1 /\ <<Torn>>[1] = Torn
        OBVIOUS
      <4>. HIDE DEF kept
      <4>4. kept \in Seq(Cell \cup {Torn}) /\ <<Torn>> \in Seq(Cell \cup {Torn})
        BY <4>2
      <4>5. /\ Len(kept \o <<Torn>>) = n + 1
            /\ \A j \in 1..n : (kept \o <<Torn>>)[j] = kept[j]
            /\ (kept \o <<Torn>>)[n + 1] = Torn
        BY <2>1, <4>2, <4>3, <4>4
      <4>. QED
        BY <4>1, <4>2, <4>5
    <3>2. g.cells[n + 1].kind = "torn"
      BY <3>1 DEF Torn
    <3>3. \A j \in 1..n : g.cells[j].kind = "frame"
      BY <2>2, <3>1
    <3>4. Len(g.cells) \in Nat /\ Len(g.cells) <= n + 1 /\ n \in Nat
      BY <2>1, <3>1
    <3>. QED
      BY <3>2, <3>3, <3>4, CleanCells
  <2>. QED
    BY <2>4, <2>5
<1>. QED
  BY <1>1, <1>2 DEF Survivors

(* What recovery finds and leaves.                                         *)
LEMMA RecoverOpened ==
  ASSUME TypeOK, EndInv, checkpoint = NoCheckpoint, Recover
  PROVE  \E active \in Nat \ {0}, top \in Nat, n \in Nat :
           LET opened == EnsureSegment(files, active, top + 1) IN
           /\ \A s \in DOMAIN files : s <= active
           /\ Ends(Lsns(files), top)
           /\ IsDirectory(opened) /\ active \in DOMAIN opened
           /\ FrameIndexes(opened[active]) = 1..n
           /\ n <= Len(opened[active].cells) /\ OnlyFrames(opened[active], n)
           /\ files' = Truncate(opened, active, n)
           /\ segment' = active /\ offset' = n /\ nextLsn' = top + 1
<1>1. PICK active \in SegmentCandidates, top \in UsedLsns :
        LET opened == EnsureSegment(files, active, top + 1) IN
        /\ \A s \in SegmentCandidates : s <= active
        /\ \A l \in UsedLsns : l <= top
        /\ \E n \in 0..Len(opened[active].cells) :
             /\ ValidOffset(opened[active], n)
             /\ files' = Truncate(opened, active, n)
             /\ offset' = n
        /\ segment' = active
        /\ nextLsn' = top + 1
  BY DEF Recover
<1>2. active \in Nat \ {0}
  BY DEF SegmentCandidates, TypeOK, IsDirectory, Position
<1>3. UsedLsns = Lsns(files) \cup {0}
  BY DEF UsedLsns, NoCheckpoint
<1>4. top \in Nat /\ Ends(Lsns(files), top)
  BY <1>1, <1>3, LsnFacts DEF Ends
<1> DEFINE opened == EnsureSegment(files, active, top + 1)
<1>5. IsDirectory(opened) /\ active \in DOMAIN opened
  <2>1. IsDirectory(files) /\ top + 1 \in Nat
    BY <1>4 DEF TypeOK
  <2>. QED
    BY <1>2, <2>1, EnsureType
<1>6. PICK n \in 0..Len(opened[active].cells) :
        /\ ValidOffset(opened[active], n)
        /\ files' = Truncate(opened, active, n)
        /\ offset' = n
  BY <1>1
<1>7. \A s \in DOMAIN files : s <= active
  BY <1>1 DEF SegmentCandidates
<1>. HIDE DEF opened
<1>8. n \in Nat /\ n <= Len(opened[active].cells) /\ FrameIndexes(opened[active]) = 1..n
  BY <1>5, <1>6, DirectoryCells DEF ValidOffset
<1>9. OnlyFrames(opened[active], n)
  <2>1. \A j \in 1..n : j \in FrameIndexes(opened[active]) /\ j \in 1..j
    BY <1>8
  <2>. QED
    BY <2>1 DEF FrameIndexes, OnlyFrames
<1>. QED
  BY <1>1, <1>2, <1>4, <1>5, <1>6, <1>7, <1>8, <1>9 DEF opened

LEMMA NextClean ==
  ASSUME "undo" \notin Faults, TypeOK, DurabilityInv, CleanInv, [WriterNext]_vars
  PROVE  CleanInv'
<1>1. EndInv /\ DownInv /\ checkpoint = NoCheckpoint
  BY DEF DurabilityInv, EndInv
<1>2. CASE UNCHANGED files
  BY <1>2 DEF CleanInv
<1>3. ASSUME pc = "write", segment \in DOMAIN files
      PROVE  OnlyFrames(files[segment], Len(files[segment].cells))
  BY <1>1, <1>3 DEF EndInv, DownInv, TailInv
<1>4. CASE Rotate
  BY <1>4, EnsureClean DEF Rotate, CleanInv
<1>5. CASE WriteFrame
  <2> DEFINE cell == Frame(NextFrame.lsn, NextFrame.rec)
  <2>1. cell \in Cell /\ cell.kind = "frame"
    BY <1>1, <1>5, WriteFrameEntries, FrameIsCell DEF Buffered, Frame
  <2>. HIDE DEF cell
  <2>2. pc = "write" /\ segment \in DOMAIN files /\ files' = AppendCell(files, segment, cell)
    BY <1>5 DEF WriteFrame, cell
  <2>. QED
    BY <1>3, <2>1, <2>2, AppendClean DEF CleanInv, TypeOK
<1>6. CASE WriteFails
  <2>1. Torn \in Cell /\ Torn.kind = "torn"
    BY TornIsCell DEF Torn
  <2>2. CASE segment \in DOMAIN files /\ files' = AppendCell(files, segment, Torn)
    BY <1>3, <1>6, <2>1, <2>2, AppendClean DEF CleanInv, TypeOK, WriteFails
  <2>. QED
    BY <1>2, <1>6, <2>2 DEF WriteFails
<1>7. CASE SyncNext
  <2>1. PICK t \in DOMAIN files : files' = SyncSegment(files, t)
    BY <1>7 DEF SyncNext
  <2>2. DOMAIN files' = DOMAIN files /\ \A s \in DOMAIN files : files'[s].cells = files[s].cells
    BY <2>1, SyncFrames DEF TypeOK
  <2>. QED
    BY <2>2 DEF CleanInv, BadCell
<1>8. CASE UndoTruncate
  <2>1. /\ rollback.segment \in DOMAIN files /\ rollback.offset \in Nat
        /\ files' = Truncate(files, rollback.segment, rollback.offset)
        /\ RollbackInv
    BY <1>1, <1>8 DEF UndoTruncate, EndInv, TypeOK
  <2>. QED
    BY <2>1, TruncateClean DEF CleanInv, TypeOK, RollbackInv
<1>9. CASE UndoRemove
  <2> DEFINE gone == (rollback.segment + 1)..segment
  <2>1. files' = WithoutSegments(files, gone)
    BY <1>9 DEF UndoRemove
  <2>. HIDE DEF gone
  <2>2. DOMAIN files' = DOMAIN files \ gone /\ \A s \in DOMAIN files \ gone : files'[s] = files[s]
    BY <2>1, WithoutFrames
  <2>. QED
    BY <2>2 DEF CleanInv
<1>10. CASE PowerLoss
  BY <1>10, SurvivorClean DEF PowerLoss, CleanInv, TypeOK, IsDirectory
<1>11. CASE Recover
  <2>1. PICK active \in Nat \ {0}, top \in Nat, n \in Nat :
          LET opened == EnsureSegment(files, active, top + 1) IN
          /\ IsDirectory(opened) /\ active \in DOMAIN opened
          /\ n <= Len(opened[active].cells) /\ OnlyFrames(opened[active], n)
          /\ files' = Truncate(opened, active, n)
    BY <1>1, <1>11, RecoverOpened
  <2> DEFINE opened == EnsureSegment(files, active, top + 1)
  <2>2. \A s \in DOMAIN opened : ~BadCell(opened[s])
    BY EnsureClean DEF CleanInv
  <2>3. /\ IsDirectory(opened) /\ active \in DOMAIN opened
        /\ n <= Len(opened[active].cells) /\ OnlyFrames(opened[active], n)
        /\ files' = Truncate(opened, active, n)
    BY <2>1
  <2>. HIDE DEF opened
  <2>. QED
    BY <2>2, <2>3, TruncateClean DEF CleanInv
<1>. QED
  BY <1>2, <1>4, <1>5, <1>6, <1>7, <1>8, <1>9, <1>10, <1>11
     DEF WriterNext, FlushStep, Fault, AppendRecord, FlushTick, FlushDone, RotateFails, SyncFails,
         UndoFails, Crash, vars, disk

(* Frames and headers kept, the first frame still carries its start LSN.   *)
LEMMA NoMismatch ==
  ASSUME NEW fs, NEW gs, FramesFrom(gs, fs),
         \A s \in DOMAIN gs : FrameIndexes(gs[s]) # {} => gs[s].start = fs[s].start,
         \A s \in DOMAIN fs : ~StartMismatch(fs[s])
  PROVE  \A s \in DOMAIN gs : ~StartMismatch(gs[s])
<1>. SUFFICES ASSUME NEW s \in DOMAIN gs, 1 \in FrameIndexes(gs[s])
              PROVE  gs[s].cells[1].lsn = gs[s].start
  BY DEF StartMismatch
<1>1. s \in DOMAIN fs /\ 1 \in FrameIndexes(fs[s]) /\ gs[s].cells[1] = fs[s].cells[1]
  BY DEF FramesFrom
<1>. QED
  BY <1>1 DEF StartMismatch

LEMMA OnlyFramesFirst ==
  ASSUME NEW f, Len(f.cells) \in Nat, Len(f.cells) > 0, OnlyFrames(f, Len(f.cells))
  PROVE  1 \in FrameIndexes(f)
<1>1. 1 \in 1..Len(f.cells) /\ \A j \in 1..1 : j \in 1..Len(f.cells)
  OBVIOUS
<1>. QED
  BY <1>1 DEF OnlyFrames, FrameIndexes

LEMMA NotBare ==
  ASSUME NEW fs, IsDirectory(fs), NEW s \in DOMAIN fs, OnlyFrames(fs[s], Len(fs[s].cells))
  PROVE  fs[s].cells # <<>> => FrameIndexes(fs[s]) # {}
<1>. SUFFICES ASSUME fs[s].cells # <<>> PROVE FrameIndexes(fs[s]) # {}
  OBVIOUS
<1>1. Len(fs[s].cells) \in Nat /\ Len(fs[s].cells) > 0
  BY DirectoryCells
<1>. QED
  BY <1>1, OnlyFramesFirst

(* Where the writer stands at the end of its log, its segment is the last  *)
(* one and has frames or no cell at all.                                   *)
LEMMA TailNotBare ==
  ASSUME TypeOK, EndInv, up, TailInv, NEW s \in DOMAIN files, \A t \in DOMAIN files : t <= s
  PROVE  s = segment /\ ~BareSegment(s)
<1>1. segment \in DOMAIN files /\ segment <= s /\ s <= segment
  BY DEF EndInv, TailInv
<1>2. s = segment
  BY <1>1 DEF TypeOK, IsDirectory
<1>. QED
  BY <1>2, NotBare DEF TailInv, BareSegment, TypeOK

LEMMA EndsUnique ==
  ASSUME NEW L \in SUBSET Nat, NEW a \in Nat, NEW b \in Nat, Ends(L, a), Ends(L, b)
  PROVE  a = b
<1>1. a = 0 \/ a <= b
  BY DEF Ends
<1>2. b = 0 \/ b <= a
  BY DEF Ends
<1>. QED
  BY <1>1, <1>2

LEMMA AppendRecordStart ==
  ASSUME TypeOK, DurabilityInv, LsnInv, StartInv,
         FlushTick \/ \E r \in Records : AppendRecord(r)
  PROVE  StartInv'
<1>1. /\ up /\ pc = "idle" /\ UNCHANGED <<files, up, segment, offset>>
      /\ StartFlush \/ UNCHANGED flushing
  BY DEF AppendRecord, FlushTick, disk
<1>2. /\ written = 0 /\ written' = 0
      /\ LastWritten' = LastWritten /\ nextLsn' - Len(buffered') = LastWritten + 1
  <2>1. written = 0 /\ written' = 0
    BY <1>1 DEF LsnInv, BufferInv, StartFlush, flushing
  <2>2. CASE FlushTick
    BY <2>1, <2>2, BufferType DEF FlushTick, LastWritten
  <2>3. ASSUME NEW r \in Records, AppendRecord(r)
        PROVE  /\ LastWritten' = LastWritten
               /\ nextLsn' - Len(buffered') = LastWritten + 1
    <3>1. buffered' = Append(buffered, [lsn |-> nextLsn, rec |-> r]) /\ nextLsn' = nextLsn + 1
      BY <2>3 DEF AppendRecord
    <3>2. Len(buffered') = Len(buffered) + 1
      BY <3>1 DEF TypeOK
    <3>. QED
      BY <2>1, <3>1, <3>2, BufferType DEF LastWritten
  <2>. QED
    BY <2>1, <2>2, <2>3
<1>3. offset = 0 => files[segment].start = LastWritten + 1
  BY <1>1 DEF StartInv
<1>4. CASE StartFlush
  BY <1>1, <1>2, <1>3, <1>4 DEF StartInv, StartFlush, BareSegment
<1>5. CASE UNCHANGED flushing
  BY <1>1, <1>2, <1>3, <1>5 DEF StartInv, flushing, BareSegment
<1>. QED
  BY <1>1, <1>4, <1>5

LEMMA RotateStart ==
  ASSUME TypeOK, DurabilityInv, LsnInv, StartInv, Rotate
  PROVE  StartInv'
<1>1. /\ pc = "write" /\ segment' = segment + 1 /\ offset' = 0
      /\ files' = EnsureSegment(files, segment + 1, NextFrame.lsn)
      /\ UNCHANGED <<up, pc, rollback, nextLsn, buffered, written>>
      /\ written + 1 \in 1..Len(buffered)
  BY BufferType DEF Rotate, flushing
<1>2. /\ up /\ segment \in Nat /\ RollbackInv /\ \A s \in DOMAIN files : s \in Nat /\ s <= segment
  BY <1>1 DEF DurabilityInv, EndInv, DownInv, TypeOK, IsDirectory
<1>3. segment + 1 \notin DOMAIN files
  BY <1>2
<1>4. /\ DOMAIN files' = DOMAIN files \cup {segment + 1}
      /\ files'[segment + 1] = EmptySegment(NextFrame.lsn)
      /\ \A s \in DOMAIN files : files'[s] = files[s]
  BY <1>1, <1>3 DEF EnsureSegment, WithSegment
<1>5. NextFrame.lsn = LastWritten + 1 /\ LastWritten' = LastWritten
  <2>1. /\ buffered[written + 1].lsn + Len(buffered) + 1 = nextLsn + (written + 1)
        /\ buffered[written + 1].lsn \in Nat
    BY <1>1, BufferType DEF LsnInv, BufferInv
  <2>2. Len(buffered) \in Nat /\ nextLsn \in Nat /\ written \in Nat
    BY BufferType
  <2>3. \A b \in Nat :
          b + Len(buffered) + 1 = nextLsn + (written + 1) =>
            b = nextLsn + written - Len(buffered) - 1 + 1
    BY <2>2
  <2>4. buffered[written + 1].lsn = nextLsn + written - Len(buffered) - 1 + 1
    BY <2>1, <2>3, Zenon
  <2>. QED
    BY <1>1, <2>4 DEF LastWritten, NextFrame
<1>6. ~StartMismatch(EmptySegment(NextFrame.lsn)) /\ EmptySegment(NextFrame.lsn).cells = <<>>
  BY DEF StartMismatch, EmptySegment, FrameIndexes
<1>7. \A s \in DOMAIN files' : ~StartMismatch(files'[s])
  BY <1>4, <1>6 DEF StartInv
<1>8. files'[segment'].start = LastWritten' + 1
  BY <1>1, <1>4, <1>5 DEF EmptySegment
<1>9. rollback'.offset = 0 => files'[rollback'.segment].start = nextLsn' - Len(buffered')
  BY <1>1, <1>2, <1>4 DEF StartInv, RollbackInv
<1>10. \A s \in DOMAIN files' : (\A t \in DOMAIN files' : t <= s) => files'[s].cells = <<>>
  <2>. SUFFICES ASSUME NEW s \in DOMAIN files', \A t \in DOMAIN files' : t <= s
                PROVE  files'[s].cells = <<>>
    OBVIOUS
  <2>1. segment + 1 <= s
    BY <1>4
  <2>2. s = segment + 1
    BY <1>2, <1>4, <2>1
  <2>. QED
    BY <1>4, <1>6, <2>2
<1>. QED
  BY <1>7, <1>8, <1>9, <1>10 DEF StartInv, BareSegment

LEMMA WriteFrameStart ==
  ASSUME TypeOK, DurabilityInv, LsnInv, StartInv, WriteFrame
  PROVE  StartInv'
<1> DEFINE cell == Frame(NextFrame.lsn, NextFrame.rec)
<1>1. /\ pc = "write" /\ segment \in DOMAIN files
      /\ files' = AppendCell(files, segment, cell)
      /\ offset' = offset + 1
      /\ pc' \in {"write", "sync"}
      /\ UNCHANGED <<up, segment, buffered, nextLsn, rollback>>
  BY DEF WriteFrame
<1>2. EndInv /\ up /\ TailInv /\ RollbackInv /\ \A s \in DOMAIN files : s <= segment
  BY <1>1 DEF DurabilityInv, EndInv, DownInv
<1>3. cell \in Cell /\ cell.kind = "frame" /\ cell.lsn = NextFrame.lsn
  BY <1>2, WriteFrameEntries, FrameIsCell DEF Buffered, Frame
<1>4. NewEntry \in Entries(files') /\ NewEntry.segment = segment /\ NewEntry.index = offset + 1
  BY <1>2, WriteFrameEntries DEF NewEntry
<1>5. NextFrame.lsn = LastWritten + 1
  <2>1. NewEntry.lsn = NextFrame.lsn /\ NewEntry.lsn \in Lsns(files')
    BY <1>4 DEF NewEntry, Lsns
  <2>2. written + 1 \in 1..Len(buffered)
    BY BufferType DEF WriteFrame
  <2>3. /\ buffered[written + 1].lsn + Len(buffered) + 1 = nextLsn + (written + 1)
        /\ buffered[written + 1].lsn \in Nat
    BY <2>2, BufferType DEF LsnInv, BufferInv
  <2>4. Len(buffered) \in Nat /\ nextLsn \in Nat /\ written \in Nat
    BY BufferType
  <2>5. \A b \in Nat :
          b + Len(buffered) + 1 = nextLsn + (written + 1) =>
            b = nextLsn + written - Len(buffered) - 1 + 1
    BY <2>4
  <2>6. buffered[written + 1].lsn = nextLsn + written - Len(buffered) - 1 + 1
    BY <2>3, <2>5, Zenon
  <2>. QED
    BY <2>6 DEF LastWritten, NextFrame
<1>. HIDE DEF cell, NewEntry
<1>6. /\ DOMAIN files' = DOMAIN files
      /\ \A s \in DOMAIN files : s # segment => files'[s] = files[s]
      /\ \A j \in 1..offset : files'[segment].cells[j] = files[segment].cells[j]
      /\ files'[segment].cells[offset + 1] = cell
      /\ offset = Len(files[segment].cells) /\ offset \in Nat
  <2>1. offset = Len(files[segment].cells) /\ offset \in Nat
    BY <1>2 DEF TailInv, TypeOK
  <2>. QED
    BY <1>1, <1>3, <2>1, AppendCells DEF TypeOK
<1>7. \A s \in DOMAIN files : files'[s].start = files[s].start
  BY <1>1 DEF AppendCell, TypeOK, IsDirectory, Segment
<1>8. ~StartMismatch(files'[segment])
  <2>1. CASE offset = 0
    <3>1. files[segment].start = LastWritten + 1
      BY <1>1, <1>2, <2>1 DEF StartInv
    <3>2. files'[segment].cells[1].lsn = files'[segment].start
      BY <1>1, <1>3, <1>5, <1>6, <1>7, <2>1, <3>1
    <3>. QED
      BY <3>2 DEF StartMismatch
  <2>2. CASE offset # 0
    <3>1. 1 \in 1..offset /\ Len(files[segment].cells) > 0 /\ Len(files[segment].cells) \in Nat
      BY <1>6, <2>2
    <3>2. 1 \in FrameIndexes(files[segment])
      BY <1>2, <3>1, OnlyFramesFirst DEF TailInv
    <3>3. files[segment].cells[1].lsn = files[segment].start
      BY <1>1, <3>2 DEF StartInv, StartMismatch
    <3>4. files'[segment].cells[1].lsn = files'[segment].start
      BY <1>1, <1>6, <1>7, <3>1, <3>3
    <3>. QED
      BY <3>4 DEF StartMismatch
  <2>. QED
    BY <2>1, <2>2
<1>9. \A s \in DOMAIN files' : ~StartMismatch(files'[s])
  BY <1>6, <1>8 DEF StartInv
<1>10. rollback'.offset = 0 => files'[rollback'.segment].start = nextLsn' - Len(buffered')
  BY <1>1, <1>2, <1>7 DEF StartInv, RollbackInv
<1>11. offset' # 0
  BY <1>1, <1>6
<1>12. \A s \in DOMAIN files' : (\A t \in DOMAIN files' : t <= s) => FrameIndexes(files'[s]) # {}
  <2>. SUFFICES ASSUME NEW s \in DOMAIN files', \A t \in DOMAIN files' : t <= s
                PROVE  FrameIndexes(files'[s]) # {}
    OBVIOUS
  <2>1. s = segment
    BY <1>1, <1>2, <1>6 DEF TypeOK, IsDirectory
  <2>2. offset + 1 \in FrameIndexes(files'[segment])
    BY <1>4, EntryPlace
  <2>. QED
    BY <2>1, <2>2
<1>. QED
  BY <1>9, <1>10, <1>11, <1>12 DEF StartInv, BareSegment

(* A flush stops: only a piece of a frame may have been added.             *)
LEMMA FailureStart ==
  ASSUME TypeOK, DurabilityInv, LsnInv, StartInv, RotateFails \/ WriteFails \/ SyncFails
  PROVE  StartInv'
<1>1. /\ pc \in {"write", "sync"} /\ pc' = "truncate"
      /\ UNCHANGED <<up, rollback, nextLsn, buffered, written>>
  BY DEF RotateFails, WriteFails, SyncFails, disk
<1>2. /\ EndInv /\ up /\ TailInv /\ RollbackInv /\ \A s \in DOMAIN files : s <= segment
      /\ Ends(Lsns(files), LastWritten)
  BY <1>1 DEF DurabilityInv, EndInv, DownInv, LsnInv, EndsInv
<1>3. CASE UNCHANGED files
  BY <1>1, <1>3 DEF StartInv, BareSegment
<1>4. CASE segment \in DOMAIN files /\ files' = AppendCell(files, segment, Torn)
  <2>1. Entries(files') = Entries(files)
    BY <1>4, AppendTornEntries DEF TypeOK
  <2>2. Lsns(files') = Lsns(files)
    BY <2>1 DEF Lsns
  <2>3. /\ DOMAIN files' = DOMAIN files
        /\ \A s \in DOMAIN files : files'[s].start = files[s].start
    BY <1>4 DEF AppendCell, TypeOK, IsDirectory, Segment
  <2>4. /\ \A s \in DOMAIN files : s # segment => files'[s] = files[s]
        /\ \A s \in DOMAIN files : FrameIndexes(files[s]) \subseteq FrameIndexes(files'[s])
        /\ FramesFrom(files', files)
    <3>1. Torn \in Cell /\ Torn.kind # "frame"
      BY TornIsCell DEF Torn
    <3>. HIDE DEF Torn
    <3>2. /\ \A s \in DOMAIN files : s # segment => files'[s] = files[s]
          /\ \A s \in DOMAIN files : FrameIndexes(files[s]) \subseteq FrameIndexes(files'[s])
          /\ \A s \in DOMAIN files : \A i \in FrameIndexes(files[s]) :
               files'[s].cells[i] = files[s].cells[i]
          /\ \A i \in FrameIndexes(files'[segment]) : i \in FrameIndexes(files[segment])
      BY <1>4, <3>1, AppendFrames DEF TypeOK
    <3>. QED
      BY <1>4, <2>3, <3>2 DEF FramesFrom
  <2>5. \A s \in DOMAIN files' : ~StartMismatch(files'[s])
    BY <2>3, <2>4, NoMismatch DEF StartInv
  <2>6. rollback'.offset = 0 => files'[rollback'.segment].start = nextLsn' - Len(buffered')
    BY <1>1, <1>2, <2>3 DEF StartInv, RollbackInv
  <2>7. ASSUME NEW s \in DOMAIN files', \A t \in DOMAIN files' : t <= s, BareSegment(s)'
        PROVE  files'[s].start > 0 /\ Ends(Lsns(files'), files'[s].start - 1)
    <3>1. s = segment
      BY <1>2, <1>4, <2>3, <2>7 DEF TypeOK, IsDirectory
    <3>2. FrameIndexes(files[segment]) = {}
      BY <1>4, <2>4, <2>7, <3>1 DEF BareSegment
    <3>3. offset = 0
      BY <1>2, <3>2, DirectoryCells, OnlyFramesFirst DEF TailInv, TypeOK
    <3>4. files'[s].start = LastWritten + 1
      BY <1>1, <1>2, <1>4, <2>3, <3>1, <3>3 DEF StartInv
    <3>5. LastWritten \in Nat
      BY BufferType DEF LsnInv, BufferInv, LastWritten
    <3>6. files'[s].start - 1 = LastWritten
      BY <3>4, <3>5
    <3>. QED
      BY <1>2, <2>2, <3>4, <3>5, <3>6
  <2>. QED
    BY <1>1, <2>5, <2>6, <2>7 DEF StartInv
<1>. QED
  BY <1>3, <1>4 DEF RotateFails, WriteFails, SyncFails, disk

LEMMA SyncStart ==
  ASSUME TypeOK, DurabilityInv, LsnInv, StartInv, SyncNext
  PROVE  StartInv'
<1>1. PICK u \in DOMAIN files : files' = SyncSegment(files, u)
  BY DEF SyncNext
<1>2. UNCHANGED <<up, segment, offset, nextLsn, buffered, pc, written, rollback>> /\ pc = "sync"
  BY DEF SyncNext
<1>3. /\ DOMAIN files' = DOMAIN files
      /\ \A s \in DOMAIN files : /\ files'[s].cells = files[s].cells
                                 /\ files'[s].start = files[s].start
                                 /\ FrameIndexes(files'[s]) = FrameIndexes(files[s])
  <2>1. \A s \in DOMAIN files : files'[s].start = files[s].start
    BY <1>1 DEF SyncSegment, TypeOK, IsDirectory, Segment
  <2>. QED
    BY <1>1, <2>1, SyncFrames DEF TypeOK
<1>4. Lsns(files') = Lsns(files)
  <2>1. Entries(files') = Entries(files)
    BY SameEntries
  <2>. QED
    BY <2>1 DEF Lsns
<1>5. \A s \in DOMAIN files' : ~StartMismatch(files'[s])
  BY <1>3 DEF StartInv, StartMismatch
<1>6. segment \in DOMAIN files /\ rollback.segment \in DOMAIN files
  BY <1>2 DEF DurabilityInv, EndInv, DownInv, TailInv, RollbackInv
<1>7. offset' = 0 => files'[segment'].start = LastWritten' + 1
  BY <1>2, <1>3, <1>6 DEF StartInv, LastWritten, DurabilityInv, EndInv, DownInv
<1>8. rollback'.offset = 0 => files'[rollback'.segment].start = nextLsn' - Len(buffered')
  BY <1>2, <1>3, <1>6 DEF StartInv
<1>9. \A s \in DOMAIN files' : (\A t \in DOMAIN files' : t <= s) /\ BareSegment(s)' =>
        files'[s].start > 0 /\ Ends(Lsns(files'), files'[s].start - 1)
  BY <1>2, <1>3, <1>4 DEF StartInv, BareSegment
<1>. QED
  BY <1>5, <1>7, <1>8, <1>9 DEF StartInv

LEMMA FlushDoneStart ==
  ASSUME TypeOK, DurabilityInv, LsnInv, StartInv, FlushDone
  PROVE  StartInv'
<1>1. /\ pc = "sync" /\ pc' = "idle" /\ buffered' = <<>> /\ written' = 0
      /\ UNCHANGED <<files, up, nextLsn, segment, offset>>
  BY DEF FlushDone, disk
<1>2. LastWritten' = LastWritten
  <2>1. Len(buffered') = 0 /\ written = Len(buffered)
    BY <1>1 DEF LsnInv, BufferInv
  <2>. QED
    BY <1>1, <2>1, BufferType DEF LastWritten
<1>. QED
  BY <1>1, <1>2 DEF StartInv, BareSegment

LEMMA UndoTruncateStart ==
  ASSUME TypeOK, DurabilityInv, LsnInv, StartInv, UndoTruncate
  PROVE  StartInv'
<1>1. /\ pc = "truncate" /\ pc' = "remove" /\ UNCHANGED <<rollback, nextLsn, buffered>>
      /\ rollback.segment \in DOMAIN files /\ rollback.offset \in Nat
      /\ files' = Truncate(files, rollback.segment, rollback.offset)
  BY DEF UndoTruncate, TypeOK
<1>2. FramesFrom(files', files) /\ DOMAIN files' = DOMAIN files
  BY <1>1, TruncateFrames DEF TypeOK
<1>3. \A s \in DOMAIN files : files'[s].start = files[s].start
  BY <1>1 DEF Truncate, TypeOK, IsDirectory, Segment
<1>4. \A s \in DOMAIN files' : ~StartMismatch(files'[s])
  BY <1>2, <1>3, NoMismatch DEF StartInv
<1>. QED
  BY <1>1, <1>3, <1>4 DEF StartInv

LEMMA UndoRemoveStart ==
  ASSUME TypeOK, DurabilityInv, LsnInv, StartInv, UndoRemove
  PROVE  StartInv'
<1> DEFINE gone == (rollback.segment + 1)..segment
<1>1. /\ pc = "remove" /\ files' = WithoutSegments(files, gone)
      /\ segment' = rollback.segment /\ offset' = rollback.offset
      /\ UNCHANGED up
  BY DEF UndoRemove
<1>2. EndInv /\ up /\ RollbackInv /\ rollback.segment \notin gone
  BY <1>1 DEF DurabilityInv, EndInv, DownInv, TypeOK
<1>. HIDE DEF gone
<1>3. /\ FramesFrom(files', files) /\ DOMAIN files' = DOMAIN files \ gone
      /\ \A s \in DOMAIN files \ gone : files'[s] = files[s]
  BY <1>1, WithoutFrames
<1>4. \A s \in DOMAIN files' : ~StartMismatch(files'[s])
  BY <1>3 DEF StartInv
<1>5. LastWritten' = nextLsn - Len(buffered) - 1 /\ pc' = "idle"
  BY <1>2, UndoRemoveLsns
<1>6. offset' = 0 => files'[segment'].start = LastWritten' + 1
  <2>. SUFFICES ASSUME offset' = 0 PROVE files'[segment'].start = LastWritten' + 1
    OBVIOUS
  <2>1. files'[segment'].start = nextLsn - Len(buffered)
    BY <1>1, <1>2, <1>3 DEF StartInv, RollbackInv
  <2>2. nextLsn - Len(buffered) - 1 + 1 = nextLsn - Len(buffered)
    BY BufferType
  <2>. QED
    BY <1>5, <2>1, <2>2
<1>7. TypeOK' /\ EndInv' /\ TailInv'
  <2>1. TypeOK'
    BY NextType DEF Next, WriterNext, FlushStep
  <2>2. EndInv'
    BY <1>2, UndoRemoveEnd
  <2>. QED
    BY <1>1, <1>2, <1>5, <2>1, <2>2 DEF EndInv
<1>8. \A s \in DOMAIN files' : (\A t \in DOMAIN files' : t <= s) => ~BareSegment(s)'
  <2>. SUFFICES ASSUME NEW s \in DOMAIN files', \A t \in DOMAIN files' : t <= s
                PROVE  ~BareSegment(s)'
    OBVIOUS
  <2>1. /\ segment' \in DOMAIN files' /\ segment' <= s /\ s <= segment'
    BY <1>1, <1>2, <1>7 DEF EndInv, TailInv
  <2>2. s = segment'
    BY <1>7, <2>1 DEF TypeOK, IsDirectory
  <2>3. IsDirectory(files') /\ OnlyFrames(files'[s], Len(files'[s].cells))
    BY <1>7, <2>2 DEF TailInv, TypeOK
  <2>. QED
    BY <2>3, NotBare DEF BareSegment
<1>. QED
  BY <1>4, <1>5, <1>6, <1>8 DEF StartInv

LEMMA CrashStart ==
  ASSUME TypeOK, DurabilityInv, LsnInv, StartInv, Crash, WholeRollback
  PROVE  StartInv'
<1>1. ~up' /\ pc' = "idle" /\ UNCHANGED files /\ pc # "remove"
  BY DEF Crash, LoseMemory, disk, WholeRollback
<1>. QED
  BY <1>1 DEF StartInv, BareSegment

LEMMA RecoverStart ==
  ASSUME TypeOK, DurabilityInv, LsnInv, StartInv, Recover
  PROVE  StartInv'
<1>1. EndInv /\ checkpoint = NoCheckpoint /\ ~up /\ pc = "idle"
  BY DEF DurabilityInv, EndInv, DownInv, Recover
<1>2. PICK active \in Nat \ {0}, top \in Nat, n \in Nat :
        LET opened == EnsureSegment(files, active, top + 1) IN
        /\ \A s \in DOMAIN files : s <= active
        /\ Ends(Lsns(files), top)
        /\ IsDirectory(opened) /\ active \in DOMAIN opened
        /\ FrameIndexes(opened[active]) = 1..n
        /\ n <= Len(opened[active].cells) /\ OnlyFrames(opened[active], n)
        /\ files' = Truncate(opened, active, n)
        /\ segment' = active /\ offset' = n /\ nextLsn' = top + 1
  BY <1>1, RecoverOpened
<1> DEFINE opened == EnsureSegment(files, active, top + 1)
<1>3. /\ IsDirectory(opened) /\ active \in DOMAIN opened
      /\ FrameIndexes(opened[active]) = 1..n
      /\ files' = Truncate(opened, active, n)
  BY <1>2
<1>4. \A s \in DOMAIN opened : ~StartMismatch(opened[s])
  <2>1. ~StartMismatch(EmptySegment(top + 1))
    BY DEF StartMismatch, EmptySegment, FrameIndexes
  <2>. QED
    BY <2>1 DEF StartInv, EnsureSegment, WithSegment
<1>5. n = 0 => opened[active].start = top + 1
  <2>. SUFFICES ASSUME n = 0 PROVE opened[active].start = top + 1
    OBVIOUS
  <2>1. CASE active \in DOMAIN files /\ files[active].cells # <<>>
    <3>1. opened = files
      BY <2>1 DEF EnsureSegment
    <3>2. BareSegment(active)
      BY <1>3, <2>1, <3>1 DEF BareSegment
    <3>3. files[active].start > 0 /\ Ends(Lsns(files), files[active].start - 1)
      BY <1>1, <1>2, <2>1, <3>2 DEF StartInv
    <3>4. files[active].start \in Nat /\ files[active].start - 1 \in Nat
      BY <2>1, <3>3, DirectoryCells DEF TypeOK
    <3>5. Lsns(files) \in SUBSET Nat /\ Ends(Lsns(files), top)
      BY <1>2, LsnFacts
    <3>6. files[active].start - 1 = top
      BY <3>3, <3>4, <3>5, EndsUnique
    <3>. QED
      BY <3>1, <3>4, <3>6
  <2>2. CASE active \notin DOMAIN files \/ files[active].cells = <<>>
    BY <2>2 DEF EnsureSegment, WithSegment, EmptySegment
  <2>. QED
    BY <2>1, <2>2
<1>. HIDE DEF opened
<1>6. FramesFrom(files', opened) /\ DOMAIN files' = DOMAIN opened
  BY <1>3, TruncateFrames
<1>7. \A s \in DOMAIN opened : files'[s].start = opened[s].start
  BY <1>3 DEF Truncate, IsDirectory, Segment
<1>8. \A s \in DOMAIN files' : ~StartMismatch(files'[s])
  BY <1>4, <1>6, <1>7, NoMismatch
<1>9. pc' = "idle" /\ up' /\ LastWritten' = top
  <2>1. pc' = "idle" /\ buffered' = <<>> /\ written' = 0 /\ up'
    BY <1>1, RecoverLsns DEF Recover
  <2>2. Len(buffered') = 0
    BY <2>1
  <2>. QED
    BY <1>2, <2>1, <2>2 DEF LastWritten
<1>10. offset' = 0 => files'[segment'].start = LastWritten' + 1
  BY <1>2, <1>3, <1>5, <1>7, <1>9
<1>11. TypeOK' /\ EndInv' /\ TailInv'
  <2>1. TypeOK'
    BY NextType DEF Next, WriterNext
  <2>2. EndInv'
    BY <1>1, RecoverEnd
  <2>. QED
    BY <1>9, <2>1, <2>2 DEF EndInv
<1>12. \A s \in DOMAIN files' : (\A t \in DOMAIN files' : t <= s) => ~BareSegment(s)'
  <2>. SUFFICES ASSUME NEW s \in DOMAIN files', \A t \in DOMAIN files' : t <= s
                PROVE  ~BareSegment(s)'
    OBVIOUS
  <2>1. segment' \in DOMAIN files' /\ segment' <= s /\ s <= segment'
    BY <1>9, <1>11 DEF EndInv, TailInv
  <2>2. s = segment'
    <3>1. s \in Nat /\ segment' \in Nat
      BY <1>11, <2>1 DEF TypeOK, IsDirectory
    <3>. QED
      BY <2>1, <3>1
  <2>3. IsDirectory(files') /\ OnlyFrames(files'[s], Len(files'[s].cells))
    BY <1>11, <2>2 DEF TailInv, TypeOK
  <2>. QED
    BY <2>3, NotBare DEF BareSegment
<1>. QED
  BY <1>8, <1>9, <1>10, <1>12 DEF StartInv

LEMMA NextRead ==
  ASSUME "undo" \notin Faults, TypeOK, DurabilityInv, LsnInv, ReadInv,
         [WriterNext /\ WholeRollback]_vars
  PROVE  ReadInv'
<1>1. CleanInv'
  BY NextClean DEF ReadInv
<1>. SUFFICES ASSUME PowerKept' PROVE StartInv'
  BY <1>1 DEF ReadInv
<1>2. StartInv /\ ~PowerLoss
  BY PowerKeptBefore DEF ReadInv
<1>3. CASE UndoFails
  BY <1>3 DEF UndoFails, DurabilityInv, EndInv, RollbackInv
<1>4. CASE UNCHANGED vars
  BY <1>2, <1>4 DEF vars, StartInv, LastWritten, BareSegment
<1>. QED
  BY <1>2, <1>3, <1>4, AppendRecordStart, RotateStart, WriteFrameStart, FailureStart, SyncStart,
     FlushDoneStart, UndoTruncateStart, UndoRemoveStart, CrashStart, RecoverStart
     DEF WriterNext, FlushStep, Fault

LEMMA InitRead == Init => ReadInv
<1>. SUFFICES ASSUME Init PROVE ReadInv
  OBVIOUS
<1>1. DOMAIN files = {1} /\ files[1] = EmptySegment(1) /\ segment = 1
  BY DEF Init, FirstSegmentId
<1>2. Len(buffered) = 0 /\ nextLsn = 1 /\ written = 0 /\ pc = "idle"
  BY DEF Init
<1>3. LastWritten = 0
  BY <1>2 DEF LastWritten
<1>4. ~BadCell(EmptySegment(1)) /\ ~StartMismatch(EmptySegment(1))
  BY DEF BadCell, StartMismatch, FrameIndexes, EmptySegment
<1>5. EmptySegment(1).cells = <<>> /\ EmptySegment(1).start = 1
  BY DEF EmptySegment
<1>. QED
  BY <1>1, <1>2, <1>3, <1>4, <1>5 DEF ReadInv, CleanInv, StartInv, BareSegment

LEMMA ReadImplied == TypeOK /\ DurabilityInv /\ ReadInv => LogStaysReadable
<1>. SUFFICES ASSUME TypeOK, DurabilityInv, ReadInv, PowerKept PROVE LogReadable
  BY DEF LogStaysReadable
<1>1. ReplayStart(files, checkpoint) = NoCheckpoint
  BY NoCheckpointReadsAll DEF DurabilityInv
<1>2. NoCheckpoint.segment \notin DOMAIN files
  BY DEF NoCheckpoint, TypeOK, IsDirectory
<1>3. \A s \in DOMAIN files : ~ScanFails(files[s])
  BY DEF ReadInv, CleanInv, StartInv, ScanFails
<1>. QED
  BY <1>1, <1>2, <1>3 DEF LogReadable, ReadFails

(* Under the same conditions every segment scans: no cell is broken but a  *)
(* torn end, and each first frame carries the LSN its header names         *)
(* (append_frame_locked, truncate_after, WalWriter::new).  Startup and     *)
(* replay can always read what the writer left.                            *)
THEOREM LogCanBeRead == ASSUME "undo" \notin Faults PROVE RollbackSpec => []LogStaysReadable
<1>1. RollbackSpec => [](TypeOK /\ DurabilityInv /\ LsnInv)
  BY LsnCorrect, RollbackSpecRefines
<1>2. TypeOK /\ DurabilityInv /\ LsnInv /\ ReadInv /\ [WriterNext /\ WholeRollback]_vars => ReadInv'
  BY NextRead
<1>. QED
  BY <1>1, <1>2, InitRead, ReadImplied, PTL DEF RollbackSpec

-----------------------------------------------------------------------------
(* Records accepted before they are written.                               *)

Among(E, r) == \E e \in E : e.rec = r
InBuffer(r) == \E k \in 1..Len(buffered) : buffered[k].rec = r

AcceptedInv ==
  NoSync /\ crashes = 0 =>
    /\ up
    /\ \A r \in Records : reply[r] = "ok" => Among(Entries(files), r) \/ InBuffer(r)
    /\ pc # "idle" => \A r \in Records : reply[r] = "ok" => Among(Kept, r) \/ InBuffer(r)
    /\ pc \in {"write", "sync"} =>
         \A k \in 1..written : Among(Entries(files), buffered[k].rec)

LEMMA NextAccepted ==
  ASSUME "undo" \notin Faults, TypeOK, DurabilityInv, LsnInv, AcceptedInv, [WriterNext]_vars
  PROVE  AcceptedInv'
<1>. SUFFICES ASSUME NoSync, crashes' = 0 PROVE AcceptedInv'
  BY DEF AcceptedInv
<1> DEFINE Ok(r) == reply[r] = "ok"
<1>1. crashes = 0 /\ ~Crash /\ ~PowerLoss
  <2>1. Crash \/ PowerLoss => crashes' = crashes + 1
    BY DEF Crash, PowerLoss, LoseMemory
  <2>. QED
    BY <2>1, CrashCount
<1>2. /\ up
      /\ \A r \in Records : Ok(r) => Among(Entries(files), r) \/ InBuffer(r)
      /\ pc # "idle" => \A r \in Records : Ok(r) => Among(Kept, r) \/ InBuffer(r)
      /\ pc \in {"write", "sync"} =>
           \A k \in 1..written : Among(Entries(files), buffered[k].rec)
      /\ EndInv
  BY <1>1 DEF AcceptedInv, DurabilityInv
<1>3. ASSUME pc = "idle", UNCHANGED <<files, up>>, StartFlush \/ UNCHANGED flushing,
             \A r \in Records : reply'[r] = "ok" => Among(Entries(files), r) \/ InBuffer(r)'
      PROVE  AcceptedInv'
  <2>1. CASE StartFlush
    <3>1. Kept' = Entries(files) /\ written' = 0
      BY <1>2, <1>3, <2>1, StartKept DEF StartFlush
    <3>. QED
      BY <1>2, <1>3, <3>1 DEF AcceptedInv
  <2>2. CASE UNCHANGED flushing
    BY <1>2, <1>3, <2>2 DEF AcceptedInv, flushing
  <2>. QED
    BY <1>3, <2>1, <2>2
<1>4. ASSUME NEW r \in Records, AppendRecord(r) PROVE AcceptedInv'
  <2> DEFINE new == [lsn |-> nextLsn, rec |-> r]
  <2>1. /\ pc = "idle" /\ UNCHANGED <<files, up>> /\ (StartFlush \/ UNCHANGED flushing)
        /\ buffered' = Append(buffered, new)
        /\ \A q \in Records : q # r => reply'[q] = reply[q]
    BY <1>4 DEF AppendRecord, disk, TypeOK
  <2>2. new \in Buffered /\ new.rec = r
    BY DEF TypeOK, Buffered
  <2>. HIDE DEF new
  <2>3. /\ Len(buffered') = Len(buffered) + 1 /\ Len(buffered) \in Nat
        /\ \A k \in 1..Len(buffered) : buffered'[k] = buffered[k]
        /\ buffered'[Len(buffered) + 1] = new
    BY <2>1, <2>2 DEF TypeOK
  <2>4. InBuffer(r)'
    <3>1. Len(buffered) + 1 \in 1..Len(buffered')
      BY <2>3
    <3>. QED
      BY <2>2, <2>3, <3>1 DEF InBuffer
  <2>5. ASSUME NEW q \in Records, InBuffer(q) PROVE InBuffer(q)'
    <3>1. PICK k \in 1..Len(buffered) : buffered[k].rec = q
      BY <2>5 DEF InBuffer
    <3>2. k \in 1..Len(buffered') /\ buffered'[k].rec = q
      BY <2>3, <3>1
    <3>. QED
      BY <3>2 DEF InBuffer
  <2>6. \A q \in Records : reply'[q] = "ok" => Among(Entries(files), q) \/ InBuffer(q)'
    BY <1>2, <2>1, <2>4, <2>5
  <2>. QED
    BY <1>3, <2>1, <2>6
<1>5. CASE FlushTick
  <2>1. /\ pc = "idle" /\ UNCHANGED <<files, up, reply, buffered>> /\ StartFlush
    BY <1>5 DEF FlushTick, disk
  <2>. QED
    BY <1>2, <1>3, <2>1 DEF InBuffer
<1>6. ASSUME Entries(files') = Entries(files), UNCHANGED <<up, reply, buffered, written, rollback>>,
             pc' # "idle" => pc # "idle",
             pc' \in {"write", "sync"} => pc \in {"write", "sync"}
      PROVE  AcceptedInv'
  BY <1>2, <1>6, KeptStays DEF AcceptedInv, InBuffer
<1>7. CASE Rotate \/ SyncNext \/ RotateFails \/ WriteFails \/ SyncFails
  BY <1>6, <1>7, SameEntries
     DEF Rotate, SyncNext, RotateFails, WriteFails, SyncFails, flushing
<1>8. CASE WriteFrame
  <2>1. Entries(files') = Entries(files) \cup {NewEntry}
    BY <1>2, <1>8, WriteFrameEntries
  <2>2. ~ NotAfter(NewEntry.segment, NewEntry.index, rollback.segment, rollback.offset)
    BY <1>2, <1>8, WriteFrameEntries DEF NewEntry
  <2>3. NewEntry.rec = buffered[written + 1].rec
    BY DEF NewEntry, NextFrame
  <2>4. UNCHANGED <<up, reply, buffered, rollback>> /\ pc = "write" /\ written' = written + 1
    BY <1>8 DEF WriteFrame
  <2>. HIDE DEF NewEntry
  <2>5. Kept' = Kept
    BY <2>1, <2>2, <2>4 DEF Kept
  <2>6. \A q : Among(Entries(files), q) => Among(Entries(files'), q)
    BY <2>1 DEF Among
  <2>7. Among(Entries(files'), buffered[written + 1].rec)
    BY <2>1, <2>3 DEF Among
  <2>8. \A k \in 1..(written + 1) : k \in 1..written \/ k = written + 1
    BY BufferType
  <2>9. \A k \in 1..(written + 1) : Among(Entries(files'), buffered[k].rec)
    BY <1>2, <2>4, <2>6, <2>7, <2>8
  <2>. QED
    BY <1>2, <2>4, <2>5, <2>6, <2>9 DEF AcceptedInv, InBuffer
<1>9. CASE FlushDone
  <2>1. /\ pc = "sync" /\ pc' = "idle" /\ Answer("ok") /\ UNCHANGED <<up, files>>
        /\ written = Len(buffered)
    BY <1>9 DEF FlushDone, disk, LsnInv, BufferInv
  <2>2. \A r \in Records : reply'[r] = "ok" => Ok(r) \/ InBuffer(r)
    BY <2>1 DEF Answer, InBuffer
  <2>3. \A r \in Records : InBuffer(r) => Among(Entries(files), r)
    BY <1>2, <2>1 DEF InBuffer
  <2>. QED
    BY <1>2, <2>1, <2>2, <2>3 DEF AcceptedInv
<1>10. CASE UndoTruncate
  <2>1. Kept' = Kept
    BY <1>10, UndoTruncateEntries
  <2>2. pc = "truncate" /\ pc' = "remove" /\ UNCHANGED <<up, reply, buffered>>
    BY <1>10 DEF UndoTruncate
  <2>3. \A r : Among(Kept, r) => Among(Entries(files'), r)
    BY <2>1 DEF Among, Kept
  <2>. QED
    BY <1>2, <2>1, <2>2, <2>3 DEF AcceptedInv, InBuffer
<1>11. CASE UndoRemove
  <2>1. Entries(files') = Kept
    BY <1>2, <1>11, UndoRemoveEntries
  <2>2. /\ pc = "remove" /\ pc' = "idle" /\ UNCHANGED <<up, buffered>>
        /\ \A r \in Records : reply'[r] = "ok" => Ok(r)
    BY <1>11 DEF UndoRemove, HasWaiters, Answer
  <2>. QED
    BY <1>2, <2>1, <2>2 DEF AcceptedInv, InBuffer
<1>12. CASE UndoFails
  BY <1>2, <1>12 DEF UndoFails, EndInv, RollbackInv
<1>13. CASE UNCHANGED vars
  BY <1>6, <1>13, SameEntries DEF vars
<1>. QED
  BY <1>1, <1>2, <1>4, <1>5, <1>7, <1>8, <1>9, <1>10, <1>11, <1>12, <1>13
     DEF WriterNext, FlushStep, Fault, Recover

(* With no_sync a record answered before it is written stays in the buffer *)
(* or in the log for as long as the process runs, through every flush that *)
(* fails: the buffer goes back whole and is flushed again                  *)
(* (flush_buffer_locked, state.buffered = buffered).                       *)
THEOREM AcceptedStays == ASSUME "undo" \notin Faults PROVE WriterSpec => []AcceptedKept
<1>1. WriterSpec => [](TypeOK /\ DurabilityInv /\ LsnInv)
  BY LsnCorrect
<1>2. Init => AcceptedInv
  BY DEF Init, AcceptedInv
<1>3. TypeOK /\ DurabilityInv /\ LsnInv /\ AcceptedInv /\ [WriterNext]_vars => AcceptedInv'
  BY NextAccepted
<1>4. AcceptedInv => AcceptedKept
  BY DEF AcceptedInv, AcceptedKept, Among, InBuffer
<1>. QED
  BY <1>1, <1>2, <1>3, <1>4, PTL DEF WriterSpec

-----------------------------------------------------------------------------
(* The promise of IngestLog.                                               *)

(* Fewer entries of distinct records keep their order.                     *)
LEMMA OrderKept ==
  ASSUME NEW E, NEW D \in SUBSET E,
         \A e \in E : e.rec \in Records,
         \A e, f \in E : e.rec = f.rec => e = f
  PROVE  OrderOf(D) = OrderOf(E) \cap (RecordsOf(D) \X RecordsOf(D))
<1>1. ASSUME NEW p \in OrderOf(D)
      PROVE  p \in OrderOf(E) /\ p \in RecordsOf(D) \X RecordsOf(D)
  BY DEF OrderOf, RecordsOf
<1>2. ASSUME NEW p \in OrderOf(E), p \in RecordsOf(D) \X RecordsOf(D)
      PROVE  p \in OrderOf(D)
  <2>1. PICK e \in E, f \in E : Before(e, f) /\ p = <<e.rec, f.rec>>
    BY DEF OrderOf
  <2>2. PICK c \in D, d \in D : p = <<c.rec, d.rec>>
    BY <1>2 DEF RecordsOf
  <2>3. c = e /\ d = f
    BY <2>1, <2>2
  <2>. QED
    BY <2>1, <2>2, <2>3 DEF OrderOf
<1>. QED
  BY <1>1, <1>2

(* An entry after all others comes last.                                   *)
LEMMA OrderExtended ==
  ASSUME NEW E, NEW n,
         \A e \in E : e.rec \in Records, n.rec \in Records,
         \A e \in E : Before(e, n) /\ ~ Before(n, e),
         ~ Before(n, n)
  PROVE  /\ RecordsOf(E \cup {n}) = RecordsOf(E) \cup {n.rec}
         /\ OrderOf(E \cup {n}) = OrderOf(E) \cup (RecordsOf(E) \X {n.rec})
<1>1. RecordsOf(E \cup {n}) = RecordsOf(E) \cup {n.rec}
  BY DEF RecordsOf
<1>2. ASSUME NEW p \in OrderOf(E \cup {n})
      PROVE  p \in OrderOf(E) \cup (RecordsOf(E) \X {n.rec})
  <2>1. PICK e \in E \cup {n}, f \in E \cup {n} : Before(e, f) /\ p = <<e.rec, f.rec>>
    BY DEF OrderOf
  <2>2. e \in E
    BY <2>1
  <2>. QED
    BY <2>1, <2>2 DEF OrderOf, RecordsOf
<1>3. ASSUME NEW p \in OrderOf(E) \cup (RecordsOf(E) \X {n.rec})
      PROVE  p \in OrderOf(E \cup {n})
  <2>1. CASE p \in OrderOf(E)
    BY <2>1 DEF OrderOf
  <2>2. CASE p \in RecordsOf(E) \X {n.rec}
    <3>1. PICK e \in E : p = <<e.rec, n.rec>>
      BY <2>2 DEF RecordsOf
    <3>. QED
      BY <3>1 DEF OrderOf
  <2>. QED
    BY <1>3, <2>1, <2>2
<1>. QED
  BY <1>1, <1>2, <1>3

(* No record is in the log twice, or in it and still to be written.        *)
UniqueInv ==
  ~NoSync =>
    /\ \A e, f \in Entries(files) : e.rec = f.rec => e = f
    /\ \A j, k \in 1..Len(buffered) : buffered[j].rec = buffered[k].rec => j = k
    /\ pc = "write" =>
         \A e \in Entries(files) : \A k \in (written + 1)..Len(buffered) : e.rec # buffered[k].rec

LEMMA BufferRecords ==
  ASSUME TypeOK, NEW k \in 1..Len(buffered)
  PROVE  buffered[k].rec \in Records
<1>1. buffered \in Seq(Buffered)
  BY DEF TypeOK
<1>2. buffered[k] \in Buffered
  BY <1>1
<1>. QED
  BY <1>2 DEF Buffered

(* While nothing is flushed, what is buffered is not in the log.           *)
LEMMA BufferedIsNew ==
  ASSUME TypeOK, AckInv, ~NoSync, pc = "idle",
         NEW e \in Entries(files), NEW k \in 1..Len(buffered)
  PROVE  e.rec # buffered[k].rec
<1>1. buffered[k].rec \in Records
  BY BufferRecords
<1>2. reply[buffered[k].rec] = "pending"
  BY <1>1 DEF AckInv, PendingInv
<1>. QED
  BY <1>2, EntrySender

LEMMA NextUnique ==
  ASSUME "undo" \notin Faults, ~NoSync, TypeOK, DurabilityInv, UniqueInv, [WriterNext]_vars
  PROVE  UniqueInv'
<1>1. AckInv /\ EndInv /\ PendingInv
  BY DEF DurabilityInv, AckInv
<1>2. ASSUME NEW r \in Records, AppendRecord(r) PROVE UniqueInv'
  <2> DEFINE new == [lsn |-> nextLsn, rec |-> r]
  <2>1. /\ pc = "idle" /\ reply[r] = "none" /\ UNCHANGED files
        /\ buffered' = Append(buffered, new)
        /\ pc' = "write" => written' = 0
    BY <1>2 DEF AppendRecord, disk, StartFlush, flushing
  <2>2. new \in Buffered /\ new.rec = r
    BY DEF TypeOK, Buffered
  <2>. HIDE DEF new
  <2>3. /\ Len(buffered) \in Nat /\ Len(buffered') = Len(buffered) + 1
        /\ \A k \in 1..Len(buffered) : buffered'[k] = buffered[k]
        /\ buffered'[Len(buffered) + 1] = new
    BY <2>1, <2>2 DEF TypeOK
  <2>4. ASSUME NEW k \in 1..Len(buffered)
        PROVE  buffered[k].rec # r /\ \A e \in Entries(files) : e.rec # buffered[k].rec
    <3>1. buffered[k].rec \in Records
      BY BufferRecords
    <3>2. reply[buffered[k].rec] = "pending"
      BY <1>1, <3>1 DEF PendingInv
    <3>. QED
      BY <1>1, <2>1, <3>2, BufferedIsNew
  <2>5. \A k \in 1..Len(buffered') : k \in 1..Len(buffered) \/ k = Len(buffered) + 1
    BY <2>3
  <2>6. \A j, k \in 1..Len(buffered') : buffered'[j].rec = buffered'[k].rec => j = k
    <3>1. \A j, k \in 1..Len(buffered) : buffered[j].rec = buffered[k].rec => j = k
      BY DEF UniqueInv
    <3>. QED
      BY <2>2, <2>3, <2>4, <2>5, <3>1
  <2>7. \A e \in Entries(files) : e.rec # r
    BY <1>1, <2>1, EntrySender
  <2>8. \A e \in Entries(files) : \A k \in 1..Len(buffered') : e.rec # buffered'[k].rec
    BY <2>2, <2>3, <2>4, <2>5, <2>7
  <2>9. \A e, f \in Entries(files) : e.rec = f.rec => e = f
    BY DEF UniqueInv
  <2>10. pc' = "write" =>
           \A e \in Entries(files) :
             \A k \in (written' + 1)..Len(buffered') : e.rec # buffered'[k].rec
    BY <2>1, <2>8
  <2>. QED
    BY <2>1, <2>6, <2>9, <2>10 DEF UniqueInv
<1>3. CASE FlushTick
  <2>1. /\ pc = "idle" /\ UNCHANGED <<files, buffered>> /\ written' = 0
    BY <1>3 DEF FlushTick, disk, StartFlush
  <2>2. \A e \in Entries(files) : \A k \in 1..Len(buffered) : e.rec # buffered[k].rec
    BY <1>1, <2>1, BufferedIsNew
  <2>. QED
    BY <2>1, <2>2 DEF UniqueInv
<1>4. CASE WriteFrame
  <2>1. Entries(files') = Entries(files) \cup {NewEntry}
    BY <1>1, <1>4, WriteFrameEntries
  <2>2. /\ pc = "write" /\ written' = written + 1 /\ buffered' = buffered
        /\ written + 1 \in 1..Len(buffered) /\ Len(buffered) \in Nat /\ written \in Nat
    BY <1>4, BufferType DEF WriteFrame
  <2>3. NewEntry.rec = buffered[written + 1].rec
    BY DEF NewEntry, NextFrame
  <2>. HIDE DEF NewEntry
  <2>4. \A e \in Entries(files) :
          \A k \in (written + 1)..Len(buffered) : e.rec # buffered[k].rec
    BY <2>2 DEF UniqueInv
  <2>5. \A e \in Entries(files) : e.rec # NewEntry.rec
    BY <2>2, <2>3, <2>4
  <2>6. \A e, f \in Entries(files') : e.rec = f.rec => e = f
    <3>1. \A e, f \in Entries(files) : e.rec = f.rec => e = f
      BY DEF UniqueInv
    <3>. QED
      BY <2>1, <2>5, <3>1
  <2>7. \A k \in (written + 2)..Len(buffered) : NewEntry.rec # buffered[k].rec
    <3>1. \A j, k \in 1..Len(buffered) : buffered[j].rec = buffered[k].rec => j = k
      BY DEF UniqueInv
    <3>2. \A k \in (written + 2)..Len(buffered) : k \in 1..Len(buffered) /\ k # written + 1
      BY <2>2
    <3>. QED
      BY <2>2, <2>3, <3>1, <3>2
  <2>8. \A e \in Entries(files') :
          \A k \in (written' + 1)..Len(buffered) : e.rec # buffered[k].rec
    <3>1. \A k \in (written' + 1)..Len(buffered) :
            k \in (written + 1)..Len(buffered) /\ k \in (written + 2)..Len(buffered)
      BY <2>2
    <3>. QED
      BY <2>1, <2>4, <2>7, <3>1
  <2>. QED
    BY <2>2, <2>6, <2>8 DEF UniqueInv
<1>5. ASSUME Entries(files') \subseteq Entries(files),
             UNCHANGED buffered \/ buffered' = <<>>,
             pc' # "write" \/ (pc = "write" /\ UNCHANGED <<written, buffered>>)
      PROVE  UniqueInv'
  BY <1>5 DEF UniqueInv
<1>6. CASE Rotate \/ SyncNext \/ RotateFails \/ WriteFails \/ SyncFails
  BY <1>5, <1>6, SameEntries
     DEF Rotate, SyncNext, RotateFails, WriteFails, SyncFails, flushing
<1>7. CASE FlushDone
  BY <1>5, <1>7, SameEntries DEF FlushDone
<1>8. CASE UndoTruncate
  BY <1>5, <1>8, UndoTruncateEntries DEF UndoTruncate
<1>9. CASE UndoRemove
  BY <1>1, <1>5, <1>9, UndoRemoveEntries DEF UndoRemove, Kept
<1>10. CASE UndoFails
  BY <1>1, <1>10 DEF UndoFails, EndInv, RollbackInv
<1>11. CASE Crash \/ PowerLoss
  BY <1>5, <1>11, SameEntries, PowerLossEntries DEF Crash, PowerLoss, LoseMemory
<1>12. CASE Recover
  BY <1>1, <1>5, <1>12, SameEntries DEF Recover, flushing, EndInv, DownInv
<1>13. CASE UNCHANGED vars
  BY <1>5, <1>13, SameEntries DEF vars
<1>. QED
  BY <1>2, <1>3, <1>4, <1>6, <1>7, <1>8, <1>9, <1>10, <1>11, <1>12, <1>13
     DEF WriterNext, FlushStep, Fault

(* While the checkpoint does not move, replay has everything to read.      *)
LEMMA QueueIsLog ==
  ASSUME TypeOK, TypeOK', DurabilityInv, [WriterNext]_vars
  PROVE  /\ EntriesAfter(files, checkpoint) = Entries(files)
         /\ EntriesAfter(files', checkpoint') = Entries(files')
<1>1. checkpoint = NoCheckpoint /\ checkpoint' = NoCheckpoint
  BY CheckpointStays DEF DurabilityInv
<1>2. EntriesAfter(files, NoCheckpoint) = Entries(files)
  BY <1>1, NoCheckpointReadsAll
<1>3. \A e \in Entries(files') : e.segment > NoCheckpoint.segment
  BY EntryType DEF NoCheckpoint, TypeOK
<1>4. EntriesAfter(files', NoCheckpoint) = Entries(files')
  BY <1>3 DEF EntriesAfter
<1>. QED
  BY <1>1, <1>2, <1>4

(* A step that moves no entry and answers nobody is none of the queue.     *)
LEMMA QueueStutter ==
  ASSUME TypeOK, TypeOK', DurabilityInv, [WriterNext]_vars,
         Entries(files') = Entries(files), UNCHANGED reply
  PROVE  UNCHANGED Promise!vars
BY QueueIsLog, DeliveredStays DEF Promise!vars

LEMMA QueueSend ==
  ASSUME TypeOK, TypeOK', DurabilityInv, [WriterNext]_vars, ~NoSync,
         NEW r \in Records, AppendRecord(r)
  PROVE  Promise!Send(r)
<1>1. reply[r] = "none" /\ reply' = [reply EXCEPT ![r] = "pending"]
  BY DEF AppendRecord
<1>2. Entries(files') = Entries(files)
  BY SameEntries
<1>. QED
  BY <1>1, <1>2, QueueIsLog, DeliveredStays DEF Promise!Send

LEMMA QueueWrite ==
  ASSUME TypeOK, TypeOK', DurabilityInv, RefusedInv, UniqueInv, [WriterNext]_vars, ~NoSync,
         WriteFrame
  PROVE  \E r \in Records : Promise!Write(r)
<1> DEFINE E == Entries(files)
<1>1. /\ Entries(files') = E \cup {NewEntry}
      /\ \A e \in E : Before(e, NewEntry)
      /\ NextFrame \in Buffered
  BY WriteFrameEntries DEF DurabilityInv
<1>2. NewEntry.rec = NextFrame.rec /\ NewEntry.rec \in Records
  BY <1>1 DEF NewEntry, Buffered
<1>3. ~ Before(NewEntry, NewEntry) /\ \A e \in E : ~ Before(NewEntry, e)
  <2>1. NewEntry.segment \in Nat /\ NewEntry.index \in Nat
    BY DEF NewEntry, TypeOK
  <2>2. \A e \in E : e.segment \in Nat /\ e.index \in Nat
    BY EntryType DEF TypeOK
  <2>. QED
    BY <1>1, <2>1, <2>2 DEF Before
<1>4. written + 1 \in 1..Len(buffered) /\ pc = "write" /\ UNCHANGED reply
      /\ written + 1 \in (written + 1)..Len(buffered)
  BY BufferType DEF WriteFrame
<1>5. reply[NewEntry.rec] = "pending"
  BY <1>2, <1>4 DEF DurabilityInv, AckInv, PendingInv, NextFrame
<1>6. \A e \in E : e.rec # NewEntry.rec
  BY <1>2, <1>4 DEF UniqueInv, NextFrame
<1>7. \A e \in E : e.rec \in Records
  BY EntryType DEF TypeOK
<1>. HIDE DEF E, NewEntry
<1>8. /\ RecordsOf(E \cup {NewEntry}) = RecordsOf(E) \cup {NewEntry.rec}
      /\ OrderOf(E \cup {NewEntry}) = OrderOf(E) \cup (RecordsOf(E) \X {NewEntry.rec})
  BY <1>1, <1>2, <1>3, <1>7, OrderExtended
<1>9. NewEntry.rec \notin RecordsOf(E) \cup delivered
  BY <1>6 DEF RecordsOf, RefusedInv
<1>10. EntriesAfter(files, checkpoint) = E /\ EntriesAfter(files', checkpoint') = E \cup {NewEntry}
  BY <1>1, QueueIsLog DEF E
<1>. QED
  BY <1>2, <1>4, <1>5, <1>8, <1>9, <1>10, DeliveredStays DEF Promise!Write

LEMMA QueueAcknowledge ==
  ASSUME TypeOK, TypeOK', DurabilityInv, [WriterNext]_vars, ~NoSync, FlushDone
  PROVE  Promise!Acknowledge
<1> DEFINE rs == {r \in Records : reply[r] = "pending"}
<1>1. /\ pc = "sync" /\ Answer("ok") /\ buffered' = <<>>
  BY DEF FlushDone
<1>2. \A r \in Records : reply'[r] = IF reply[r] = "pending" THEN "ok" ELSE reply[r]
  BY <1>1, AnswerAll DEF DurabilityInv, AckInv
<1>3. reply' = [r \in Records |-> IF r \in rs THEN "ok" ELSE reply[r]]
  BY <1>2 DEF TypeOK
<1>4. ASSUME NEW r \in rs PROVE r \in RecordsOf(Entries(files))
  <2>1. \E k \in 1..written : buffered[k].rec = r
    BY <1>1 DEF DurabilityInv, AckInv, PendingInv, LoggedInv
  <2>2. Logged(r)
    BY <1>1, <2>1 DEF DurabilityInv, LoggedInv
  <2>3. PICK s \in DOMAIN files : \E i \in FrameIndexes(files[s]) : files[s].cells[i].rec = r
    BY <2>2 DEF Logged
  <2>4. PICK i \in FrameIndexes(files[s]) : files[s].cells[i].rec = r
    BY <2>3
  <2>5. EntryAt(files, s, i) \in Entries(files)
    BY EntryIs
  <2>6. EntryAt(files, s, i).rec = r
    BY <2>4 DEF EntryAt
  <2>. QED
    BY <2>5, <2>6 DEF RecordsOf
<1>5. Entries(files') = Entries(files)
  BY SameEntries
<1>6. \A r \in rs : reply[r] = "pending"
  OBVIOUS
<1>. HIDE DEF rs
<1>7. rs \in SUBSET (RecordsOf(Entries(files)) \cup delivered)
  BY <1>4
<1>. QED
  BY <1>3, <1>5, <1>6, <1>7, QueueIsLog, DeliveredStays DEF Promise!Acknowledge

(* Entries disappear, but none whose sender was promised to find it there. *)
LEMMA QueueFail ==
  ASSUME TypeOK, TypeOK', DurabilityInv, UniqueInv, [WriterNext]_vars, ~NoSync,
         Entries(files') \subseteq Entries(files),
         \A e \in Entries(files) : reply[e.rec] = "ok" => e \in Entries(files'),
         \/ UNCHANGED reply
         \/ \E how \in {"err", "lost"} : \A r \in Records :
              reply'[r] = IF reply[r] = "pending" THEN how ELSE reply[r]
  PROVE  Promise!Fail
<1> DEFINE E == Entries(files)
           D == Entries(files')
           rs == {r \in Records : reply[r] = "pending"}
<1>1. Promise!Disappoint \/ UNCHANGED reply
  <2>1. CASE \E how \in {"err", "lost"} : \A r \in Records :
               reply'[r] = IF reply[r] = "pending" THEN how ELSE reply[r]
    <3>1. PICK how \in {"err", "lost"} : \A r \in Records :
            reply'[r] = IF reply[r] = "pending" THEN how ELSE reply[r]
      BY <2>1
    <3>2. reply' = [r \in Records |-> IF r \in rs THEN how ELSE reply[r]]
      BY <3>1 DEF TypeOK
    <3>. QED
      BY <3>2 DEF Promise!Disappoint
  <2>. QED
    BY <2>1
<1>2. \A e \in E : e.rec \in Records
  BY EntryType DEF TypeOK
<1>3. \A e, f \in E : e.rec = f.rec => e = f
  BY DEF UniqueInv
<1>4. D \in SUBSET E /\ \A e \in E : reply[e.rec] = "ok" => e \in D
  OBVIOUS
<1>5. EntriesAfter(files, checkpoint) = E /\ EntriesAfter(files', checkpoint') = D
  BY QueueIsLog
<1>. HIDE DEF D, E
<1>6. OrderOf(D) = OrderOf(E) \cap (RecordsOf(D) \X RecordsOf(D))
  BY <1>2, <1>3, <1>4, OrderKept
<1>7. RecordsOf(D) \in SUBSET RecordsOf(E)
  BY <1>4 DEF RecordsOf
<1>8. Promise!Promised \cap RecordsOf(E) \subseteq RecordsOf(D)
  BY <1>4 DEF Promise!Promised, RecordsOf
<1>9. Promise!Forget
  BY <1>5, <1>6, <1>7, <1>8 DEF Promise!Forget, Promise!Keep
<1>. QED
  BY <1>1, <1>9, DeliveredStays DEF Promise!Fail

(* What an acknowledgement vouches for is there after every step.          *)
LEMMA AckedEntryStays ==
  ASSUME TypeOK, DurabilityInv, [WriterNext]_vars, ~NoSync, TypeOK',
         NEW e \in Entries(files), reply[e.rec] = "ok"
  PROVE  e \in Entries(files')
<1>1. /\ e.segment \in DOMAIN files /\ e.index \in FrameIndexes(files[e.segment])
      /\ e = EntryAt(files, e.segment, e.index) /\ e.segment \in Nat \ {0} /\ e.rec \in Records
  BY EntryPlace, EntryType DEF TypeOK
<1>2. Acked(files[e.segment].cells[e.index].rec)
  BY <1>1 DEF Acked, EntryAt
<1>3. [Next]_vars
  BY DEF Next
<1>4. ~ (e.segment < checkpoint'.segment)
  BY <1>1, CheckpointStays DEF DurabilityInv, NoCheckpoint
<1>5. Stays(e.segment, e.index)
  BY <1>1, <1>2, <1>3, <1>4, FramesStay DEF DurabilityInv
<1>6. e = EntryAt(files', e.segment, e.index)
  BY <1>1, <1>5 DEF Stays, EntryAt
<1>. QED
  BY <1>5, <1>6, EntryIs DEF Stays

LEMMA QueueStep ==
  ASSUME "undo" \notin Faults, ~NoSync, TypeOK, TypeOK', DurabilityInv, RefusedInv, UniqueInv,
         [WriterNext]_vars
  PROVE  [Promise!Next]_(Promise!vars)
<1>1. AckInv /\ EndInv /\ PendingInv
  BY DEF DurabilityInv, AckInv
<1>2. ASSUME NEW r \in Records, AppendRecord(r) PROVE Promise!Next
  BY <1>2, QueueSend DEF Promise!Next
<1>3. CASE WriteFrame
  BY <1>3, QueueWrite DEF Promise!Next
<1>4. CASE FlushDone
  BY <1>4, QueueAcknowledge DEF Promise!Next
<1>5. CASE FlushTick \/ Rotate \/ SyncNext \/ RotateFails \/ WriteFails \/ SyncFails
           \/ Recover \/ UNCHANGED vars
  <2>1. UNCHANGED reply
    BY <1>5 DEF FlushTick, Rotate, SyncNext, RotateFails, WriteFails, SyncFails, Recover, vars
  <2>. QED
    BY <1>5, <2>1, SameEntries, QueueStutter
<1>6. CASE UndoTruncate
  <2>1. UNCHANGED reply /\ Entries(files') \subseteq Entries(files)
    BY <1>6, UndoTruncateEntries DEF UndoTruncate
  <2>. QED
    BY <2>1, QueueFail, AckedEntryStays DEF Promise!Next
<1>7. CASE UndoRemove
  <2>1. Answer("err") /\ buffered' = <<>>
    BY <1>7 DEF UndoRemove, HasWaiters
  <2>2. \A r \in Records : reply'[r] = IF reply[r] = "pending" THEN "err" ELSE reply[r]
    BY <1>1, <2>1, AnswerAll
  <2>3. Entries(files') \subseteq Entries(files)
    BY <1>1, <1>7, UndoRemoveEntries DEF Kept
  <2>. QED
    BY <2>2, <2>3, QueueFail, AckedEntryStays DEF Promise!Next
<1>8. CASE UndoFails
  BY <1>1, <1>8 DEF UndoFails, EndInv, RollbackInv
<1>9. CASE Crash \/ PowerLoss
  <2>1. \A r \in Records : reply'[r] = IF reply[r] = "pending" THEN "lost" ELSE reply[r]
    BY <1>9 DEF Crash, PowerLoss, LoseMemory
  <2>2. Entries(files') \subseteq Entries(files)
    BY <1>9, SameEntries, PowerLossEntries
  <2>. QED
    BY <2>1, <2>2, QueueFail, AckedEntryStays DEF Promise!Next
<1>. QED
  BY <1>2, <1>3, <1>4, <1>5, <1>6, <1>7, <1>8, <1>9 DEF WriterNext, FlushStep, Fault

LEMMA QueueInit == Init => Promise!Init
<1>. SUFFICES ASSUME Init PROVE Promise!Init
  OBVIOUS
<1>1. EntriesAfter(files, checkpoint) = {}
  BY InitEntries DEF EntriesAfter
<1>. QED
  BY <1>1 DEF Init, Promise!Init, RecordsOf, OrderOf

(* The writer implements IngestLog: under every write, sync or disk-space  *)
(* failure, crash and power failure, in the default mode, each of its      *)
(* steps is one of the queue's or changes nothing of it.  A record enters  *)
(* once and last, an acknowledgement is for what is in the queue, and what *)
(* a rollback, a crash or a recovery takes away was promised to nobody.    *)
THEOREM WriterKeepsPromise ==
  ASSUME "undo" \notin Faults, ~NoSync PROVE WriterSpec => KeepsPromise
<1>1. WriterSpec => [](TypeOK /\ DurabilityInv)
  BY DurabilityCorrect
<1>2. Init => RefusedInv /\ UniqueInv
  BY InitEntries DEF Init, RefusedInv, Kept, UniqueInv
<1>3. TypeOK /\ DurabilityInv /\ RefusedInv /\ UniqueInv /\ [WriterNext]_vars =>
        RefusedInv' /\ UniqueInv'
  BY NextRefused, NextUnique
<1>4. TypeOK /\ TypeOK' /\ DurabilityInv /\ RefusedInv /\ UniqueInv /\ [WriterNext]_vars =>
        [Promise!Next]_(Promise!vars)
  BY QueueStep
<1>. QED
  BY <1>1, <1>2, <1>3, <1>4, QueueInit, PTL DEF WriterSpec, KeepsPromise, Promise!Spec
=============================================================================
