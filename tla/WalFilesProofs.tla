--------------------------- MODULE WalFilesProofs ---------------------------
(***************************************************************************)
(* Lemmas about the WAL directory, for the proofs about its writer and     *)
(* about the replay loop.                                                  *)
(***************************************************************************)
EXTENDS WalFiles, TLAPS

-----------------------------------------------------------------------------
(* The operations on the directory keep it well formed.                    *)

LEMMA FrameIsCell ==
  ASSUME NEW lsn \in Nat, NEW rec \in Records
  PROVE  Frame(lsn, rec) \in Cell
BY DEF Frame, Cell

LEMMA TornIsCell == Torn \in Cell /\ Zero \in Cell
BY DEF Torn, Zero, Cell

LEMMA SetLenType ==
  ASSUME NEW cells \in Seq(Cell), NEW n \in Nat
  PROVE  SetLen(cells, n) \in Seq(Cell) /\ Len(SetLen(cells, n)) = n
<1>1. CASE n <= Len(cells)
  BY <1>1 DEF SetLen
<1>2. CASE ~ (n <= Len(cells))
  <2> DEFINE zeros == [i \in 1..(n - Len(cells)) |-> Zero]
  <2>1. n - Len(cells) \in Nat
    BY <1>2
  <2>2. zeros \in Seq(Cell) /\ Len(zeros) = n - Len(cells)
    BY <2>1, TornIsCell
  <2>3. SetLen(cells, n) = cells \o zeros
    BY <1>2 DEF SetLen
  <2>. QED
    BY <2>1, <2>2, <2>3
<1>. QED
  BY <1>1, <1>2

(* Replacing one file by a segment.                                        *)
LEMMA ReplaceSegment ==
  ASSUME NEW fs, IsDirectory(fs), NEW s \in DOMAIN fs, NEW f \in Segment
  PROVE  IsDirectory([fs EXCEPT ![s] = f])
BY DEF IsDirectory

LEMMA AppendCellType ==
  ASSUME NEW fs, IsDirectory(fs), NEW s \in DOMAIN fs, NEW cell \in Cell
  PROVE  IsDirectory(AppendCell(fs, s, cell))
<1> DEFINE f == [fs[s] EXCEPT !.cells = Append(fs[s].cells, cell)]
<1>1. fs[s] \in Segment
  BY DEF IsDirectory
<1>2. /\ Append(fs[s].cells, cell) \in Seq(Cell)
      /\ Len(Append(fs[s].cells, cell)) = Len(fs[s].cells) + 1
  BY <1>1 DEF Segment
<1>3. f \in Segment
  BY <1>1, <1>2 DEF Segment
<1>4. AppendCell(fs, s, cell) = [fs EXCEPT ![s] = f]
  BY DEF AppendCell, IsDirectory
<1>. HIDE DEF f
<1>5. IsDirectory([fs EXCEPT ![s] = f])
  BY <1>3, ReplaceSegment
<1>. QED
  BY <1>4, <1>5

LEMMA SyncType ==
  ASSUME NEW fs, IsDirectory(fs), NEW s \in DOMAIN fs
  PROVE  IsDirectory(SyncSegment(fs, s))
<1> DEFINE f == [fs[s] EXCEPT !.synced = Len(fs[s].cells)]
<1>1. fs[s] \in Segment
  BY DEF IsDirectory
<1>2. f \in Segment
  BY <1>1 DEF Segment
<1>3. SyncSegment(fs, s) = [fs EXCEPT ![s] = f]
  BY DEF SyncSegment, IsDirectory
<1>. HIDE DEF f
<1>5. IsDirectory([fs EXCEPT ![s] = f])
  BY <1>2, ReplaceSegment
<1>. QED
  BY <1>3, <1>5

LEMMA TruncateType ==
  ASSUME NEW fs, IsDirectory(fs), NEW s \in DOMAIN fs, NEW n \in Nat
  PROVE  IsDirectory(Truncate(fs, s, n))
<1> DEFINE cut == SetLen(fs[s].cells, n)
           f == [start |-> fs[s].start, cells |-> cut, synced |-> n]
<1>1. fs[s] \in Segment
  BY DEF IsDirectory
<1>2. fs[s].cells \in Seq(Cell)
  BY <1>1 DEF Segment
<1>3. cut \in Seq(Cell) /\ Len(cut) = n
  BY <1>2, SetLenType
<1>4. Truncate(fs, s, n) = [fs EXCEPT ![s] = f]
  BY DEF Truncate, IsDirectory
<1>. HIDE DEF cut
<1>6. f \in Segment
  BY <1>1, <1>3 DEF Segment
<1>. HIDE DEF f
<1>5. IsDirectory([fs EXCEPT ![s] = f])
  BY <1>6, ReplaceSegment
<1>. QED
  BY <1>4, <1>5

LEMMA EnsureType ==
  ASSUME NEW fs, IsDirectory(fs), NEW s \in Nat \ {0}, NEW start \in Nat
  PROVE  IsDirectory(EnsureSegment(fs, s, start)) /\ s \in DOMAIN EnsureSegment(fs, s, start)
<1>1. EmptySegment(start) \in Segment
  BY DEF EmptySegment, Segment
<1>. QED
  BY <1>1 DEF EnsureSegment, WithSegment, IsDirectory

LEMMA WithoutType ==
  ASSUME NEW fs, IsDirectory(fs), NEW gone
  PROVE  IsDirectory(WithoutSegments(fs, gone))
BY DEF IsDirectory, WithoutSegments

(* A scan returns frames: a numbered record at a place in the directory.   *)
LEMMA EntryType ==
  ASSUME NEW fs, IsDirectory(fs), NEW e \in Entries(fs)
  PROVE  /\ e.segment \in DOMAIN fs
         /\ e.segment \in Nat \ {0}
         /\ e.index \in Nat
         /\ e.lsn \in Nat
         /\ e.rec \in Records
<1>1. PICK s \in DOMAIN fs : \E i \in FrameIndexes(fs[s]) :
        e = [segment |-> s, index |-> i, lsn |-> fs[s].cells[i].lsn, rec |-> fs[s].cells[i].rec]
  BY DEF Entries
<1>6. PICK i \in FrameIndexes(fs[s]) :
        e = [segment |-> s, index |-> i, lsn |-> fs[s].cells[i].lsn, rec |-> fs[s].cells[i].rec]
  BY <1>1
<1>2. fs[s].cells \in Seq(Cell) /\ s \in Nat \ {0}
  BY DEF IsDirectory, Segment
<1>3. i \in 1..Len(fs[s].cells) /\ fs[s].cells[i].kind = "frame"
  BY DEF FrameIndexes
<1>4. fs[s].cells[i] \in Cell
  BY <1>2, <1>3
<1>5. fs[s].cells[i].lsn \in Nat /\ fs[s].cells[i].rec \in Records
  BY <1>3, <1>4 DEF Cell, Torn, Zero
<1>. QED
  BY <1>2, <1>3, <1>5, <1>6

-----------------------------------------------------------------------------
(* Frames under the operations on the directory.                           *)

(* Every frame a scan of gs finds was already found at its place in fs.    *)
FramesFrom(gs, fs) ==
  \A s \in DOMAIN gs : \A i \in FrameIndexes(gs[s]) :
    /\ s \in DOMAIN fs
    /\ i \in FrameIndexes(fs[s])
    /\ gs[s].cells[i] = fs[s].cells[i]

LEMMA FrameFacts ==
  ASSUME NEW fs, IsDirectory(fs), NEW s \in DOMAIN fs, NEW i \in FrameIndexes(fs[s])
  PROVE  /\ s \in Nat \ {0}
         /\ i \in Nat /\ i \in 1..Len(fs[s].cells)
         /\ fs[s].cells[i] \in Cell
         /\ fs[s].cells[i].kind = "frame"
         /\ fs[s].cells[i].rec \in Records
<1>1. fs[s].cells \in Seq(Cell) /\ s \in Nat \ {0}
  BY DEF IsDirectory, Segment
<1>2. i \in 1..Len(fs[s].cells) /\ fs[s].cells[i].kind = "frame"
  BY DEF FrameIndexes
<1>3. fs[s].cells[i] \in Cell
  BY <1>1, <1>2
<1>. QED
  BY <1>1, <1>2, <1>3 DEF Cell, Torn, Zero

(* Cells that agree up to a frame have the frame in common.                *)
LEMMA CommonPrefix ==
  ASSUME NEW f, NEW g, NEW i \in FrameIndexes(g),
         i \in 1..Len(f.cells),
         \A j \in 1..i : g.cells[j] = f.cells[j]
  PROVE  i \in FrameIndexes(f)
BY DEF FrameIndexes

LEMMA SetLenCells ==
  ASSUME NEW cells \in Seq(Cell), NEW n \in Nat, NEW i \in 1..n
  PROVE  SetLen(cells, n)[i] = IF i <= Len(cells) THEN cells[i] ELSE Zero
<1>1. CASE n <= Len(cells)
  BY <1>1 DEF SetLen
<1>2. CASE ~ (n <= Len(cells))
  <2> DEFINE zeros == [j \in 1..(n - Len(cells)) |-> Zero]
  <2>1. n - Len(cells) \in Nat /\ Len(cells) \in Nat
    BY <1>2
  <2>2. zeros \in Seq(Cell) /\ Len(zeros) = n - Len(cells)
    BY <2>1, TornIsCell
  <2>3. SetLen(cells, n) = cells \o zeros
    BY <1>2 DEF SetLen
  <2>4. CASE i <= Len(cells)
    BY <2>1, <2>2, <2>3, <2>4
  <2>5. CASE ~ (i <= Len(cells))
    <3>1. i - Len(cells) \in 1..(n - Len(cells))
      BY <2>1, <2>5
    <3>2. (cells \o zeros)[i] = zeros[i - Len(cells)]
      BY <2>1, <2>2, <2>5, <3>1
    <3>. QED
      BY <2>3, <2>5, <3>1, <3>2
  <2>. QED
    BY <2>4, <2>5
<1>. QED
  BY <1>1, <1>2

LEMMA TruncateFrames ==
  ASSUME NEW fs, IsDirectory(fs), NEW t \in DOMAIN fs, NEW n \in Nat
  PROVE  /\ FramesFrom(Truncate(fs, t, n), fs)
         /\ DOMAIN Truncate(fs, t, n) = DOMAIN fs
         /\ \A i \in FrameIndexes(Truncate(fs, t, n)[t]) : i <= n
         /\ Truncate(fs, t, n)[t].synced = n
         /\ \A s \in DOMAIN fs : s # t => Truncate(fs, t, n)[s] = fs[s]
<1> DEFINE gs == Truncate(fs, t, n)
           cut == SetLen(fs[t].cells, n)
<1>1. /\ DOMAIN gs = DOMAIN fs
      /\ gs[t] = [start |-> fs[t].start, cells |-> cut, synced |-> n]
      /\ \A s \in DOMAIN fs : s # t => gs[s] = fs[s]
  BY DEF Truncate, IsDirectory
<1>2. fs[t].cells \in Seq(Cell)
  BY DEF IsDirectory, Segment
<1>3. Len(cut) = n
  BY <1>2, SetLenType
<1>4. \A j \in 1..n : cut[j] = IF j <= Len(fs[t].cells) THEN fs[t].cells[j] ELSE Zero
  BY <1>2, SetLenCells
<1>. HIDE DEF cut, gs
<1>5. gs[t].cells = cut /\ gs[t].synced = n
  BY <1>1
<1>6. ASSUME NEW i \in FrameIndexes(gs[t])
      PROVE  i <= n /\ i \in FrameIndexes(fs[t]) /\ gs[t].cells[i] = fs[t].cells[i]
  <2>1. i \in 1..n /\ \A j \in 1..i : cut[j].kind = "frame"
    BY <1>3, <1>5 DEF FrameIndexes
  <2>2. \A j \in 1..i : j \in 1..n
    BY <2>1
  <2>3. \A j \in 1..i : j <= Len(fs[t].cells) /\ cut[j] = fs[t].cells[j]
    BY <1>4, <2>1, <2>2 DEF Zero
  <2>4. i \in 1..i
    BY <2>1
  <2>5. i \in 1..Len(fs[t].cells)
    BY <1>2, <2>1, <2>3, <2>4
  <2>6. i \in FrameIndexes(fs[t])
    BY <1>5, <2>3, <2>5, CommonPrefix
  <2>. QED
    BY <1>5, <2>1, <2>3, <2>4, <2>6
<1>7. FramesFrom(gs, fs)
  BY <1>1, <1>6 DEF FramesFrom
<1>. QED
  BY <1>1, <1>5, <1>6, <1>7 DEF gs

LEMMA WithoutFrames ==
  ASSUME NEW fs, NEW gone
  PROVE  /\ FramesFrom(WithoutSegments(fs, gone), fs)
         /\ DOMAIN WithoutSegments(fs, gone) = DOMAIN fs \ gone
         /\ \A s \in DOMAIN fs \ gone : WithoutSegments(fs, gone)[s] = fs[s]
BY DEF FramesFrom, WithoutSegments

LEMMA EnsureFrames ==
  ASSUME NEW fs, IsDirectory(fs), NEW t, NEW start
  PROVE  /\ FramesFrom(EnsureSegment(fs, t, start), fs)
         /\ \A s \in DOMAIN fs : s \in DOMAIN EnsureSegment(fs, t, start)
         /\ \A s \in DOMAIN fs : FrameIndexes(fs[s]) # {} => EnsureSegment(fs, t, start)[s] = fs[s]
<1>1. FrameIndexes(EmptySegment(start)) = {}
  BY DEF FrameIndexes, EmptySegment
<1>2. \A s \in DOMAIN fs : fs[s].cells = <<>> => FrameIndexes(fs[s]) = {}
  BY DEF FrameIndexes
<1>3. CASE EnsureSegment(fs, t, start) = fs
  BY <1>3 DEF FramesFrom
<1>4. CASE /\ EnsureSegment(fs, t, start) = WithSegment(fs, t, EmptySegment(start))
           /\ t \in DOMAIN fs => fs[t].cells = <<>>
  <2> DEFINE gs == EnsureSegment(fs, t, start)
  <2>1. /\ DOMAIN gs = DOMAIN fs \cup {t}
        /\ gs[t] = EmptySegment(start)
        /\ \A s \in DOMAIN fs : s # t => gs[s] = fs[s]
    BY <1>4 DEF WithSegment
  <2>. HIDE DEF gs
  <2>2. FramesFrom(gs, fs)
    BY <1>1, <2>1 DEF FramesFrom
  <2>3. \A s \in DOMAIN fs : FrameIndexes(fs[s]) # {} => gs[s] = fs[s]
    BY <1>2, <1>4, <2>1
  <2>. QED
    BY <2>1, <2>2, <2>3 DEF gs
<1>. QED
  BY <1>3, <1>4 DEF EnsureSegment

LEMMA SyncFrames ==
  ASSUME NEW fs, IsDirectory(fs), NEW t \in DOMAIN fs
  PROVE  /\ DOMAIN SyncSegment(fs, t) = DOMAIN fs
         /\ \A s \in DOMAIN fs :
              /\ FrameIndexes(SyncSegment(fs, t)[s]) = FrameIndexes(fs[s])
              /\ SyncSegment(fs, t)[s].cells = fs[s].cells
              /\ s # t => SyncSegment(fs, t)[s] = fs[s]
         /\ SyncSegment(fs, t)[t].synced = Len(fs[t].cells)
<1> DEFINE gs == SyncSegment(fs, t)
<1>1. /\ DOMAIN gs = DOMAIN fs
      /\ \A s \in DOMAIN fs : s # t => gs[s] = fs[s]
      /\ gs[t].cells = fs[t].cells
      /\ gs[t].synced = Len(fs[t].cells)
  BY DEF SyncSegment, IsDirectory, Segment
<1>. HIDE DEF gs
<1>2. \A s \in DOMAIN fs : gs[s].cells = fs[s].cells
  BY <1>1
<1>3. \A s \in DOMAIN fs : FrameIndexes(gs[s]) = FrameIndexes(fs[s])
  BY <1>2 DEF FrameIndexes
<1>. QED
  BY <1>1, <1>2, <1>3 DEF gs

(* Appending a cell adds at most one frame, right after the others.        *)
LEMMA AppendFrames ==
  ASSUME NEW fs, IsDirectory(fs), NEW t \in DOMAIN fs, NEW cell \in Cell
  PROVE  LET gs == AppendCell(fs, t, cell)
             last == Len(fs[t].cells) + 1
         IN /\ DOMAIN gs = DOMAIN fs
            /\ \A s \in DOMAIN fs : gs[s].synced = fs[s].synced
            /\ \A s \in DOMAIN fs : s # t => gs[s] = fs[s]
            /\ \A s \in DOMAIN fs : FrameIndexes(fs[s]) \subseteq FrameIndexes(gs[s])
            /\ \A s \in DOMAIN fs : \A i \in FrameIndexes(fs[s]) : gs[s].cells[i] = fs[s].cells[i]
            /\ \A i \in FrameIndexes(gs[t]) :
                 \/ i \in FrameIndexes(fs[t])
                 \/ /\ i = last /\ gs[t].cells[i] = cell /\ cell.kind = "frame"
                    /\ last # 1 => last - 1 \in FrameIndexes(fs[t])
<1> DEFINE gs == AppendCell(fs, t, cell)
           old == fs[t].cells
<1>1. old \in Seq(Cell) /\ Len(old) \in Nat
  BY DEF IsDirectory, Segment
<1>2. /\ DOMAIN gs = DOMAIN fs
      /\ \A s \in DOMAIN fs : s # t => gs[s] = fs[s]
      /\ gs[t].cells = Append(old, cell)
      /\ gs[t].synced = fs[t].synced
  BY DEF AppendCell, IsDirectory, Segment
<1>3. /\ Len(Append(old, cell)) = Len(old) + 1
      /\ \A i \in 1..Len(old) : Append(old, cell)[i] = old[i]
      /\ Append(old, cell)[Len(old) + 1] = cell
  BY <1>1
<1>. HIDE DEF gs, old
<1>4. \A i \in FrameIndexes(fs[t]) : i \in FrameIndexes(gs[t]) /\ gs[t].cells[i] = fs[t].cells[i]
  BY <1>1, <1>2, <1>3 DEF FrameIndexes, old
<1>5. ASSUME NEW i \in FrameIndexes(gs[t]), i \notin FrameIndexes(fs[t])
      PROVE  /\ i = Len(old) + 1 /\ gs[t].cells[i] = cell /\ cell.kind = "frame"
             /\ i # 1 => i - 1 \in FrameIndexes(fs[t])
  <2>1. i \in 1..(Len(old) + 1) /\ \A j \in 1..i : Append(old, cell)[j].kind = "frame"
    BY <1>2, <1>3 DEF FrameIndexes
  <2>2. i = Len(old) + 1
    <3>1. CASE i \in 1..Len(old)
      <4>1. \A j \in 1..i : j \in 1..Len(old)
        BY <1>1, <3>1
      <4>. QED
        BY <1>3, <1>5, <2>1, <3>1, <4>1 DEF FrameIndexes, old
    <3>. QED
      BY <1>1, <2>1, <3>1
  <2>3. i \in 1..i
    BY <2>1
  <2>4. cell.kind = "frame"
    BY <1>3, <2>1, <2>2, <2>3
  <2>5. i # 1 => i - 1 \in FrameIndexes(fs[t])
    <3>. SUFFICES ASSUME i # 1 PROVE i - 1 \in FrameIndexes(fs[t])
      OBVIOUS
    <3>1. i - 1 = Len(old) /\ i - 1 \in 1..Len(old)
      BY <1>1, <2>1, <2>2
    <3>2. \A j \in 1..(i - 1) : j \in 1..i /\ j \in 1..Len(old)
      BY <1>1, <2>1, <3>1
    <3>. QED
      BY <1>3, <2>1, <3>1, <3>2 DEF FrameIndexes, old
  <2>. QED
    BY <1>2, <1>3, <2>2, <2>4, <2>5
<1>6. \A s \in DOMAIN fs : gs[s].synced = fs[s].synced
  BY <1>2
<1>7. \A s \in DOMAIN fs : FrameIndexes(fs[s]) \subseteq FrameIndexes(gs[s])
  BY <1>2, <1>4
<1>8. \A s \in DOMAIN fs : \A i \in FrameIndexes(fs[s]) : gs[s].cells[i] = fs[s].cells[i]
  BY <1>2, <1>4
<1>. QED
  BY <1>2, <1>5, <1>6, <1>7, <1>8 DEF gs, old
=============================================================================
