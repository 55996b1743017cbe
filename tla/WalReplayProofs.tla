-------------------------- MODULE WalReplayProofs --------------------------
(***************************************************************************)
(* Theorems about the replay loop, for every set of records and sinks, all *)
(* batch and window sizes and every combination of faults.                 *)
(***************************************************************************)
EXTENDS WalReplay, WalFilesProofs, NaturalsInduction, FiniteSetTheorems

-----------------------------------------------------------------------------
(* Least and greatest members.                                             *)

LEMMA LeastOf ==
  ASSUME NEW S \in SUBSET Nat, S # {}
  PROVE  \E n \in S : \A m \in S : n <= m
<1> DEFINE R == OpToRel(<, Nat)
<1>1. \A x, y \in Nat : x < y => <<x, y>> \in R
  <2>1. R = {ss \in Nat \X Nat : ss[1] < ss[2]}  BY DEF OpToRel
  <2> HIDE DEF R
  <2> QED BY <2>1
<1>2. IsWellFoundedOn(R, Nat)  BY NatLessThanWellFounded
<1> HIDE DEF R
<1>3. \E n \in S : \A m \in S : ~(<<m, n>> \in R)  BY <1>2, WFMin
<1>4. PICK n \in S : \A m \in S : ~(<<m, n>> \in R)  BY <1>3
<1>5. \A m \in S : ~(m < n)  BY <1>1, <1>4
<1> QED BY <1>5

LEMMA GreatestOf ==
  ASSUME NEW S \in SUBSET Nat, S # {}, NEW b \in Nat, \A n \in S : n <= b
  PROVE  \E n \in S : \A m \in S : m <= n
<1> DEFINE Bounds == {k \in Nat : \A m \in S : m <= k}
<1>1. PICK k \in Bounds : \A l \in Bounds : k <= l
  <2>1. b \in Bounds  OBVIOUS
  <2> QED BY <2>1, LeastOf
<1>2. k \in S
  <2>1. SUFFICES ASSUME k \notin S PROVE FALSE  OBVIOUS
  <2>2. k \in Nat /\ \A m \in S : m \in Nat /\ m <= k  BY <1>1
  <2>3. \A m \in S : m <= k - 1
    <3> SUFFICES ASSUME NEW m \in S PROVE m <= k - 1  OBVIOUS
    <3>1. m \in Nat /\ m <= k /\ m # k  BY <2>1, <2>2
    <3> QED BY <2>2, <3>1
  <2>4. k # 0
    <3>1. PICK m \in S : TRUE  OBVIOUS
    <3>2. m \in Nat /\ m <= k /\ m # k  BY <2>1, <2>2
    <3> QED BY <3>2
  <2>5. k - 1 \in Bounds  BY <2>2, <2>3, <2>4
  <2>6. k <= k - 1  BY <1>1, <2>5
  <2> QED BY <2>2, <2>6
<1> QED BY <1>1, <1>2

-----------------------------------------------------------------------------
(* The log of a writer that never fails: frames only.                      *)

OnlyFrames(fs) ==
  \A s \in DOMAIN fs : \A i \in 1..Len(fs[s].cells) : fs[s].cells[i].kind = "frame"

EntryAt(fs, s, i) ==
  [segment |-> s, index |-> i, lsn |-> fs[s].cells[i].lsn, rec |-> fs[s].cells[i].rec]

LEMMA AllFrames ==
  ASSUME NEW fs, IsDirectory(fs), OnlyFrames(fs), NEW s \in DOMAIN fs
  PROVE  FrameIndexes(fs[s]) = 1..Len(fs[s].cells)
<1>1. Len(fs[s].cells) \in Nat  BY DEF IsDirectory, Segment
<1> QED BY <1>1 DEF OnlyFrames, FrameIndexes

LEMMA EntriesAre ==
  ASSUME NEW fs
  PROVE  \A e : e \in Entries(fs) <=>
                  \E s \in DOMAIN fs : \E i \in FrameIndexes(fs[s]) : e = EntryAt(fs, s, i)
BY DEF Entries, EntryAt

(* The place of an entry determines it.                                    *)
LEMMA EntryPlace ==
  ASSUME NEW fs, NEW e \in Entries(fs)
  PROVE  /\ e.segment \in DOMAIN fs
         /\ e.index \in FrameIndexes(fs[e.segment])
         /\ e = EntryAt(fs, e.segment, e.index)
<1>1. PICK s, i : s \in DOMAIN fs /\ i \in FrameIndexes(fs[s]) /\ e = EntryAt(fs, s, i)
  BY EntriesAre
<1>2. e.segment = s /\ e.index = i  BY <1>1 DEF EntryAt
<1> QED BY <1>1, <1>2

(* A scan depends on the cells alone, and on those of files with any.      *)
LEMMA SameCells ==
  ASSUME NEW fs, NEW gs, DOMAIN fs \subseteq DOMAIN gs,
         \A s \in DOMAIN fs : gs[s].cells = fs[s].cells,
         \A s \in DOMAIN gs \ DOMAIN fs : gs[s].cells = <<>>
  PROVE  Entries(gs) = Entries(fs) /\ (OnlyFrames(fs) => OnlyFrames(gs))
<1>1. \A s \in DOMAIN fs : FrameIndexes(gs[s]) = FrameIndexes(fs[s])  BY DEF FrameIndexes
<1>2. \A s \in DOMAIN gs \ DOMAIN fs : FrameIndexes(gs[s]) = {}  BY DEF FrameIndexes
<1>3. \A s \in DOMAIN fs : \A i : EntryAt(gs, s, i) = EntryAt(fs, s, i)  BY DEF EntryAt
<1>4. \A e : e \in Entries(gs) <=> e \in Entries(fs)
  <2>1. ASSUME NEW e \in Entries(gs) PROVE e \in Entries(fs)
    <3>1. PICK s, i : s \in DOMAIN gs /\ i \in FrameIndexes(gs[s]) /\ e = EntryAt(gs, s, i)
      BY EntriesAre
    <3>2. s \in DOMAIN fs  BY <1>2, <3>1
    <3> QED BY <1>1, <1>3, <3>1, <3>2, EntriesAre
  <2>2. ASSUME NEW e \in Entries(fs) PROVE e \in Entries(gs)
    <3>1. PICK s, i : s \in DOMAIN fs /\ i \in FrameIndexes(fs[s]) /\ e = EntryAt(fs, s, i)
      BY EntriesAre
    <3> QED BY <1>1, <1>3, <3>1, EntriesAre
  <2> QED BY <2>1, <2>2
<1>5. OnlyFrames(fs) => OnlyFrames(gs)  BY DEF OnlyFrames
<1> QED BY <1>4, <1>5

LEMMA EnsureEntries ==
  ASSUME NEW fs, NEW t, NEW start, NEW gs, gs = EnsureSegment(fs, t, start)
  PROVE  /\ DOMAIN gs = DOMAIN fs \cup {t}
         /\ Entries(gs) = Entries(fs)
         /\ (OnlyFrames(fs) => OnlyFrames(gs))
<1>1. /\ DOMAIN gs = DOMAIN fs \cup {t}
      /\ \A s \in DOMAIN fs : gs[s].cells = fs[s].cells
      /\ \A s \in DOMAIN gs \ DOMAIN fs : gs[s].cells = <<>>
  <2>1. CASE t \in DOMAIN fs /\ (fs[t].cells # <<>> \/ fs[t].start = start)
    <3>1. gs = fs  BY <2>1 DEF EnsureSegment
    <3> QED BY <2>1, <3>1
  <2>2. CASE ~(t \in DOMAIN fs /\ (fs[t].cells # <<>> \/ fs[t].start = start))
    <3>1. gs = [s \in DOMAIN fs \cup {t} |-> IF s = t THEN EmptySegment(start) ELSE fs[s]]
      BY <2>2 DEF EnsureSegment, WithSegment
    <3>2. EmptySegment(start).cells = <<>>  BY DEF EmptySegment
    <3> QED BY <2>2, <3>1, <3>2
  <2> QED BY <2>1, <2>2
<1>2. Entries(gs) = Entries(fs) /\ (OnlyFrames(fs) => OnlyFrames(gs))  BY <1>1, SameCells
<1> QED BY <1>1, <1>2

LEMMA EnsureCells ==
  ASSUME NEW fs, NEW t, NEW start, NEW s \in DOMAIN fs
  PROVE  EnsureSegment(fs, t, start)[s].cells = fs[s].cells
<1> DEFINE gs == EnsureSegment(fs, t, start)
<1>1. CASE t \in DOMAIN fs /\ (fs[t].cells # <<>> \/ fs[t].start = start)
  BY <1>1 DEF EnsureSegment
<1>2. CASE ~(t \in DOMAIN fs /\ (fs[t].cells # <<>> \/ fs[t].start = start))
  <2>1. gs = [u \in DOMAIN fs \cup {t} |-> IF u = t THEN EmptySegment(start) ELSE fs[u]]
    BY <1>2 DEF EnsureSegment, WithSegment
  <2>2. EmptySegment(start).cells = <<>>  BY DEF EmptySegment
  <2> QED BY <1>2, <2>1, <2>2
<1> QED BY <1>1, <1>2

LEMMA SyncEntries ==
  ASSUME NEW fs, IsDirectory(fs), NEW t \in DOMAIN fs
  PROVE  LET gs == SyncSegment(fs, t)
         IN /\ DOMAIN gs = DOMAIN fs
            /\ \A s \in DOMAIN fs : gs[s].cells = fs[s].cells
            /\ Entries(gs) = Entries(fs)
            /\ OnlyFrames(fs) => OnlyFrames(gs)
<1> DEFINE gs == SyncSegment(fs, t)
<1>1. DOMAIN gs = DOMAIN fs /\ \A s \in DOMAIN fs : gs[s].cells = fs[s].cells  BY SyncFrames
<1> HIDE DEF gs
<1>2. Entries(gs) = Entries(fs) /\ (OnlyFrames(fs) => OnlyFrames(gs))  BY <1>1, SameCells
<1> QED BY <1>1, <1>2 DEF gs

LEMMA AppendEntries ==
  ASSUME NEW fs, IsDirectory(fs), OnlyFrames(fs), NEW t \in DOMAIN fs,
         NEW lsn \in Nat, NEW rec \in Records
  PROVE  LET gs == AppendCell(fs, t, Frame(lsn, rec))
             last == Len(fs[t].cells) + 1
         IN /\ DOMAIN gs = DOMAIN fs
            /\ \A s \in DOMAIN fs : s # t => gs[s].cells = fs[s].cells
            /\ Len(gs[t].cells) = last
            /\ Entries(gs) = Entries(fs) \cup
                             {[segment |-> t, index |-> last, lsn |-> lsn, rec |-> rec]}
            /\ OnlyFrames(gs)
<1> DEFINE cell == Frame(lsn, rec)
           gs == AppendCell(fs, t, cell)
           old == fs[t].cells
           last == Len(old) + 1
           new == [segment |-> t, index |-> last, lsn |-> lsn, rec |-> rec]
<1>0. cell \in Cell /\ cell.lsn = lsn /\ cell.rec = rec /\ cell.kind = "frame"
  BY FrameIsCell DEF Frame
<1>1. old \in Seq(Cell) /\ Len(old) \in Nat
  BY DEF IsDirectory, Segment
<1>2. /\ DOMAIN gs = DOMAIN fs
      /\ \A s \in DOMAIN fs : s # t => gs[s] = fs[s]
      /\ gs[t].cells = Append(old, cell)
  BY DEF AppendCell, IsDirectory, Segment
<1>3. /\ Len(Append(old, cell)) = last
      /\ \A i \in 1..Len(old) : Append(old, cell)[i] = old[i]
      /\ Append(old, cell)[last] = cell
  BY <1>0, <1>1
<1>4. IsDirectory(gs)  BY <1>0, AppendCellType
<1> HIDE DEF gs, old, cell
<1>5. OnlyFrames(gs)
  <2>1. \A i \in 1..last : Append(old, cell)[i].kind = "frame"
    <3>1. \A i \in 1..Len(old) : old[i].kind = "frame"  BY DEF OnlyFrames, old
    <3> QED BY <1>0, <1>1, <1>3, <3>1
  <2> QED BY <1>2, <1>3, <2>1 DEF OnlyFrames
<1>6. /\ FrameIndexes(gs[t]) = 1..last /\ FrameIndexes(fs[t]) = 1..Len(old)
      /\ \A s \in DOMAIN fs : s # t => FrameIndexes(gs[s]) = FrameIndexes(fs[s])
  <2>1. FrameIndexes(gs[t]) = 1..last  BY <1>2, <1>3, <1>4, <1>5, AllFrames
  <2>2. FrameIndexes(fs[t]) = 1..Len(old)  BY AllFrames DEF old
  <2> QED BY <1>2, <2>1, <2>2
<1>7. ASSUME NEW e \in Entries(gs) PROVE e \in Entries(fs) \/ e = new
  <2>1. PICK s, i : s \in DOMAIN gs /\ i \in FrameIndexes(gs[s]) /\ e = EntryAt(gs, s, i)
    BY EntriesAre
  <2>2. CASE s # t
    <3>1. EntryAt(gs, s, i) = EntryAt(fs, s, i)  BY <1>2, <2>1, <2>2 DEF EntryAt
    <3> QED BY <1>2, <1>6, <2>1, <2>2, <3>1, EntriesAre
  <2>3. CASE s = t /\ i \in 1..Len(old)
    <3>1. EntryAt(gs, t, i) = EntryAt(fs, t, i)  BY <1>2, <1>3, <2>3 DEF EntryAt, old
    <3> QED BY <1>6, <2>1, <2>3, <3>1, EntriesAre
  <2>4. CASE s = t /\ i = last
    <3>1. EntryAt(gs, t, last) = new  BY <1>0, <1>2, <1>3 DEF EntryAt
    <3> QED BY <2>1, <2>4, <3>1
  <2> QED BY <1>1, <1>2, <1>6, <2>1, <2>2, <2>3, <2>4
<1>8. ASSUME NEW e \in Entries(fs) PROVE e \in Entries(gs)
  <2>1. PICK s, i : s \in DOMAIN fs /\ i \in FrameIndexes(fs[s]) /\ e = EntryAt(fs, s, i)
    BY EntriesAre
  <2>2. CASE s # t
    <3>1. EntryAt(gs, s, i) = EntryAt(fs, s, i)  BY <1>2, <2>1, <2>2 DEF EntryAt
    <3> QED BY <1>2, <1>6, <2>1, <2>2, <3>1, EntriesAre
  <2>3. CASE s = t
    <3>1. i \in 1..Len(old) /\ i \in 1..last  BY <1>1, <1>6, <2>1, <2>3
    <3>2. EntryAt(gs, t, i) = EntryAt(fs, t, i)  BY <1>2, <1>3, <3>1 DEF EntryAt, old
    <3> QED BY <1>2, <1>6, <2>1, <2>3, <3>1, <3>2, EntriesAre
  <2> QED BY <2>2, <2>3
<1>9. new \in Entries(gs)
  <2>1. EntryAt(gs, t, last) = new  BY <1>0, <1>2, <1>3 DEF EntryAt
  <2>2. last \in FrameIndexes(gs[t])  BY <1>1, <1>6
  <2> QED BY <1>2, <2>1, <2>2, EntriesAre
<1>10. Entries(gs) = Entries(fs) \cup {new}  BY <1>7, <1>8, <1>9
<1> QED BY <1>2, <1>3, <1>5, <1>10 DEF gs, old, cell

LEMMA RemoveEntries ==
  ASSUME NEW fs, IsDirectory(fs), NEW p
  PROVE  LET gs == RemoveCovered(fs, p)
         IN /\ DOMAIN gs = DOMAIN fs \ Covered(fs, p)
            /\ \A s \in DOMAIN gs : gs[s] = fs[s]
            /\ Entries(gs) \subseteq Entries(fs)
            /\ \A e \in Entries(fs) \ Entries(gs) : e.segment < p.segment /\ e.lsn <= p.lsn
            /\ OnlyFrames(fs) => OnlyFrames(gs)
<1> DEFINE gone == Covered(fs, p)
           gs == RemoveCovered(fs, p)
<1>1. DOMAIN gs = DOMAIN fs \ gone /\ \A s \in DOMAIN gs : gs[s] = fs[s]
  BY DEF RemoveCovered, WithoutSegments
<1> HIDE DEF gs
<1>2. \A s \in DOMAIN gs : \A i : EntryAt(gs, s, i) = EntryAt(fs, s, i)  BY <1>1 DEF EntryAt
<1>3. Entries(gs) \subseteq Entries(fs)
  <2> SUFFICES ASSUME NEW e \in Entries(gs) PROVE e \in Entries(fs)  OBVIOUS
  <2>1. PICK s, i : s \in DOMAIN gs /\ i \in FrameIndexes(gs[s]) /\ e = EntryAt(gs, s, i)
    BY EntriesAre
  <2>2. s \in DOMAIN fs /\ i \in FrameIndexes(fs[s]) /\ e = EntryAt(fs, s, i)
    BY <1>1, <1>2, <2>1
  <2> QED BY <2>2, EntriesAre
<1>4. ASSUME NEW e \in Entries(fs), e \notin Entries(gs)
      PROVE  e.segment < p.segment /\ e.lsn <= p.lsn
  <2>1. /\ e.segment \in DOMAIN fs /\ e.index \in FrameIndexes(fs[e.segment])
        /\ e = EntryAt(fs, e.segment, e.index)
    BY EntryPlace
  <2>2. e.segment \in gone
    <3>1. SUFFICES ASSUME e.segment \notin gone PROVE FALSE  OBVIOUS
    <3>2. e.segment \in DOMAIN gs /\ gs[e.segment] = fs[e.segment]  BY <1>1, <2>1, <3>1
    <3>3. e \in Entries(gs)  BY <1>2, <2>1, <3>2, EntriesAre
    <3> QED BY <1>4, <3>3
  <2>3. e.lsn = fs[e.segment].cells[e.index].lsn  BY <2>1 DEF EntryAt
  <2> QED BY <2>1, <2>2, <2>3 DEF Covered
<1>5. OnlyFrames(fs) => OnlyFrames(gs)  BY <1>1 DEF OnlyFrames
<1> QED BY <1>1, <1>3, <1>4, <1>5 DEF gs

-----------------------------------------------------------------------------
(* The invariant.                                                          *)

After(p, e) == e.segment > p.segment \/ (e.segment = p.segment /\ e.index > p.offset)

(* A position inside the log: whatever is appended lies after it.          *)
InLog(fs, p) ==
  \E s \in DOMAIN fs : p.segment < s \/ (p.segment = s /\ p.offset <= Len(fs[s].cells))

(* There is a last segment.                                                *)
HasLast(fs) == \E last \in DOMAIN fs : \A s \in DOMAIN fs : s <= last

(* The log is in order, and its frames are the records' own.               *)
LogInv ==
  /\ OnlyFrames(files)
  /\ HasLast(files)
  /\ nextLsn # 0
  /\ \A e \in Entries(files) : e.lsn > 0 /\ e.lsn < nextLsn /\ lsnOf[e.rec] = e.lsn
  /\ \A e, f \in Entries(files) : Before(e, f) => e.lsn < f.lsn

(* A reader that starts at q sees LSNs greater than that of p.             *)
Ahead(fs, q, p) == \A e \in EntriesAfter(fs, q) : e.lsn > p.lsn

(* A position the log has grown past.                                      *)
Sound(fs, next, p) == p.lsn < next /\ InLog(fs, p) /\ Ahead(fs, p, p)

CheckpointInv == Sound(files, nextLsn, checkpoint)

(* Between two passes nothing is remembered.                               *)
IdleInv ==
  /\ ~up => pc = "idle"
  /\ pc = "idle" => batch = {} /\ unread = {} /\ pending = NoCheckpoint

Working == {"read", "scan", "send", "store", "cleanup", "quarantine", "finish"}

(* What a pass holds is what comes next after the checkpoint: the entries  *)
(* of the window, then those not looked at; what is missing is handled.    *)
NextUp ==
  /\ batch \cup unread \subseteq EntriesAfter(files, cp)
  /\ \A e \in batch, f \in unread : Before(e, f)
  /\ \A e \in EntriesAfter(files, cp), f \in batch \cup unread :
       Before(e, f) => Handled(e.rec) \/ e \in batch \cup unread

(* What the pending position would cover is handled, and not held.         *)
PendingInv ==
  pending # NoCheckpoint =>
    /\ \E p \in EntriesAfter(files, cp) : pending = NextPosition(p)
    /\ \A e \in EntriesAfter(files, cp) : After(pending, e) \/ Handled(e.rec)
    /\ \A f \in batch \cup unread : After(pending, f)

PassBody ==
  /\ cp = NoCheckpoint \/ cp = checkpoint
  /\ Ahead(files, cp, checkpoint)
  /\ NextUp
  /\ PendingInv
  /\ \A e \in batch : plan[e.rec] \subseteq Sinks

PassInv == pc \in Working => PassBody

(* Where the pass stands, and what the window's sinks have committed.      *)
WindowInv ==
  /\ pc = "send" =>
       /\ after # "idle"
       /\ \A s \in Sinks \ sending : \A e \in Load(s, batch) : delivered[s][e.rec] > 0
  /\ pc \in {"read", "store", "cleanup", "quarantine", "finish"} => batch = {}
  /\ pc = "read" => unread = {} /\ pending = NoCheckpoint
  /\ pc = "quarantine" \/ (pc \in {"send", "store", "cleanup"} /\ after = "quarantine") =>
       unread # {}
  /\ pc = "cleanup" => pending = NoCheckpoint

Inv == TypeOK /\ LogInv /\ CheckpointInv /\ IdleInv /\ PassInv /\ WindowInv

LEMMA EntriesAfterAre ==
  ASSUME NEW fs, NEW p
  PROVE  \A e : e \in EntriesAfter(fs, p) <=> e \in Entries(fs) /\ After(p, e)
BY DEF EntriesAfter, After

LEMMA EntryFacts ==
  ASSUME NEW fs, IsDirectory(fs), NEW e \in Entries(fs)
  PROVE  /\ e \in EntrySet
         /\ e.segment \in DOMAIN fs /\ e.segment \in Nat /\ e.segment > 0
         /\ e.index \in Nat /\ e.index > 0 /\ e.index <= Len(fs[e.segment].cells)
         /\ Len(fs[e.segment].cells) \in Nat
         /\ e.lsn \in Nat /\ e.rec \in Records
<1>1. /\ e.segment \in DOMAIN fs /\ e.segment \in Nat \ {0} /\ e.index \in Nat
      /\ e.lsn \in Nat /\ e.rec \in Records
  BY EntryType
<1>2. e.index \in 1..Len(fs[e.segment].cells) /\ e = EntryAt(fs, e.segment, e.index)
  BY EntryPlace DEF FrameIndexes
<1>3. Len(fs[e.segment].cells) \in Nat  BY <1>1 DEF IsDirectory, Segment
<1>4. e \in EntrySet  BY <1>1, <1>2 DEF EntrySet, EntryAt
<1> QED BY <1>1, <1>2, <1>3, <1>4

(* Everything is after no checkpoint.                                      *)
LEMMA AllAfterNone ==
  ASSUME NEW fs, IsDirectory(fs) PROVE EntriesAfter(fs, NoCheckpoint) = Entries(fs)
<1>1. \A e \in Entries(fs) : After(NoCheckpoint, e)  BY EntryFacts DEF After, NoCheckpoint
<1> QED BY <1>1, EntriesAfterAre

(* The order of the log is the order of the LSNs.                          *)
LEMMA LogOrder ==
  ASSUME TypeOK, LogInv, NEW e \in Entries(files), NEW f \in Entries(files)
  PROVE  /\ Before(e, f) <=> e.lsn < f.lsn
         /\ e = f \/ Before(e, f) \/ Before(f, e)
         /\ ~(Before(e, f) /\ (Before(f, e) \/ e = f))
         /\ e.lsn \in Nat /\ f.lsn \in Nat
<1>0. IsDirectory(files)  BY DEF TypeOK
<1>1. /\ e.segment \in Nat /\ e.index \in Nat /\ e.lsn \in Nat
      /\ f.segment \in Nat /\ f.index \in Nat /\ f.lsn \in Nat
  BY <1>0, EntryFacts
<1>2. e.segment = f.segment /\ e.index = f.index => e = f
  <2>1. e = EntryAt(files, e.segment, e.index) /\ f = EntryAt(files, f.segment, f.index)
    BY EntryPlace
  <2> QED BY <2>1
<1>3. e = f \/ Before(e, f) \/ Before(f, e)  BY <1>1, <1>2 DEF Before
<1>4. (Before(e, f) => e.lsn < f.lsn) /\ (Before(f, e) => f.lsn < e.lsn)  BY DEF LogInv
<1>5. ~(Before(e, f) /\ (Before(f, e) \/ e = f))  BY <1>1, <1>4
<1>6. e.lsn < f.lsn => Before(e, f)  BY <1>1, <1>3, <1>4
<1> QED BY <1>1, <1>3, <1>4, <1>5, <1>6

LEMMA BeforeTransitive ==
  ASSUME TypeOK, LogInv, NEW e \in Entries(files), NEW f \in Entries(files),
         NEW g \in Entries(files), Before(e, f), Before(f, g)
  PROVE  Before(e, g)
<1>1. e.lsn < f.lsn /\ f.lsn < g.lsn  BY LogOrder
<1>2. e.lsn \in Nat /\ f.lsn \in Nat /\ g.lsn \in Nat  BY LogOrder
<1>3. e.lsn < g.lsn  BY <1>1, <1>2
<1> QED BY <1>3, LogOrder

(* The place after an entry.                                               *)
LEMMA NextPositionAfter ==
  ASSUME TypeOK, LogInv, NEW p \in Entries(files), NEW e \in Entries(files)
  PROVE  /\ After(NextPosition(p), e) <=> Before(p, e)
         /\ NextPosition(p) \in Position
         /\ NextPosition(p) # NoCheckpoint
         /\ NextPosition(p).lsn = p.lsn
         /\ InLog(files, NextPosition(p))
<1>1. IsDirectory(files)  BY DEF TypeOK
<1>2. /\ p.segment \in Nat /\ p.segment > 0 /\ p.index \in Nat /\ p.lsn \in Nat
      /\ p.segment \in DOMAIN files /\ p.index <= Len(files[p.segment].cells)
  BY <1>1, EntryFacts
<1>3. e.segment \in Nat /\ e.index \in Nat  BY <1>1, EntryFacts
<1>4. NextPosition(p) \in Position /\ NextPosition(p) # NoCheckpoint
  BY <1>2 DEF NextPosition, Position, NoCheckpoint
<1> QED BY <1>2, <1>3, <1>4 DEF NextPosition, After, Before, InLog

LEMMA FirstIs ==
  ASSUME TypeOK, LogInv, NEW S, S \subseteq Entries(files), S # {}
  PROVE  /\ First(S) \in S
         /\ \A f \in S : First(S) = f \/ Before(First(S), f)
<1> DEFINE N == {e.lsn : e \in S}
<1>1. N \in SUBSET Nat /\ N # {}  BY LogOrder
<1>2. PICK n \in N : \A m \in N : n <= m  BY <1>1, LeastOf
<1>3. PICK e \in S : e.lsn = n  BY <1>2
<1>4. ASSUME NEW f \in S PROVE e = f \/ Before(e, f)
  <2>1. e.lsn <= f.lsn /\ e.lsn \in Nat /\ f.lsn \in Nat  BY <1>2, <1>3, LogOrder
  <2>2. ~(f.lsn < e.lsn)  BY <2>1
  <2>3. ~Before(f, e)  BY <2>2, LogOrder
  <2> QED BY <2>3, LogOrder
<1>5. \E d \in S : \A f \in S : d = f \/ Before(d, f)  BY <1>4
<1> QED BY <1>5, Zenon DEF First

LEMMA LastIs ==
  ASSUME TypeOK, LogInv, NEW S, S \subseteq Entries(files), S # {}
  PROVE  /\ LastOf(S) \in S
         /\ \A f \in S : LastOf(S) = f \/ Before(f, LastOf(S))
<1> DEFINE N == {e.lsn : e \in S}
<1>1. N \in SUBSET Nat /\ N # {} /\ nextLsn \in Nat /\ \A n \in N : n <= nextLsn
  BY LogOrder DEF LogInv, TypeOK
<1>2. PICK n \in N : \A m \in N : m <= n  BY <1>1, GreatestOf
<1>3. PICK e \in S : e.lsn = n  BY <1>2
<1>4. ASSUME NEW f \in S PROVE e = f \/ Before(f, e)
  <2>1. f.lsn <= e.lsn /\ e.lsn \in Nat /\ f.lsn \in Nat  BY <1>2, <1>3, LogOrder
  <2>2. ~(e.lsn < f.lsn)  BY <2>1
  <2>3. ~Before(e, f)  BY <2>2, LogOrder
  <2> QED BY <2>3, LogOrder
<1>5. \E d \in S : \A f \in S : d = f \/ Before(f, d)  BY <1>4
<1> QED BY <1>5, Zenon DEF LastOf

LEMMA EntriesFinite == ASSUME TypeOK, LogInv PROVE IsFiniteSet(Entries(files))
<1> DEFINE E == Entries(files)
           lsns == [e \in E |-> e.lsn]
<1>1. IsFiniteSet(0..nextLsn)
  <2>1. 0 \in Int /\ nextLsn \in Int  BY DEF TypeOK
  <2> QED BY <2>1, FS_Interval
<1>2. \A e \in E : e.lsn \in 0..nextLsn  BY LogOrder DEF LogInv, TypeOK
<1>3. \A e, f \in E : e.lsn = f.lsn => e = f
  <2> SUFFICES ASSUME NEW e \in E, NEW f \in E, e.lsn = f.lsn PROVE e = f  OBVIOUS
  <2>1. ~(e.lsn < f.lsn) /\ ~(f.lsn < e.lsn)  BY LogOrder
  <2> QED BY <2>1, LogOrder
<1> HIDE DEF E
<1>4. lsns \in [E -> 0..nextLsn]  BY <1>2
<1>5. \A e, f \in E : lsns[e] = lsns[f] => e = f  BY <1>3
<1> HIDE DEF lsns
<1>6. lsns \in Injection(E, 0..nextLsn)  BY <1>4, <1>5 DEF Injection, IsInjective
<1> QED BY <1>1, <1>6, FS_Injection DEF E

-----------------------------------------------------------------------------
(* The steps that change the files.                                        *)

LEMMA LastSegmentIs ==
  ASSUME NEW fs, HasLast(fs)
  PROVE  LastSegment(fs) \in DOMAIN fs /\ \A s \in DOMAIN fs : s <= LastSegment(fs)
BY Zenon DEF HasLast, LastSegment

(* A new frame comes after everything: the frames there are, and every     *)
(* position inside the log.                                                *)
Extends(fs, gs, n) ==
  /\ IsDirectory(gs) /\ OnlyFrames(gs) /\ HasLast(gs)
  /\ Entries(gs) = Entries(fs) \cup {n}
  /\ \A e \in Entries(fs) : Before(e, n) /\ ~Before(n, e)
  /\ \A q \in Position : InLog(fs, q) => After(q, n) /\ InLog(gs, q)

LEMMA AppendAtEnd ==
  ASSUME NEW fs, IsDirectory(fs), OnlyFrames(fs), HasLast(fs),
         NEW t, t = LastSegment(fs) \/ t = LastSegment(fs) + 1,
         NEW lsn \in Nat, NEW rec \in Records,
         NEW opened, opened = IF t = LastSegment(fs) THEN fs ELSE EnsureSegment(fs, t, lsn),
         NEW gs, gs = SyncSegment(AppendCell(opened, t, Frame(lsn, rec)), t),
         NEW n, n = [segment |-> t, index |-> Len(opened[t].cells) + 1, lsn |-> lsn, rec |-> rec]
  PROVE  Extends(fs, gs, n)
<1> DEFINE last == LastSegment(fs)
           hs == AppendCell(opened, t, Frame(lsn, rec))
<1>1. last \in DOMAIN fs /\ \A s \in DOMAIN fs : s <= last  BY LastSegmentIs
<1>2. DOMAIN fs \subseteq Nat \ {0} /\ \A s \in DOMAIN fs : Len(fs[s].cells) \in Nat
  BY DEF IsDirectory, Segment
<1>3. t \in Nat \ {0} /\ (t # last => t \notin DOMAIN fs) /\ last <= t
  <2>1. last \in Nat \ {0}  BY <1>1, <1>2
  <2>2. t # last => t = last + 1  OBVIOUS
  <2> HIDE DEF last
  <2>3. t # last => ~(t <= last)  BY <2>1, <2>2
  <2>4. t # last => t \notin DOMAIN fs  BY <1>1, <2>3
  <2> QED BY <2>1, <2>2, <2>4
<1> HIDE DEF last
<1>4. /\ IsDirectory(opened) /\ OnlyFrames(opened)
      /\ DOMAIN opened = DOMAIN fs \cup {t}
      /\ \A s \in DOMAIN fs : opened[s].cells = fs[s].cells
      /\ t # last => opened[t].cells = <<>>
      /\ Entries(opened) = Entries(fs)
  <2>1. CASE t = last
    <3>1. opened = fs  BY <2>1 DEF last
    <3> QED BY <1>1, <2>1, <3>1
  <2>2. CASE t # last
    <3>1. opened = EnsureSegment(fs, t, lsn)  BY <2>2 DEF last
    <3>2. IsDirectory(opened)  BY <1>3, <3>1, EnsureType
    <3>3. DOMAIN opened = DOMAIN fs \cup {t} /\ Entries(opened) = Entries(fs)
      BY ONLY <3>1, EnsureEntries
    <3>4. OnlyFrames(opened)  BY <3>1, EnsureEntries
    <3>5. opened = [s \in DOMAIN fs \cup {t} |-> IF s = t THEN EmptySegment(lsn) ELSE fs[s]]
      BY <1>3, <2>2, <3>1 DEF EnsureSegment, WithSegment
    <3>6. t \notin DOMAIN fs  BY <1>3, <2>2
    <3>7. EmptySegment(lsn).cells = <<>>  BY DEF EmptySegment
    <3>8. \A s \in DOMAIN fs : opened[s] = fs[s]  BY <3>5, <3>6
    <3> QED BY <3>2, <3>3, <3>4, <3>5, <3>7, <3>8
  <2> QED BY <2>1, <2>2
<1>5. /\ DOMAIN hs = DOMAIN opened
      /\ \A s \in DOMAIN opened : s # t => hs[s].cells = opened[s].cells
      /\ Len(hs[t].cells) = Len(opened[t].cells) + 1
      /\ Entries(hs) = Entries(opened) \cup {n}
      /\ OnlyFrames(hs)
  <2>1. t \in DOMAIN opened /\ IsDirectory(opened) /\ OnlyFrames(opened)  BY <1>4
  <2> HIDE <1>4
  <2> QED BY <2>1, AppendEntries
<1>6. IsDirectory(hs)  BY <1>4, FrameIsCell, AppendCellType
<1>7. /\ DOMAIN gs = DOMAIN hs
      /\ \A s \in DOMAIN hs : gs[s].cells = hs[s].cells
      /\ Entries(gs) = Entries(hs)
      /\ OnlyFrames(gs)
  BY <1>4, <1>5, <1>6, SyncEntries
<1>8. IsDirectory(gs)  BY <1>4, <1>5, <1>6, SyncType
<1>9. Len(opened[t].cells) \in Nat  BY <1>4 DEF IsDirectory, Segment
<1> HIDE DEF hs
<1>10. HasLast(gs)
  <2>1. \A s \in DOMAIN fs : s <= t  BY <1>1, <1>2, <1>3
  <2> QED BY <1>3, <1>4, <1>5, <1>7, <2>1 DEF HasLast
<1>11. ASSUME NEW e \in Entries(fs) PROVE Before(e, n) /\ ~Before(n, e)
  <2>1. /\ e.segment \in DOMAIN fs /\ e.segment \in Nat /\ e.index \in Nat
        /\ e.index <= Len(fs[e.segment].cells)
    BY EntryFacts
  <2>2. e.segment <= last  BY <1>1, <2>1
  <2>3. e.segment = t => e.index <= Len(opened[t].cells)  BY <1>4, <2>1
  <2>4. e.segment <= t  BY <1>1, <1>2, <1>3, <2>1, <2>2
  <2>5. n.segment = t /\ n.index = Len(opened[t].cells) + 1  OBVIOUS
  <2> QED BY ONLY <1>3, <1>9, <2>1, <2>3, <2>4, <2>5 DEF Before
<1>12. ASSUME NEW q \in Position, InLog(fs, q) PROVE After(q, n) /\ InLog(gs, q)
  <2>1. q.segment \in Nat /\ q.offset \in Nat  BY DEF Position
  <2>2. PICK s \in DOMAIN fs :
          q.segment < s \/ (q.segment = s /\ q.offset <= Len(fs[s].cells))
    BY <1>12 DEF InLog
  <2>3. s \in Nat /\ s <= t /\ Len(fs[s].cells) \in Nat /\ opened[s].cells = fs[s].cells
    BY <1>1, <1>2, <1>3, <1>4
  <2>4. After(q, n)  BY <1>3, <1>9, <2>1, <2>2, <2>3 DEF After
  <2>5. s \in DOMAIN gs /\ Len(gs[s].cells) >= Len(fs[s].cells) /\ Len(gs[s].cells) \in Nat
    <3>1. CASE s # t  BY <1>4, <1>5, <1>7, <2>3, <3>1
    <3>2. CASE s = t  BY <1>4, <1>5, <1>7, <1>9, <2>3, <3>2
    <3> QED BY <3>1, <3>2
  <2>6. InLog(gs, q)  BY <2>1, <2>2, <2>3, <2>5 DEF InLog
  <2> QED BY <2>4, <2>6
<1>13. Entries(gs) = Entries(fs) \cup {n}  BY <1>4, <1>5, <1>7
<1> QED BY <1>7, <1>8, <1>10, <1>11, <1>12, <1>13 DEF Extends

(* AppendRecord adds one frame to the log, the last in every respect.      *)
IsNewest(n, r) ==
  /\ n.rec = r /\ n.lsn \in Nat /\ n.lsn >= nextLsn
  /\ nextLsn' = n.lsn + 1 /\ lsnOf' = [lsnOf EXCEPT ![r] = n.lsn]
  /\ Extends(files, files', n)

LEMMA AppendFacts ==
  ASSUME TypeOK, LogInv, NEW r \in Records, NEW p \in Plans, AppendRecord(r, p)
  PROVE  \E n : IsNewest(n, r)
<1> DEFINE last == LastSegment(files)
           full == Len(files[last].cells) >= SegmentMaxFrames
           t == IF full THEN last + 1 ELSE last
<1>1. PICK lsn \in {nextLsn, nextLsn + 1} :
        /\ files' = SyncSegment(AppendCell(IF full THEN EnsureSegment(files, t, lsn) ELSE files,
                                           t, Frame(lsn, r)), t)
        /\ lsnOf' = [lsnOf EXCEPT ![r] = lsn]
        /\ nextLsn' = lsn + 1
  BY DEF AppendRecord
<1>2. lsn \in Nat /\ lsn >= nextLsn  BY DEF TypeOK
<1>3. IsDirectory(files) /\ OnlyFrames(files) /\ HasLast(files)  BY DEF TypeOK, LogInv
<1>4. last \in Nat  BY <1>3, LastSegmentIs DEF IsDirectory
<1>5. PICK opened : opened = IF full THEN EnsureSegment(files, t, lsn) ELSE files  OBVIOUS
<1>6. files' = SyncSegment(AppendCell(opened, t, Frame(lsn, r)), t)  BY <1>1, <1>5
<1>7. (t = last <=> ~full) /\ (t = last \/ t = last + 1)
  <2> HIDE DEF last, full
  <2> QED BY <1>4
<1>8. opened = IF t = last THEN files ELSE EnsureSegment(files, t, lsn)  BY <1>5, <1>7
<1> DEFINE n == [segment |-> t, index |-> Len(opened[t].cells) + 1, lsn |-> lsn, rec |-> r]
<1> HIDE DEF t, full
<1>9. Extends(files, files', n)
  <2>1. t = LastSegment(files) \/ t = LastSegment(files) + 1  BY <1>7
  <2>2. opened = IF t = LastSegment(files) THEN files ELSE EnsureSegment(files, t, lsn)  BY <1>8
  <2>3. lsn \in Nat  BY <1>2
  <2> QED BY <1>3, <1>6, <2>1, <2>2, <2>3, AppendAtEnd
<1>10. n.rec = r /\ n.lsn = lsn  OBVIOUS
<1> HIDE DEF n
<1>11. IsNewest(n, r)  BY <1>1, <1>2, <1>9, <1>10 DEF IsNewest
<1> QED BY <1>11, Zenon

(* Restart finds the same entries, and numbers on from the greatest LSN.   *)
LEMMA RestartFacts ==
  ASSUME TypeOK, LogInv, Restart
  PROVE  /\ IsDirectory(files') /\ OnlyFrames(files') /\ HasLast(files')
         /\ Entries(files') = Entries(files)
         /\ nextLsn' \in Nat \ {0} /\ checkpoint.lsn < nextLsn'
         /\ \A e \in Entries(files) : e.lsn < nextLsn'
         /\ \A q \in Position : InLog(files, q) => InLog(files', q)
<1> DEFINE segments == DOMAIN files \cup {checkpoint.segment + 1}
           lsns == Lsns(files) \cup {checkpoint.lsn}
<1>1. PICK t \in segments, top \in lsns :
        /\ \A s \in segments : s <= t
        /\ \A l \in lsns : l <= top
        /\ files' = EnsureSegment(files, t, top + 1)
        /\ nextLsn' = top + 1
  BY DEF Restart
<1>2. IsDirectory(files) /\ OnlyFrames(files) /\ checkpoint \in Position  BY DEF TypeOK, LogInv
<1>3. checkpoint.lsn \in Nat /\ checkpoint.segment \in Nat  BY <1>2 DEF Position
<1>4. lsns \subseteq Nat  BY <1>2, <1>3, EntryFacts DEF Lsns
<1>5. t \in Nat \ {0} /\ top \in Nat  BY <1>1, <1>2, <1>3, <1>4 DEF IsDirectory
<1>6. checkpoint.lsn < top + 1 /\ \A e \in Entries(files) : e.lsn < top + 1
  <2>1. \A l \in lsns : l \in Nat /\ l <= top  BY <1>1, <1>4
  <2>2. \A l \in lsns : l < top + 1  BY <1>5, <2>1
  <2> QED BY <2>2 DEF Lsns
<1>7. IsDirectory(files') /\ t \in DOMAIN files'  BY <1>1, <1>2, <1>5, EnsureType
<1>8. DOMAIN files' = DOMAIN files \cup {t} /\ Entries(files') = Entries(files)
      /\ OnlyFrames(files')
  <2>1. DOMAIN files' = DOMAIN files \cup {t}  BY ONLY <1>1, EnsureEntries
  <2>2. Entries(files') = Entries(files)  BY ONLY <1>1, EnsureEntries
  <2>3. OnlyFrames(files')
    <3>1. \A gs : gs = EnsureSegment(files, t, top + 1) => OnlyFrames(gs)  BY <1>2, EnsureEntries
    <3> QED BY <1>1, <3>1
  <2> QED BY <2>1, <2>2, <2>3
<1>9. HasLast(files')  BY <1>1, <1>5, <1>8 DEF HasLast
<1>10. ASSUME NEW s \in DOMAIN files PROVE files'[s].cells = files[s].cells
  BY <1>1, EnsureCells
<1>11. \A q \in Position : InLog(files, q) => InLog(files', q)  BY <1>8, <1>10 DEF InLog
<1> QED BY <1>1, <1>5, <1>6, <1>7, <1>8, <1>9, <1>11

(* Cleanup removes nothing that lies after the checkpoint.                 *)
LEMMA CleanupFacts ==
  ASSUME Inv, Cleanup
  PROVE  /\ IsDirectory(files') /\ OnlyFrames(files') /\ HasLast(files')
         /\ Entries(files') \subseteq Entries(files)
         /\ EntriesAfter(files', cp) = EntriesAfter(files, cp)
         /\ EntriesAfter(files', checkpoint) = EntriesAfter(files, checkpoint)
         /\ InLog(files', checkpoint)
<1>1. /\ IsDirectory(files) /\ OnlyFrames(files) /\ HasLast(files)
      /\ InLog(files, checkpoint) /\ checkpoint \in Position /\ cp \in Position
      /\ cp = NoCheckpoint \/ cp = checkpoint
  BY DEF Inv, TypeOK, LogInv, CheckpointInv, Sound, PassInv, PassBody, Working, Cleanup
<1>2. files' = RemoveCovered(files, cp)  BY DEF Cleanup
<1>3. /\ DOMAIN files' = DOMAIN files \ Covered(files, cp)
      /\ \A s \in DOMAIN files' : files'[s] = files[s]
      /\ Entries(files') \subseteq Entries(files)
      /\ \A e \in Entries(files) \ Entries(files') : e.segment < cp.segment
      /\ OnlyFrames(files')
  <2> DEFINE gs == RemoveCovered(files, cp)
  <2>1. /\ DOMAIN gs = DOMAIN files \ Covered(files, cp)
        /\ \A s \in DOMAIN gs : gs[s] = files[s]
        /\ Entries(gs) \subseteq Entries(files)
        /\ \A e \in Entries(files) \ Entries(gs) : e.segment < cp.segment
        /\ OnlyFrames(gs)
    BY <1>1, RemoveEntries
  <2> QED BY <1>2, <2>1
<1>4. IsDirectory(files')  BY <1>1, <1>2, WithoutType DEF RemoveCovered
<1>5. cp.segment \in Nat /\ checkpoint.segment \in Nat /\ DOMAIN files \subseteq Nat
  BY <1>1 DEF Position, IsDirectory
<1>6. \A s \in DOMAIN files : ~(s < cp.segment) => s \in DOMAIN files'  BY <1>3 DEF Covered
<1>7. \A s \in DOMAIN files : ~(s < checkpoint.segment) => s \in DOMAIN files'
  BY <1>1, <1>5, <1>6 DEF NoCheckpoint
<1>8. PICK s \in DOMAIN files :
        \/ checkpoint.segment < s
        \/ checkpoint.segment = s /\ checkpoint.offset <= Len(files[s].cells)
  BY <1>1 DEF InLog
<1>9. s \in DOMAIN files' /\ files'[s] = files[s]  BY <1>3, <1>5, <1>7, <1>8
<1>10. InLog(files', checkpoint)  BY <1>8, <1>9 DEF InLog
<1>11. HasLast(files')
  <2>1. PICK last \in DOMAIN files : \A u \in DOMAIN files : u <= last  BY <1>1 DEF HasLast
  <2>2. s <= last /\ last \in Nat /\ s \in Nat  BY <1>5, <2>1
  <2>3. last \in DOMAIN files'  BY <1>5, <1>7, <1>8, <2>1, <2>2
  <2> QED BY <1>3, <2>1, <2>3 DEF HasLast
<1>12. \A e \in Entries(files) : e.segment \in Nat /\ e.index \in Nat  BY <1>1, EntryFacts
<1>13. ASSUME NEW q, q = cp \/ q = checkpoint PROVE EntriesAfter(files', q) = EntriesAfter(files, q)
  <2>1. q.segment \in Nat /\ cp.segment <= q.segment  BY <1>1, <1>5, <1>13 DEF NoCheckpoint
  <2>2. \A e \in Entries(files) : After(q, e) => ~(e.segment < cp.segment)
    BY <1>5, <1>12, <2>1 DEF After
  <2>3. \A e : e \in EntriesAfter(files', q) <=> e \in EntriesAfter(files, q)
    BY <1>3, <2>2, EntriesAfterAre
  <2> QED BY <2>3
<1> QED BY <1>3, <1>4, <1>10, <1>11, <1>13

(* A pass reads without leaving anything out.                              *)
LEMMA ReadFacts ==
  ASSUME TypeOK, LogInv
  PROVE  /\ ReadEntries \subseteq EntriesAfter(files, cp)
         /\ \A e \in EntriesAfter(files, cp), f \in ReadEntries : Before(e, f) => e \in ReadEntries
<1> DEFINE rest == EntriesAfter(files, cp)
           Earlier(e) == {f \in rest : Before(f, e)}
<1>1. rest \subseteq Entries(files)  BY DEF EntriesAfter
<1>2. ReadEntries = {e \in rest : Cardinality(Earlier(e)) < ReadLimit}  BY DEF ReadEntries
<1>3. IsFiniteSet(rest)  BY <1>1, EntriesFinite, FS_Subset
<1> HIDE DEF rest
<1>4. ASSUME NEW e \in rest, NEW f \in ReadEntries, Before(e, f) PROVE e \in ReadEntries
  <2>1. f \in rest /\ Cardinality(Earlier(f)) < ReadLimit  BY <1>2
  <2>2. Earlier(e) \subseteq Earlier(f)  BY <1>1, <1>4, <2>1, BeforeTransitive
  <2>3. IsFiniteSet(Earlier(f)) /\ IsFiniteSet(Earlier(e))
    <3>1. Earlier(f) \subseteq rest /\ Earlier(e) \subseteq rest  OBVIOUS
    <3> QED BY <1>3, <3>1, FS_Subset
  <2> HIDE DEF Earlier
  <2>4. /\ Cardinality(Earlier(e)) <= Cardinality(Earlier(f))
        /\ Cardinality(Earlier(e)) \in Nat /\ Cardinality(Earlier(f)) \in Nat
    BY <2>2, <2>3, FS_Subset, FS_CardinalityType
  <2>5. ReadLimit \in Nat  BY ReplayAssumption
  <2>6. Cardinality(Earlier(e)) < ReadLimit  BY <2>1, <2>4, <2>5
  <2> QED BY <1>2, <2>6
<1>5. ReadEntries \subseteq rest  BY <1>2
<1> QED BY <1>4, <1>5 DEF rest

-----------------------------------------------------------------------------
(* The types are kept.                                                     *)

LEMMA HeldIsInLog ==
  ASSUME Inv, pc \in Working
  PROVE  batch \cup unread \subseteq Entries(files) /\ IsFiniteSet(batch)
<1>1. batch \cup unread \subseteq Entries(files)  BY EntriesAfterAre DEF Inv, PassInv, PassBody, NextUp
<1>2. IsFiniteSet(batch)  BY <1>1, EntriesFinite, FS_Subset DEF Inv
<1> QED BY <1>1, <1>2

LEMMA FirstUnread ==
  ASSUME Inv, pc \in Working, unread # {}
  PROVE  /\ First(unread) \in unread /\ First(unread) \in Entries(files)
         /\ First(unread) \in EntrySet
         /\ \A f \in unread : First(unread) = f \/ Before(First(unread), f)
<1>1. unread \subseteq Entries(files)  BY HeldIsInLog
<1>2. /\ First(unread) \in unread
      /\ \A f \in unread : First(unread) = f \/ Before(First(unread), f)
  BY <1>1, FirstIs DEF Inv
<1> QED BY <1>1, <1>2 DEF Inv, TypeOK

LEMMA CommitType ==
  ASSUME TypeOK, NEW s \in Sinks, NEW S, Commit(s, S)
  PROVE  delivered' \in [Sinks -> [Records -> 0..2]]
BY DEF Commit, TypeOK

LEMMA NextSinkIs ==
  ASSUME TypeOK, sending # {}
  PROVE  NextSink \in sending /\ NextSink \in Sinks
<1>1. sending \in SUBSET Nat  BY ReplayAssumption DEF TypeOK
<1>2. \E s \in sending : \A t \in sending : s <= t  BY <1>1, LeastOf
<1>3. NextSink \in sending  BY <1>2, Zenon DEF NextSink
<1> QED BY <1>3 DEF TypeOK

(* Where a reset of the checkpoint can lead.                               *)
LEMMA TailFacts ==
  ASSUME NEW fs, IsDirectory(fs), HasLast(fs), NEW b \in Nat, b > 0,
         \A e \in Entries(fs) : e.lsn < b
  PROVE  /\ TailPosition(fs) \in Position
         /\ TailPosition(fs).lsn < b
         /\ InLog(fs, TailPosition(fs))
         /\ EntriesAfter(fs, TailPosition(fs)) = {}
<1> DEFINE last == LastSegment(fs)
           lsns == Lsns(fs) \cup {0}
           tail == TailPosition(fs)
<1>1. last \in DOMAIN fs /\ \A s \in DOMAIN fs : s <= last  BY LastSegmentIs
<1>2. last \in Nat /\ Len(fs[last].cells) \in Nat  BY <1>1 DEF IsDirectory, Segment
<1>3. lsns \in SUBSET Nat /\ lsns # {} /\ \A l \in lsns : l < b
  BY EntryFacts DEF Lsns
<1>4. \E l \in lsns : \A m \in lsns : m <= l
  <2>1. \A l \in lsns : l <= b  BY <1>3
  <2> QED BY <1>3, <2>1, GreatestOf
<1>5. LastLsn(fs) \in lsns
  <2>1. (CHOOSE l \in lsns : \A m \in lsns : m <= l) \in lsns  BY <1>4, Zenon
  <2>2. (CHOOSE l \in lsns : \A m \in lsns : m <= l)
          = (CHOOSE l \in lsns : \A m \in Lsns(fs) : m <= l)
    <3>1. \A l \in lsns : (\A m \in lsns : m <= l) <=> (\A m \in Lsns(fs) : m <= l)  BY <1>3
    <3> QED BY <3>1
  <2> QED BY <2>1, <2>2 DEF LastLsn
<1>6. LastLsn(fs) \in Nat /\ LastLsn(fs) < b  BY <1>3, <1>5
<1> HIDE DEF last, lsns
<1>7. tail = [lsn |-> LastLsn(fs), segment |-> last, offset |-> Len(fs[last].cells)]
  BY DEF TailPosition, last
<1>8. tail.segment = last /\ tail.offset = Len(fs[last].cells) /\ tail.lsn = LastLsn(fs)
  BY <1>7
<1>9. tail \in Position  BY <1>2, <1>6, <1>7 DEF Position
<1> HIDE DEF tail
<1>10. InLog(fs, tail)  BY <1>1, <1>2, <1>8 DEF InLog
<1>11. \A e \in Entries(fs) : ~After(tail, e)
  <2> SUFFICES ASSUME NEW e \in Entries(fs) PROVE ~After(tail, e)  OBVIOUS
  <2>1. /\ e.segment \in DOMAIN fs /\ e.segment \in Nat /\ e.index \in Nat
        /\ e.index <= Len(fs[e.segment].cells)
    BY EntryFacts
  <2>2. e.segment <= last  BY <1>1, <2>1
  <2> QED BY <1>2, <1>8, <2>1, <2>2 DEF After
<1>12. EntriesAfter(fs, tail) = {}  BY <1>11, EntriesAfterAre
<1> QED BY <1>6, <1>8, <1>9, <1>10, <1>12 DEF tail

(* Where a pass starts, and what it makes of the checkpoint.               *)
LEMMA StartFacts ==
  ASSUME NEW fs, IsDirectory(fs), HasLast(fs), NEW b \in Nat, b > 0,
         \A e \in Entries(fs) : e.lsn > 0 /\ e.lsn < b,
         NEW p \in Position, Sound(fs, b, p)
  PROVE  /\ Sound(fs, b, StoredPosition(fs, p))
         /\ StoredPosition(fs, p) \in Position /\ StartPosition(fs, p) \in Position
         /\ StartPosition(fs, p) = NoCheckpoint \/ StartPosition(fs, p) = StoredPosition(fs, p)
         /\ Ahead(fs, StartPosition(fs, p), StoredPosition(fs, p))
<1>1. /\ TailPosition(fs) \in Position
      /\ TailPosition(fs).lsn < b
      /\ InLog(fs, TailPosition(fs))
      /\ EntriesAfter(fs, TailPosition(fs)) = {}
  <2>1. \A e \in Entries(fs) : e.lsn < b  OBVIOUS
  <2> QED BY <2>1, TailFacts
<1>2. Sound(fs, b, TailPosition(fs)) /\ Ahead(fs, TailPosition(fs), TailPosition(fs))
  BY <1>1 DEF Sound, Ahead
<1>3. NoCheckpoint \in Position  BY DEF NoCheckpoint, Position
<1>4. CASE ~NeedsReset(fs, p)
  BY <1>4 DEF StartPosition, StoredPosition, Sound
<1>5. CASE NeedsReset(fs, p) /\ ResetToLatest
  BY <1>1, <1>2, <1>5 DEF StartPosition, StoredPosition
<1>6. CASE NeedsReset(fs, p) /\ ~ResetToLatest
  <2>1. StartPosition(fs, p) = NoCheckpoint /\ StoredPosition(fs, p) = p
    BY <1>6 DEF StartPosition, StoredPosition
  <2>2. CASE p = NoCheckpoint  BY <1>3, <2>1, <2>2 DEF Sound
  <2>3. CASE BeforeFloor(fs, p)
    <3>1. \A e \in Entries(fs) : After(p, e)  BY <2>3 DEF BeforeFloor, After
    <3>2. \A e \in Entries(fs) : e.lsn > p.lsn  BY <3>1, EntriesAfterAre DEF Sound, Ahead
    <3>3. Ahead(fs, NoCheckpoint, p)  BY <3>2, EntriesAfterAre DEF Ahead
    <3> QED BY <1>3, <2>1, <3>3
  <2> QED BY <1>6, <2>2, <2>3 DEF NeedsReset
<1> QED BY <1>4, <1>5, <1>6

LEMMA StartHere ==
  ASSUME Inv
  PROVE  /\ Sound(files, nextLsn, StoredPosition(files, checkpoint))
         /\ StoredPosition(files, checkpoint) \in Position
         /\ StartPosition(files, checkpoint) \in Position
         /\ \/ StartPosition(files, checkpoint) = NoCheckpoint
            \/ StartPosition(files, checkpoint) = StoredPosition(files, checkpoint)
         /\ Ahead(files, StartPosition(files, checkpoint), StoredPosition(files, checkpoint))
<1>1. /\ IsDirectory(files) /\ HasLast(files) /\ nextLsn \in Nat /\ nextLsn > 0
      /\ checkpoint \in Position /\ Sound(files, nextLsn, checkpoint)
  BY DEF Inv, TypeOK, LogInv, CheckpointInv
<1>2. \A e \in Entries(files) : e.lsn > 0 /\ e.lsn < nextLsn  BY DEF Inv, LogInv
<1> QED BY <1>1, <1>2, StartFacts

(* Restart leaves the checkpoint in step with the files it finds.          *)
LEMMA RestartCheckpoint ==
  ASSUME Inv, Restart
  PROVE  Sound(files', nextLsn', checkpoint') /\ checkpoint' \in Position
<1>1. /\ IsDirectory(files') /\ HasLast(files')
      /\ Entries(files') = Entries(files)
      /\ nextLsn' \in Nat /\ nextLsn' > 0 /\ checkpoint.lsn < nextLsn'
      /\ \A e \in Entries(files) : e.lsn < nextLsn'
      /\ \A q \in Position : InLog(files, q) => InLog(files', q)
  BY RestartFacts DEF Inv
<1>2. checkpoint \in Position /\ Sound(files, nextLsn, checkpoint)
  BY DEF Inv, TypeOK, CheckpointInv
<1>3. \A e : e \in EntriesAfter(files', checkpoint) <=> e \in EntriesAfter(files, checkpoint)
  BY <1>1, EntriesAfterAre
<1>4. Sound(files', nextLsn', checkpoint)  BY <1>1, <1>2, <1>3 DEF Sound, Ahead
<1>5. \A e \in Entries(files') : e.lsn > 0 /\ e.lsn < nextLsn'  BY <1>1 DEF Inv, LogInv
<1>6. checkpoint' = StoredPosition(files', checkpoint)  BY DEF Restart
<1>7. Sound(files', nextLsn', StoredPosition(files', checkpoint))
      /\ StoredPosition(files', checkpoint) \in Position
  BY <1>1, <1>2, <1>4, <1>5, StartFacts
<1> QED BY <1>6, <1>7

LEMMA PassOverType ==
  ASSUME PassOver
  PROVE  /\ pc' = "idle" /\ after' = "idle" /\ cp' \in Position /\ pending' \in Position
         /\ unread' = {} /\ batch' = {} /\ sending' = {} /\ expected' = 0 /\ pendingCount' = 0
BY DEF PassOver, NoCheckpoint, Position

LEMMA SendWindowType ==
  ASSUME NEW S, NEW next, S \subseteq EntrySet,
         next \in {"scan", "quarantine", "fail", "finish"}, SendWindow(S, next)
  PROVE  /\ batch' = S /\ batch' \subseteq EntrySet /\ sending' \in SUBSET Sinks
         /\ after' = next /\ after' \in {"idle", "scan", "quarantine", "fail", "finish"}
         /\ pc' = (IF S = {} THEN next ELSE "send")
         /\ pc' \in {"scan", "quarantine", "fail", "finish", "send"}
         /\ \A e \in Fresh(S), s \in Sinks : s \in plan[e.rec] => s \in sending'
BY DEF SendWindow, Targets, Load

LEMMA PlansAreSets == \A P \in Plans \cup {{}} : P \subseteq Sinks \cup {BadTarget}
BY ReplayAssumption

LEMMA InitType == Init => TypeOK
<1> SUFFICES ASSUME Init PROVE TypeOK  OBVIOUS
<1>1. EmptySegment(1) \in Segment  BY DEF EmptySegment, Segment
<1>2. IsDirectory(files)  BY <1>1 DEF Init, IsDirectory, FirstSegmentId
<1>3. checkpoint \in Position /\ cp \in Position /\ pending \in Position
  BY DEF Init, Position, NoCheckpoint, FirstSegmentId
<1>4. /\ plan \in [Records -> Plans \cup {{}}] /\ lsnOf \in [Records -> Nat]
      /\ since \in [Sinks -> {"none", "running", "elapsed"}]
      /\ active \in SUBSET Sinks
  BY ReplayAssumption DEF Init
<1>5. delivered \in [Sinks -> [Records -> 0..2]]  BY DEF Init
<1>6. {failures, crashes, toggles} \subseteq Nat  BY DEF Init
<1>9. up \in BOOLEAN /\ disturbed \in BOOLEAN
  <2>1. up = TRUE /\ disturbed = FALSE  BY DEF Init
  <2> QED BY <2>1
<1>7. /\ nextLsn \in Nat /\ expected \in Nat /\ pendingCount \in Nat
      /\ unread \subseteq EntrySet /\ batch \subseteq EntrySet
      /\ sending \in SUBSET Sinks /\ quarantined \in SUBSET Records
  BY DEF Init
<1>8. pc = "idle" /\ after = "idle"  BY DEF Init
<1> QED BY <1>2, <1>3, <1>4, <1>5, <1>6, <1>7, <1>8, <1>9 DEF TypeOK

LEMMA WorldTypes ==
  ASSUME Inv,
         \/ \E r \in Records, p \in Plans : AppendRecord(r, p)
         \/ \E s \in Sinks : ToggleSink(s) \/ BatchTimeout(s)
         \/ Crash \/ Restart
  PROVE  TypeOK'
<1>0. TypeOK  BY DEF Inv
<1>1. ASSUME NEW r \in Records, NEW p \in Plans, AppendRecord(r, p) PROVE TypeOK'
  <2>1. PICK n : IsNewest(n, r)  BY <1>0, <1>1, AppendFacts DEF Inv
  <2>2. IsDirectory(files') /\ nextLsn' \in Nat /\ lsnOf' \in [Records -> Nat]
    BY <1>0, <2>1 DEF IsNewest, Extends, TypeOK
  <2>3. plan' \in [Records -> Plans \cup {{}}]  BY <1>0, <1>1 DEF AppendRecord, TypeOK
  <2> QED BY <1>0, <1>1, <2>2, <2>3 DEF AppendRecord, TypeOK, pass, outcome, world
<1>2. ASSUME NEW s \in Sinks, ToggleSink(s) PROVE TypeOK'
  BY <1>0, <1>2 DEF ToggleSink, TypeOK, log, pass, outcome
<1>3. ASSUME NEW s \in Sinks, BatchTimeout(s) PROVE TypeOK'
  BY <1>0, <1>3 DEF BatchTimeout, TypeOK, log, pass, outcome, world
<1>4. ASSUME Crash PROVE TypeOK'
  <2>1. since' \in [Sinks -> {"none", "running", "elapsed"}]  BY <1>4 DEF Crash
  <2>2. up' \in BOOLEAN /\ disturbed' \in BOOLEAN /\ crashes' \in Nat
    <3>1. crashes' \in Nat  BY <1>0, <1>4 DEF Crash, TypeOK
    <3>2. up' = FALSE /\ disturbed' = TRUE  BY <1>4 DEF Crash
    <3> QED BY <3>1, <3>2
  <2>3. PassOver /\ UNCHANGED <<log, checkpoint, outcome, active, failures, toggles>>
    BY <1>4 DEF Crash
  <2>4. /\ IsDirectory(files') /\ nextLsn' \in Nat /\ plan' \in [Records -> Plans \cup {{}}]
        /\ lsnOf' \in [Records -> Nat] /\ checkpoint' \in Position
        /\ active' \in SUBSET Sinks
        /\ delivered' \in [Sinks -> [Records -> 0..2]] /\ quarantined' \in SUBSET Records
    BY <1>0, <2>3 DEF TypeOK, log, outcome
  <2>5. {failures', crashes', toggles'} \subseteq Nat  BY <1>0, <2>2, <2>3 DEF TypeOK
  <2>6. /\ pc' = "idle" /\ after' = "idle" /\ cp' \in Position /\ pending' \in Position
        /\ unread' \subseteq EntrySet /\ batch' \subseteq EntrySet /\ sending' \in SUBSET Sinks
        /\ expected' \in Nat /\ pendingCount' \in Nat
    BY <2>3, PassOverType
  <2> QED BY <2>1, <2>2, <2>4, <2>5, <2>6 DEF TypeOK
<1>5. ASSUME Restart PROVE TypeOK'
  <2>1. IsDirectory(files') /\ nextLsn' \in Nat  BY <1>5, RestartFacts DEF Inv
  <2>2. checkpoint' \in Position  BY <1>5, RestartCheckpoint
  <2> QED BY <1>0, <1>5, <2>1, <2>2 DEF Restart, TypeOK, pass, outcome
<1> QED BY <1>1, <1>2, <1>3, <1>4, <1>5

LEMMA ReadingTypes ==
  ASSUME Inv,
         OpenPass \/ ReadLog \/ TakeDeliverable \/ TakeOther \/ Quarantine \/ Defer \/ SendLast
  PROVE  TypeOK'
<1>0. TypeOK  BY DEF Inv
<1>1. CASE OpenPass
  BY <1>0, <1>1, StartHere DEF OpenPass, TypeOK, log, outcome, world
<1>2. CASE ReadLog
  <2>1. IsDirectory(files) /\ ReadEntries \subseteq Entries(files)
    BY <1>0, EntriesAfterAre, ReadFacts DEF Inv, TypeOK
  <2>2. unread' \subseteq EntrySet  BY <1>2, <2>1, EntryFacts DEF ReadLog
  <2>3. expected' \in Nat  BY <1>0, <1>2 DEF ReadLog, TypeOK, Position
  <2> QED BY <1>0, <1>2, <2>2, <2>3 DEF ReadLog, TypeOK, log, outcome, world
<1>3. CASE TakeDeliverable
  <2> DEFINE e == First(unread)
  <2>1. e \in EntrySet /\ e.lsn \in Nat
    BY <1>3, FirstUnread DEF TakeDeliverable, Working, EntrySet
  <2>2. batch \cup {e} \subseteq EntrySet  BY <1>0, <2>1 DEF TypeOK
  <2>3. unread' \subseteq EntrySet /\ expected' \in Nat
    BY <1>0, <1>3, <2>1 DEF TakeDeliverable, TypeOK
  <2>4. SendWindow(batch \cup {e}, "scan")
        \/ (batch' = batch \cup {e} /\ UNCHANGED <<pc, sending, after>>)
    BY <1>3 DEF TakeDeliverable
  <2>5. /\ batch' \subseteq EntrySet /\ sending' \in SUBSET Sinks
        /\ after' \in {"idle", "scan", "quarantine", "fail", "finish"}
        /\ pc' \in {"scan", "quarantine", "fail", "finish", "send"}
    <3> HIDE DEF e
    <3> QED BY <1>0, <1>3, <2>2, <2>4, SendWindowType DEF TakeDeliverable, TypeOK
  <2> QED BY <1>0, <1>3, <2>3, <2>5 DEF TakeDeliverable, TypeOK, log, outcome, world
<1>4. CASE TakeOther
  <2>1. SendWindow(batch, "fail") \/ SendWindow(batch, "quarantine")  BY <1>4 DEF TakeOther
  <2>2. /\ batch' \subseteq EntrySet /\ sending' \in SUBSET Sinks
        /\ after' \in {"idle", "scan", "quarantine", "fail", "finish"}
        /\ pc' \in {"scan", "quarantine", "fail", "finish", "send"}
    BY <1>0, <2>1, SendWindowType DEF TypeOK
  <2> QED BY <1>0, <1>4, <2>2 DEF TakeOther, TypeOK, log, outcome, world
<1>5. CASE Quarantine
  <2> DEFINE e == First(unread)
  <2>1. unread # {} /\ pc \in Working
    BY <1>5 DEF Inv, WindowInv, Quarantine, Working
  <2>2. e \in EntrySet  BY <2>1, FirstUnread
  <2>3. e.rec \in Records /\ e.lsn \in Nat /\ NextPosition(e) \in Position
    BY <2>2 DEF EntrySet, NextPosition, Position
  <2> QED BY <1>0, <1>5, <2>3 DEF Quarantine, TypeOK, log, world
<1>6. CASE Defer
  <2>1. since' \in [Sinks -> {"none", "running", "elapsed"}]
    BY <1>0, <1>6 DEF Defer, StartTimers, TypeOK
  <2> QED BY <1>0, <1>6, <2>1, PassOverType DEF Defer, TypeOK, log, outcome, world
<1>7. CASE SendLast
  <2>1. since' \in [Sinks -> {"none", "running", "elapsed"}]
    BY <1>0, <1>7 DEF SendLast, StartTimers, TypeOK
  <2>2. /\ batch' \subseteq EntrySet /\ sending' \in SUBSET Sinks
        /\ after' \in {"idle", "scan", "quarantine", "fail", "finish"}
        /\ pc' \in {"scan", "quarantine", "fail", "finish", "send"}
    BY <1>0, <1>7, SendWindowType DEF SendLast, TypeOK
  <2> QED BY <1>0, <1>7, <2>1, <2>2 DEF SendLast, TypeOK, log, outcome, world
<1> QED BY <1>1, <1>2, <1>3, <1>4, <1>5, <1>6, <1>7

LEMMA SendingTypes ==
  ASSUME Inv,
         \/ SendSink \/ SendFails \/ WindowSent
         \/ Finish \/ StoreCheckpoint \/ Cleanup \/ StoreFails \/ PassFails
  PROVE  TypeOK'
<1>0. TypeOK  BY DEF Inv
<1>1. CASE SendSink
  <2>1. delivered' \in [Sinks -> [Records -> 0..2]]
    BY <1>0, <1>1, NextSinkIs, CommitType DEF SendSink
  <2> QED BY <1>0, <1>1, <2>1 DEF SendSink, TypeOK, log, world
<1>2. CASE SendFails
  <2>1. delivered' \in [Sinks -> [Records -> 0..2]]
    BY <1>0, <1>2, NextSinkIs, CommitType DEF SendFails, TypeOK
  <2>2. failures' \in Nat  BY <1>0, <1>2 DEF SendFails, TypeOK
  <2> QED BY <1>0, <1>2, <2>1, <2>2 DEF SendFails, TypeOK, log
<1>3. CASE WindowSent
  <2>1. pc \in Working /\ after # "idle"  BY <1>3 DEF WindowSent, Working, Inv, WindowInv
  <2>2. Fresh(batch) \subseteq batch /\ Fresh(batch) \subseteq Entries(files)
        /\ IsFiniteSet(Fresh(batch))
    BY <2>1, HeldIsInLog, FS_Subset DEF Fresh
  <2>3. pendingCount' \in Nat  BY <1>0, <1>3, <2>2, FS_CardinalityType DEF WindowSent, TypeOK
  <2>4. pending' \in Position
    <3>1. CASE Fresh(batch) = {}  BY <1>0, <1>3, <3>1 DEF WindowSent, TypeOK
    <3>2. CASE Fresh(batch) # {}
      <4>1. LastOf(Fresh(batch)) \in Entries(files)  BY <2>2, <3>2, LastIs DEF Inv
      <4>2. NextPosition(LastOf(Fresh(batch))) \in Position
        BY <4>1, NextPositionAfter DEF Inv
      <4> QED BY <1>3, <3>2, <4>2 DEF WindowSent
    <3> QED BY <3>1, <3>2
  <2>5. since' \in [Sinks -> {"none", "running", "elapsed"}]
    BY <1>0, <1>3 DEF WindowSent, TypeOK
  <2>6. pc' \in {"store", "scan", "quarantine", "fail", "finish"}
    BY <1>0, <1>3, <2>1 DEF WindowSent, TypeOK
  <2>7. batch' = {}  BY <1>3 DEF WindowSent
  <2> QED BY <1>0, <1>3, <2>3, <2>4, <2>5, <2>6, <2>7 DEF WindowSent, TypeOK, log, outcome, world
<1>4. CASE Finish
  BY <1>0, <1>4 DEF Finish, TypeOK, log, outcome, world
<1>5. CASE StoreCheckpoint
  <2>1. NoCheckpoint \in Position  BY DEF NoCheckpoint, Position
  <2> QED BY <1>0, <1>5, <2>1 DEF StoreCheckpoint, TypeOK, log, outcome, world
<1>6. CASE Cleanup
  <2>1. IsDirectory(files')  BY <1>6, CleanupFacts
  <2>2. CASE after = "idle"
    BY <1>0, <1>6, <2>1, <2>2, PassOverType DEF Cleanup, TypeOK, outcome, world
  <2>3. CASE after # "idle"
    <3>1. pc' \in {"scan", "quarantine", "fail", "finish"}
      BY <1>0, <1>6, <2>3 DEF Cleanup, TypeOK
    <3> QED BY <1>0, <1>6, <2>1, <2>3, <3>1 DEF Cleanup, TypeOK, outcome, world
  <2> QED BY <2>2, <2>3
<1>7. CASE StoreFails
  <2>1. checkpoint' \in Position /\ failures' \in Nat
    BY <1>0, <1>7 DEF StoreFails, TypeOK
  <2> QED BY <1>0, <1>7, <2>1 DEF StoreFails, TypeOK, log, outcome
<1>8. CASE PassFails
  BY <1>0, <1>8, PassOverType DEF PassFails, TypeOK, log, outcome, world
<1> QED BY <1>1, <1>2, <1>3, <1>4, <1>5, <1>6, <1>7, <1>8

-----------------------------------------------------------------------------
(* The log and the checkpoint.                                             *)

LEMMA PendingSound ==
  ASSUME Inv, pc \in Working, pending # NoCheckpoint
  PROVE  Sound(files, nextLsn, pending)
<1>1. PICK p \in EntriesAfter(files, cp) : pending = NextPosition(p)
  BY DEF Inv, PassInv, PassBody, PendingInv
<1>2. p \in Entries(files)  BY EntriesAfterAre
<1>3. pending.lsn = p.lsn /\ p.lsn < nextLsn /\ InLog(files, pending)
  BY <1>1, <1>2, NextPositionAfter DEF Inv, LogInv
<1>4. ASSUME NEW e \in EntriesAfter(files, pending) PROVE e.lsn > pending.lsn
  <2>1. e \in Entries(files) /\ After(pending, e)  BY EntriesAfterAre
  <2>2. Before(p, e)  BY <1>1, <1>2, <2>1, NextPositionAfter DEF Inv
  <2>3. p.lsn < e.lsn  BY <1>2, <2>1, <2>2, LogOrder DEF Inv
  <2> QED BY <1>3, <2>3
<1> QED BY <1>3, <1>4 DEF Sound, Ahead

LEMMA RecordsLogged ==
  ASSUME Inv, NEW r \in Records, lsnOf[r] = 0, NEW e \in Entries(files) PROVE e.rec # r
<1>1. lsnOf[e.rec] = e.lsn /\ e.lsn > 0  BY DEF Inv, LogInv
<1> QED BY <1>1

LEMMA AppendLog ==
  ASSUME Inv, NEW r \in Records, NEW n, IsNewest(n, r), lsnOf[r] = 0, UNCHANGED checkpoint
  PROVE  LogInv' /\ CheckpointInv' /\ checkpoint.lsn < n.lsn
<1>1. /\ OnlyFrames(files') /\ HasLast(files')
      /\ Entries(files') = Entries(files) \cup {n}
      /\ \A e \in Entries(files) : Before(e, n) /\ ~Before(n, e)
      /\ \A q \in Position : InLog(files, q) => After(q, n) /\ InLog(files', q)
  BY DEF IsNewest, Extends
<1>2. /\ nextLsn \in Nat /\ nextLsn > 0 /\ lsnOf \in [Records -> Nat]
      /\ checkpoint \in Position /\ checkpoint.lsn \in Nat /\ checkpoint.lsn < nextLsn
      /\ InLog(files, checkpoint) /\ Ahead(files, checkpoint, checkpoint)
      /\ IsDirectory(files)
  BY DEF Inv, TypeOK, LogInv, CheckpointInv, Sound, Position
<1>3. /\ n.rec = r /\ n.lsn \in Nat /\ n.lsn >= nextLsn /\ nextLsn' = n.lsn + 1
      /\ lsnOf' = [lsnOf EXCEPT ![r] = n.lsn]
  BY DEF IsNewest
<1>4. \A e \in Entries(files) :
        e.lsn \in Nat /\ e.lsn > 0 /\ e.lsn < nextLsn /\ lsnOf[e.rec] = e.lsn /\ e.rec \in Records
  BY <1>2, EntryFacts DEF Inv, LogInv
<1>5. ASSUME NEW e \in Entries(files') PROVE e.lsn > 0 /\ e.lsn < nextLsn' /\ lsnOf'[e.rec] = e.lsn
  <2>1. CASE e = n  BY <1>2, <1>3, <2>1
  <2>2. CASE e \in Entries(files)
    <3>1. e.rec # r  BY <2>2, RecordsLogged
    <3>2. lsnOf'[e.rec] = lsnOf[e.rec]  BY <1>2, <1>3, <1>4, <2>2, <3>1
    <3>3. e.lsn < nextLsn'  BY <1>2, <1>3, <1>4, <2>2
    <3> QED BY <1>4, <2>2, <3>2, <3>3
  <2> QED BY <1>1, <2>1, <2>2
<1>6. ASSUME NEW e \in Entries(files'), NEW f \in Entries(files'), Before(e, f) PROVE e.lsn < f.lsn
  <2>0. ~Before(n, n)
    <3>1. n \in Entries(files') /\ IsDirectory(files')  BY <1>1 DEF IsNewest, Extends
    <3>2. n.segment \in Nat /\ n.index \in Nat  BY <3>1, EntryFacts
    <3> QED BY <3>2 DEF Before
  <2>1. CASE e \in Entries(files) /\ f \in Entries(files)  BY <1>6, <2>1 DEF Inv, LogInv
  <2>2. CASE e \in Entries(files) /\ f = n  BY <1>2, <1>3, <1>4, <2>2
  <2>3. CASE e = n  BY <1>1, <1>6, <2>0, <2>3
  <2> QED BY <1>1, <2>1, <2>2, <2>3
<1>7. LogInv'  BY <1>1, <1>2, <1>3, <1>5, <1>6 DEF LogInv
<1>8. checkpoint.lsn < n.lsn  BY <1>2, <1>3
<1>9. Ahead(files', checkpoint, checkpoint)
  BY <1>1, <1>2, <1>8, EntriesAfterAre DEF Ahead
<1>10. checkpoint.lsn < nextLsn'  BY <1>2, <1>3
<1>11. InLog(files', checkpoint)  BY <1>1, <1>2
<1>12. CheckpointInv'  BY <1>9, <1>10, <1>11 DEF CheckpointInv, Sound
<1> QED BY <1>7, <1>8, <1>12

LEMMA LogStep == ASSUME Inv, [Next]_vars PROVE LogInv' /\ CheckpointInv'
<1>1. ASSUME UNCHANGED <<files, nextLsn, lsnOf, checkpoint>> PROVE LogInv' /\ CheckpointInv'
  BY <1>1 DEF Inv, LogInv, CheckpointInv
<1>2. ASSUME NEW r \in Records, NEW p \in Plans, AppendRecord(r, p)
      PROVE  LogInv' /\ CheckpointInv'
  <2>1. PICK n : IsNewest(n, r)  BY <1>2, AppendFacts DEF Inv
  <2> QED BY <1>2, <2>1, AppendLog DEF AppendRecord
<1>3. CASE Restart
  <2>1. /\ OnlyFrames(files') /\ HasLast(files') /\ Entries(files') = Entries(files)
        /\ nextLsn' # 0 /\ \A e \in Entries(files) : e.lsn < nextLsn'
        /\ UNCHANGED lsnOf
    BY <1>3, RestartFacts DEF Inv, Restart
  <2>2. LogInv'  BY <2>1 DEF Inv, LogInv
  <2> QED BY <1>3, <2>2, RestartCheckpoint DEF CheckpointInv
<1>4. CASE Cleanup
  <2>1. /\ OnlyFrames(files') /\ HasLast(files') /\ Entries(files') \subseteq Entries(files)
        /\ EntriesAfter(files', checkpoint) = EntriesAfter(files, checkpoint)
        /\ InLog(files', checkpoint)
        /\ UNCHANGED <<nextLsn, lsnOf, checkpoint>>
    BY <1>4, CleanupFacts DEF Cleanup
  <2>2. LogInv'  BY <2>1 DEF Inv, LogInv
  <2>3. CheckpointInv'  BY <2>1 DEF Inv, CheckpointInv, Sound, Ahead
  <2> QED BY <2>2, <2>3
<1>5. CASE OpenPass
  <2>1. UNCHANGED <<files, nextLsn, lsnOf>> /\ checkpoint' = StoredPosition(files, checkpoint)
    BY <1>5 DEF OpenPass, log
  <2>2. Sound(files, nextLsn, checkpoint')  BY <2>1, StartHere
  <2> QED BY <2>1, <2>2 DEF Inv, LogInv, CheckpointInv
<1>6. CASE StoreCheckpoint \/ StoreFails
  <2>1. UNCHANGED <<files, nextLsn, lsnOf>> /\ pc \in Working
        /\ (checkpoint' = checkpoint \/ (pending # NoCheckpoint /\ checkpoint' = pending))
    BY <1>6 DEF StoreCheckpoint, StoreFails, log, Working
  <2>2. Sound(files, nextLsn, checkpoint')  BY <2>1, PendingSound DEF Inv, CheckpointInv
  <2> QED BY <2>1, <2>2 DEF Inv, LogInv, CheckpointInv
<1>7. CASE \E s \in Sinks : ToggleSink(s) \/ BatchTimeout(s)
  BY <1>1, <1>7 DEF ToggleSink, BatchTimeout, log
<1>8. CASE Crash \/ UNCHANGED vars  BY <1>1, <1>8 DEF Crash, vars, log
<1>9. CASE \/ ReadLog \/ TakeDeliverable \/ TakeOther \/ Quarantine \/ Defer \/ SendLast
           \/ SendSink \/ SendFails \/ WindowSent \/ Finish \/ PassFails
  BY <1>1, <1>9 DEF ReadLog, TakeDeliverable, TakeOther, Quarantine, Defer, SendLast, SendSink,
     SendFails, WindowSent, Finish, PassFails, log
<1> QED BY <1>2, <1>3, <1>4, <1>5, <1>6, <1>7, <1>8, <1>9 DEF Next, Pass

-----------------------------------------------------------------------------
(* What has been delivered stays delivered.                                *)

Grows ==
  /\ quarantined \subseteq quarantined'
  /\ \A s \in Sinks, r \in Records : delivered[s][r] > 0 => delivered'[s][r] > 0

(* Only records of the window are sent.                                    *)
SendsBatch ==
  \A s \in Sinks, r \in Records :
    delivered'[s][r] # delivered[s][r] => pc \in Working /\ \E e \in batch : e.rec = r

LEMMA CommitFacts ==
  ASSUME TypeOK, NEW s \in Sinks, NEW S, Commit(s, S)
  PROVE  /\ \A t \in Sinks, r \in Records : delivered[t][r] > 0 => delivered'[t][r] > 0
         /\ \A e \in S : e.rec \in Records => delivered'[s][e.rec] > 0
         /\ \A t \in Sinks, r \in Records :
              delivered'[t][r] # delivered[t][r] => t = s /\ \E e \in S : e.rec = r
<1> DEFINE had == delivered[s]
           Sent(r) == \E e \in S : e.rec = r
           has == [r \in Records |-> IF had[r] < 2 /\ Sent(r) THEN had[r] + 1 ELSE had[r]]
<1>1. delivered \in [Sinks -> [Records -> 0..2]]  BY DEF TypeOK
<1>2. delivered' = [delivered EXCEPT ![s] = has]  BY DEF Commit
<1>3. had \in [Records -> 0..2]  BY <1>1
<1>4. \A r \in Records : had[r] \in 0..2 /\ has[r] = (IF had[r] < 2 /\ Sent(r) THEN had[r] + 1 ELSE had[r])
  BY <1>3
<1> HIDE DEF had, has, Sent
<1>5. \A r \in Records : /\ had[r] > 0 => has[r] > 0
                         /\ Sent(r) => has[r] > 0
                         /\ has[r] # had[r] => Sent(r)
  BY <1>4
<1>6. \A t \in Sinks : delivered'[t] = IF t = s THEN has ELSE delivered[t]  BY <1>1, <1>2
<1>7. \A t \in Sinks, r \in Records : delivered[t][r] > 0 => delivered'[t][r] > 0
  BY <1>5, <1>6 DEF had
<1>8. \A e \in S : e.rec \in Records => delivered'[s][e.rec] > 0  BY <1>5, <1>6 DEF Sent
<1>9. \A t \in Sinks, r \in Records :
        delivered'[t][r] # delivered[t][r] => t = s /\ \E e \in S : e.rec = r
  BY <1>5, <1>6 DEF had, Sent
<1> QED BY <1>7, <1>8, <1>9

LEMMA OutcomeStep == ASSUME Inv, [Next]_vars PROVE Grows /\ SendsBatch
<1>1. ASSUME quarantined \subseteq quarantined', UNCHANGED delivered PROVE Grows /\ SendsBatch
  BY <1>1 DEF Grows, SendsBatch
<1>2. ASSUME NEW s \in Sinks, NEW S \in SUBSET batch, Commit(s, S), UNCHANGED quarantined, pc = "send"
      PROVE  Grows /\ SendsBatch
  <2>1. /\ \A t \in Sinks, r \in Records : delivered[t][r] > 0 => delivered'[t][r] > 0
        /\ \A t \in Sinks, r \in Records :
             delivered'[t][r] # delivered[t][r] => \E e \in S : e.rec = r
    BY <1>2, CommitFacts DEF Inv
  <2> QED BY <1>2, <2>1 DEF Grows, SendsBatch, Working
<1>3. CASE SendSink
  <2>1. Load(NextSink, batch) \in SUBSET batch  BY DEF Load, Fresh
  <2>2. NextSink \in Sinks  BY <1>3, NextSinkIs DEF SendSink, Inv
  <2> QED BY <1>2, <1>3, <2>1, <2>2 DEF SendSink
<1>4. CASE SendFails
  <2>1. Load(NextSink, batch) \in SUBSET batch
        /\ \A e : {f \in Load(NextSink, batch) : Before(f, e)} \in SUBSET batch
    BY DEF Load, Fresh
  <2>2. NextSink \in Sinks  BY <1>4, NextSinkIs DEF SendFails, Inv
  <2>3. CASE UNCHANGED delivered  BY <1>1, <1>4, <2>3 DEF SendFails
  <2>4. CASE \E S \in SUBSET batch : Commit(NextSink, S)
    BY <1>2, <1>4, <2>2, <2>4 DEF SendFails
  <2> QED BY <1>4, <2>1, <2>3, <2>4 DEF SendFails
<1>5. CASE Quarantine  BY <1>1, <1>5 DEF Quarantine
<1>6. CASE UNCHANGED outcome  BY <1>1, <1>6 DEF outcome
<1>7. ASSUME NEW r \in Records, NEW p \in Plans, AppendRecord(r, p) PROVE UNCHANGED outcome
  BY <1>7 DEF AppendRecord
<1>8. CASE \E s \in Sinks : ToggleSink(s) \/ BatchTimeout(s)
  BY <1>6, <1>8 DEF ToggleSink, BatchTimeout
<1>9. CASE Crash \/ Restart \/ UNCHANGED vars  BY <1>6, <1>9 DEF Crash, Restart, vars
<1>10. CASE \/ OpenPass \/ ReadLog \/ TakeDeliverable \/ TakeOther \/ Defer \/ SendLast
            \/ WindowSent \/ Finish \/ StoreCheckpoint \/ Cleanup \/ StoreFails \/ PassFails
  BY <1>6, <1>10 DEF OpenPass, ReadLog, TakeDeliverable, TakeOther, Defer, SendLast,
     WindowSent, Finish, StoreCheckpoint, Cleanup, StoreFails, PassFails
<1> QED BY <1>3, <1>4, <1>5, <1>6, <1>7, <1>8, <1>9, <1>10 DEF Next, Pass

LEMMA HandledStays ==
  ASSUME Grows, NEW r \in Records, plan'[r] = plan[r], Handled(r) PROVE Handled(r)'
BY DEF Grows, Handled

-----------------------------------------------------------------------------
(* The pass.                                                               *)

(* A step that leaves the log and what the pass holds.                     *)
LEMMA Steady ==
  ASSUME Inv, Grows, pc \in Working,
         UNCHANGED <<files, plan, checkpoint, cp, batch, unread, pending>>
  PROVE  PassBody'
<1>1. PassBody /\ IsDirectory(files)  BY DEF Inv, PassInv, TypeOK
<1>2. \A e \in EntriesAfter(files, cp) : Handled(e.rec) => Handled(e.rec)'
  <2> SUFFICES ASSUME NEW e \in EntriesAfter(files, cp), Handled(e.rec) PROVE Handled(e.rec)'
    OBVIOUS
  <2>1. e.rec \in Records  BY <1>1, EntriesAfterAre, EntryFacts
  <2> QED BY <2>1, HandledStays
<1>3. NextUp'  BY <1>1, <1>2 DEF PassBody, NextUp
<1>4. PendingInv'  BY <1>1, <1>2 DEF PassBody, PendingInv
<1> QED BY <1>1, <1>3, <1>4 DEF PassBody

LEMMA AppendPass ==
  ASSUME Inv, NEW r \in Records, NEW p \in Plans, AppendRecord(r, p), pc \in Working
  PROVE  PassBody'
<1>1. PICK n : IsNewest(n, r)  BY AppendFacts DEF Inv
<1>2. /\ PassBody /\ IsDirectory(files) /\ cp \in Position /\ plan \in [Records -> Plans \cup {{}}]
      /\ UNCHANGED <<cp, checkpoint, batch, unread, pending, delivered, quarantined>>
      /\ plan' = [plan EXCEPT ![r] = p] /\ lsnOf[r] = 0
  BY DEF Inv, PassInv, TypeOK, AppendRecord, pass, outcome
<1>3. /\ IsDirectory(files')
      /\ Entries(files') = Entries(files) \cup {n}
      /\ \A e \in Entries(files) : Before(e, n) /\ ~Before(n, e)
      /\ \A q \in Position : InLog(files, q) => After(q, n)
  BY <1>1 DEF IsNewest, Extends
<1>4. checkpoint.lsn < n.lsn  BY <1>1, <1>2, AppendLog
<1>5. /\ EntriesAfter(files, cp) \subseteq Entries(files)
      /\ EntriesAfter(files, cp) \subseteq EntriesAfter(files', cp)
      /\ EntriesAfter(files', cp) \subseteq EntriesAfter(files, cp) \cup {n}
  BY <1>3, EntriesAfterAre
<1>6. \A e \in Entries(files) : e.rec \in Records /\ plan'[e.rec] = plan[e.rec]
  <2> SUFFICES ASSUME NEW e \in Entries(files)
               PROVE  e.rec \in Records /\ plan'[e.rec] = plan[e.rec]
    OBVIOUS
  <2>1. e.rec \in Records /\ e.rec # r  BY <1>2, EntryFacts, RecordsLogged
  <2> QED BY <1>2, <2>1
<1>7. \A e \in Entries(files) : Handled(e.rec) => Handled(e.rec)'
  BY <1>2, <1>6 DEF Handled
<1>8. batch \cup unread \subseteq EntriesAfter(files, cp)  BY <1>2 DEF PassBody, NextUp
<1>9. Ahead(files', cp', checkpoint')  BY <1>2, <1>4, <1>5 DEF PassBody, Ahead
<1>10. NextUp'
  <2>1. \A e \in EntriesAfter(files', cp), f \in batch \cup unread :
          Before(e, f) => Handled(e.rec)' \/ e \in batch \cup unread
    BY <1>2, <1>3, <1>5, <1>7, <1>8 DEF PassBody, NextUp
  <2> QED BY <1>2, <1>5, <1>8, <2>1 DEF PassBody, NextUp
<1>11. PendingInv'
  <2> SUFFICES ASSUME pending # NoCheckpoint PROVE PendingInv'  BY <1>2 DEF PendingInv
  <2>1. InLog(files, pending) /\ pending \in Position
    BY PendingSound DEF Sound, Inv, TypeOK
  <2>2. After(pending, n)  BY <1>3, <2>1
  <2>3. \A e \in EntriesAfter(files', cp) : After(pending, e) \/ Handled(e.rec)'
    BY <1>2, <1>5, <1>7, <2>2 DEF PassBody, PendingInv
  <2> QED BY <1>2, <1>5, <2>3 DEF PassBody, PendingInv
<1>12. \A e \in batch : plan'[e.rec] \subseteq Sinks  BY <1>2, <1>5, <1>6, <1>8 DEF PassBody
<1> QED BY <1>2, <1>9, <1>10, <1>11, <1>12 DEF PassBody

Rest == IdleInv /\ PassInv /\ WindowInv

LEMMA Quiet ==
  ASSUME Inv, Grows,
         UNCHANGED <<files, plan, checkpoint, cp, batch, unread, pending, pc, up, sending, after>>
  PROVE  Rest'
<1>1. PassInv'  BY Steady DEF PassInv, Inv
<1>2. IdleInv'  BY DEF Inv, IdleInv
<1>3. WindowInv'
  <2>1. \A s \in Sinks : \A e \in Load(s, batch) : delivered[s][e.rec] > 0 => delivered'[s][e.rec] > 0
    <3> SUFFICES ASSUME NEW s \in Sinks, NEW e \in Load(s, batch), delivered[s][e.rec] > 0
                 PROVE  delivered'[s][e.rec] > 0
      OBVIOUS
    <3>1. e.rec \in Records  BY DEF Load, Fresh, Inv, TypeOK, EntrySet
    <3> QED BY <3>1 DEF Grows
  <2> QED BY <2>1 DEF Inv, WindowInv, Load, Fresh
<1> QED BY <1>1, <1>2, <1>3 DEF Rest

LEMMA WorldPass ==
  ASSUME Inv, Grows,
         \/ \E r \in Records, p \in Plans : AppendRecord(r, p)
         \/ \E s \in Sinks : ToggleSink(s) \/ BatchTimeout(s)
         \/ Crash \/ Restart
  PROVE  Rest'
<1>1. ASSUME NEW r \in Records, NEW p \in Plans, AppendRecord(r, p) PROVE Rest'
  <2>1. UNCHANGED <<checkpoint, pass, delivered, up>> /\ up /\ lsnOf[r] = 0
        /\ plan' = [plan EXCEPT ![r] = p] /\ plan \in [Records -> Plans \cup {{}}]
    BY <1>1 DEF AppendRecord, outcome, world, Inv, TypeOK
  <2>2. PassInv'  BY <1>1, <2>1, AppendPass DEF PassInv, pass
  <2>3. IdleInv'  BY <2>1 DEF pass, Inv, IdleInv
  <2>4. WindowInv'
    <3>1. pc = "send" => \A e \in batch : plan'[e.rec] = plan[e.rec]
      <4> SUFFICES ASSUME pc = "send", NEW e \in batch PROVE plan'[e.rec] = plan[e.rec]
        OBVIOUS
      <4>1. e \in Entries(files)  BY HeldIsInLog DEF Working
      <4>2. e.rec \in Records /\ e.rec # r
        BY <2>1, <4>1, EntryFacts, RecordsLogged DEF Inv, TypeOK
      <4> QED BY <2>1, <4>2
    <3>2. pc = "send" => \A s \in Sinks : Load(s, batch)' = Load(s, batch)
      BY <2>1, <3>1 DEF Load, Fresh, pass
    <3> QED BY <2>1, <3>2 DEF pass, Inv, WindowInv
  <2> QED BY <2>2, <2>3, <2>4 DEF Rest
<1>2. ASSUME NEW s \in Sinks, ToggleSink(s) \/ BatchTimeout(s) PROVE Rest'
  <2>1. UNCHANGED <<files, plan, checkpoint, cp, batch, unread, pending, pc, up, sending, after>>
    BY <1>2 DEF ToggleSink, BatchTimeout, log, pass, world
  <2> QED BY <2>1, Quiet
<1>3. CASE Crash  BY <1>3 DEF Crash, PassOver, Rest, IdleInv, PassInv, WindowInv, Working
<1>4. CASE Restart
  <2>1. pc = "idle" /\ up' /\ UNCHANGED pass  BY <1>4 DEF Restart, Inv, IdleInv
  <2> QED BY <2>1 DEF pass, Rest, Inv, IdleInv, PassInv, WindowInv, Working
<1> QED BY <1>1, <1>2, <1>3, <1>4

LEMMA OpenRead ==
  ASSUME Inv, Grows, OpenPass \/ ReadLog PROVE Rest'
<1>1. CASE OpenPass
  <2>1. /\ pc' = "read" /\ up /\ up' = up /\ batch' = {} /\ unread' = {}
        /\ pending' = NoCheckpoint /\ UNCHANGED files
        /\ cp' = StartPosition(files, checkpoint)
        /\ checkpoint' = StoredPosition(files, checkpoint)
    BY <1>1 DEF OpenPass, log, world, Inv, IdleInv
  <2>2. (cp' = NoCheckpoint \/ cp' = checkpoint') /\ Ahead(files', cp', checkpoint')
    BY <2>1, StartHere
  <2>3. PassBody'  BY <2>1, <2>2 DEF PassBody, NextUp, PendingInv
  <2> QED BY <2>1, <2>3 DEF Rest, IdleInv, PassInv, WindowInv
<1>2. CASE ReadLog
  <2>1. /\ pc = "read" /\ pc' = "scan" /\ up /\ up' = up /\ batch = {}
        /\ pending = NoCheckpoint /\ unread' = ReadEntries
        /\ UNCHANGED <<files, checkpoint, cp, batch, pending>>
    BY <1>2 DEF ReadLog, log, world, Inv, IdleInv, WindowInv
  <2>2. PassBody  BY <2>1 DEF Inv, PassInv, Working
  <2>3. /\ ReadEntries \subseteq EntriesAfter(files, cp)
        /\ \A e \in EntriesAfter(files, cp), f \in ReadEntries : Before(e, f) => e \in ReadEntries
    BY ReadFacts DEF Inv
  <2>4. NextUp'  BY <2>1, <2>3 DEF NextUp
  <2>5. PassBody'  BY <2>1, <2>2, <2>4 DEF PassBody, PendingInv
  <2> QED BY <2>1, <2>5 DEF Rest, IdleInv, PassInv, WindowInv
<1> QED BY <1>1, <1>2

(* A window goes to its sinks, or is through at once.                      *)
LEMMA WindowOpens ==
  ASSUME Inv, NEW next, next \in {"scan", "quarantine", "fail", "finish"},
         NEW S, S \subseteq EntrySet, SendWindow(S, next), UNCHANGED <<cp, plan, delivered, pending, up>>,
         up, next = "quarantine" => unread' # {}
  PROVE  WindowInv' /\ IdleInv'
<1>1. /\ batch' = S /\ sending' = Targets(S) /\ after' = next
      /\ pc' = IF S = {} THEN next ELSE "send"
  BY DEF SendWindow
<1>2. \A s \in Sinks \ sending' : Load(s, S) = {}  BY <1>1 DEF Targets
<1>3. \A s \in Sinks : Load(s, batch)' = Load(s, S)  BY <1>1 DEF Load, Fresh
<1>4. \A s \in (Sinks \ sending)' : \A e \in Load(s, batch)' : delivered'[s][e.rec] > 0
  BY <1>2, <1>3
<1>5. CASE S = {}  BY <1>1, <1>5 DEF WindowInv, IdleInv
<1>6. CASE S # {}  BY <1>1, <1>4, <1>6 DEF WindowInv, IdleInv
<1> QED BY <1>5, <1>6

LEMMA TakePass ==
  ASSUME Inv, Grows, TakeDeliverable PROVE Rest'
<1> DEFINE e == First(unread)
<1>1. /\ pc = "scan" /\ up /\ UNCHANGED <<files, plan, checkpoint, cp, delivered, pending, up>>
      /\ batch' = batch \cup {e} /\ unread' = unread \ {e} /\ unread # {}
      /\ plan[e.rec] \subseteq Sinks
      /\ \/ SendWindow(batch \cup {e}, "scan")
         \/ UNCHANGED pc
      /\ UNCHANGED quarantined
  BY DEF TakeDeliverable, SendWindow, Deliverable, log, outcome, world, Inv, IdleInv, TypeOK
<1>2. PassBody /\ pc \in Working  BY <1>1 DEF Inv, PassInv, Working
<1>3. /\ e \in unread /\ e \in EntrySet
      /\ \A f \in unread : e = f \/ Before(e, f)
  BY <1>1, <1>2, FirstUnread
<1> HIDE DEF e
<1>4. batch' \cup unread' = batch \cup unread  BY <1>1, <1>3
<1>5. \A r : Handled(r)' <=> Handled(r)  BY <1>1 DEF Handled
<1>6. NextUp'
  <2>1. \A x \in batch', f \in unread' : Before(x, f)  BY <1>1, <1>2, <1>3 DEF PassBody, NextUp
  <2> QED BY <1>1, <1>2, <1>4, <1>5, <2>1 DEF PassBody, NextUp
<1>7. PendingInv'  BY <1>1, <1>2, <1>4, <1>5 DEF PassBody, PendingInv
<1>8. PassBody'  BY <1>1, <1>2, <1>6, <1>7 DEF PassBody
<1>9. WindowInv' /\ IdleInv'
  <2>1. CASE SendWindow(batch \cup {e}, "scan")
    <3>1. batch \cup {e} \subseteq EntrySet  BY <1>3 DEF Inv, TypeOK
    <3> QED BY <1>1, <2>1, <3>1, WindowOpens
  <2>2. CASE UNCHANGED pc  BY <1>1, <2>2 DEF WindowInv, IdleInv
  <2> QED BY <1>1, <2>1, <2>2
<1> QED BY <1>8, <1>9 DEF Rest, PassInv

LEMMA TurnPass ==
  ASSUME Inv, Grows, TakeOther \/ SendLast \/ Defer PROVE Rest'
<1>1. CASE Defer
  <2>1. PassOver /\ up /\ up' = up  BY <1>1 DEF Defer, world, Inv, IdleInv
  <2> QED BY <2>1 DEF PassOver, Rest, IdleInv, PassInv, WindowInv, Working
<1>2. CASE TakeOther \/ SendLast
  <2>1. /\ pc = "scan" /\ up
        /\ UNCHANGED <<files, plan, checkpoint, cp, unread, pending, delivered, up>>
    BY <1>2 DEF TakeOther, SendLast, log, outcome, world, Inv, IdleInv
  <2>2. PICK next \in {"scan", "quarantine", "fail", "finish"} :
          SendWindow(batch, next) /\ (next = "quarantine" => unread # {})
    BY <1>2 DEF TakeOther, SendLast
  <2>3. batch' = batch  BY <2>2 DEF SendWindow
  <2>4. PassBody'  BY <2>1, <2>3, Steady DEF Working
  <2>5. WindowInv' /\ IdleInv'
    <3>1. batch \subseteq EntrySet  BY DEF Inv, TypeOK
    <3> QED BY <2>1, <2>2, <3>1, WindowOpens
  <2> QED BY <2>4, <2>5 DEF Rest, PassInv
<1> QED BY <1>1, <1>2

LEMMA QuarantinePass ==
  ASSUME Inv, Grows, Quarantine PROVE Rest'
<1>0. PICK e : e = First(unread)  OBVIOUS
<1>1. /\ pc = "quarantine" /\ pc' = "scan" /\ up /\ up' = up
      /\ UNCHANGED <<files, plan, checkpoint, cp, batch>>
      /\ quarantined' = quarantined \cup {e.rec}
      /\ pending' = NextPosition(e) /\ unread' = unread \ {e}
  BY <1>0 DEF Quarantine, log, world, Inv, IdleInv
<1>2. PassBody /\ pc \in Working /\ batch = {} /\ unread # {} /\ IsDirectory(files)
  BY <1>1 DEF Inv, PassInv, WindowInv, Working, TypeOK
<1>3. /\ e \in unread /\ e \in Entries(files)
      /\ \A f \in unread : e = f \/ Before(e, f)
  BY <1>0, <1>2, FirstUnread
<1>4. unread \subseteq EntriesAfter(files, cp) /\ EntriesAfter(files, cp) \subseteq Entries(files)
  BY <1>2, EntriesAfterAre DEF PassBody, NextUp
<1>5. \A x \in Entries(files) : Handled(x.rec) => Handled(x.rec)'
  <2> SUFFICES ASSUME NEW x \in Entries(files), Handled(x.rec) PROVE Handled(x.rec)'  OBVIOUS
  <2>1. x.rec \in Records  BY <1>2, EntryFacts
  <2> QED BY <1>1, <2>1, HandledStays
<1>6. Handled(e.rec)'  BY <1>1 DEF Handled
<1>7. NextUp'
  <2>1. \A x \in EntriesAfter(files, cp), f \in unread' :
          Before(x, f) => Handled(x.rec)' \/ x \in unread'
    BY <1>1, <1>2, <1>4, <1>5, <1>6 DEF PassBody, NextUp
  <2> QED BY <1>1, <1>2, <1>4, <2>1 DEF NextUp
<1>8. \A x \in Entries(files) : After(pending', x) <=> Before(e, x)
  BY <1>1, <1>3, NextPositionAfter DEF Inv
<1>9. \A x \in EntriesAfter(files, cp) : After(pending', x) \/ Handled(x.rec)'
  <2> SUFFICES ASSUME NEW x \in EntriesAfter(files, cp), ~Before(e, x) PROVE Handled(x.rec)'
    BY <1>4, <1>8
  <2>1. x = e \/ Before(x, e)  BY <1>3, <1>4, LogOrder DEF Inv
  <2>2. CASE x = e  BY <1>6, <2>2
  <2>3. CASE Before(x, e)
    <3>1. x \notin unread
      <4>1. ~(x = e \/ Before(e, x))  BY <1>3, <1>4, <2>3, LogOrder DEF Inv
      <4> QED BY <1>3, <4>1
    <3>2. Handled(x.rec)  BY <1>2, <1>3, <2>3, <3>1 DEF PassBody, NextUp
    <3> QED BY <1>4, <1>5, <3>2
  <2> QED BY <2>1, <2>2, <2>3
<1>10. \A f \in unread' : After(pending', f)  BY <1>1, <1>3, <1>4, <1>8
<1>11. PendingInv'  BY <1>1, <1>2, <1>3, <1>4, <1>9, <1>10 DEF PendingInv
<1>12. PassBody'  BY <1>1, <1>2, <1>7, <1>11 DEF PassBody
<1> QED BY <1>1, <1>12 DEF Rest, PassInv, WindowInv, IdleInv

(* Nothing in a window is covered.                                         *)
LEMMA AllFresh == ASSUME Inv, pc \in Working PROVE Fresh(batch) = batch
<1>1. PassBody /\ checkpoint \in Position  BY DEF Inv, PassInv, TypeOK
<1>2. batch \subseteq EntriesAfter(files, cp) /\ batch \subseteq Entries(files)
  BY <1>1, EntriesAfterAre DEF PassBody, NextUp
<1>3. \A e \in batch : e.lsn > cp.lsn
  <2>1. CASE cp = checkpoint  BY <1>1, <1>2, <2>1 DEF PassBody, Ahead
  <2>2. CASE cp = NoCheckpoint
    <3>1. \A e \in batch : e.lsn > 0  BY <1>2 DEF Inv, LogInv
    <3> QED BY <2>2, <3>1 DEF NoCheckpoint
  <2> QED BY <1>1, <2>1, <2>2 DEF PassBody
<1> QED BY <1>3 DEF Fresh

(* Every entry of a window whose sinks have all committed is handled.      *)
LEMMA WindowHandled ==
  ASSUME Inv, pc = "send", sending = {}
  PROVE  Fresh(batch) = batch /\ \A e \in batch : Handled(e.rec)
<1>1. PassBody  BY DEF Inv, PassInv, Working
<1>2. Fresh(batch) = batch  BY AllFresh DEF Working
<1>3. ASSUME NEW e \in batch PROVE Handled(e.rec)
  <2> SUFFICES ASSUME NEW s \in plan[e.rec] PROVE s \in Sinks /\ delivered[s][e.rec] > 0
    BY DEF Handled
  <2>1. s \in Sinks  BY <1>1 DEF PassBody
  <2>2. e \in Load(s, batch)  BY <1>2 DEF Load
  <2> QED BY <2>1, <2>2 DEF Inv, WindowInv
<1> QED BY <1>2, <1>3

LEMMA SentPass ==
  ASSUME Inv, Grows, WindowSent PROVE Rest'
<1>1. /\ pc = "send" /\ sending = {} /\ up /\ up' = up /\ batch' = {}
      /\ UNCHANGED <<files, plan, checkpoint, cp, unread, delivered, quarantined, after>>
      /\ pc' = "store" \/ pc' = after
  BY DEF WindowSent, log, outcome, world, Inv, IdleInv
<1>2. /\ PassBody /\ pc \in Working /\ IsDirectory(files)
      /\ after \in {"scan", "quarantine", "fail", "finish"}
      /\ after = "quarantine" => unread # {}
  BY <1>1 DEF Inv, PassInv, WindowInv, Working, TypeOK
<1>3. Fresh(batch) = batch /\ \A x \in batch : Handled(x.rec)  BY <1>1, WindowHandled
<1>4. \A r : Handled(r)' <=> Handled(r)  BY <1>1 DEF Handled
<1>5. /\ batch \cup unread \subseteq EntriesAfter(files, cp)
      /\ EntriesAfter(files, cp) \subseteq Entries(files)
  BY <1>2, EntriesAfterAre DEF PassBody, NextUp
<1>6. NextUp'
  <2>1. \A x \in EntriesAfter(files, cp), f \in unread :
          Before(x, f) => Handled(x.rec) \/ x \in unread
    BY <1>2, <1>3 DEF PassBody, NextUp
  <2> QED BY <1>1, <1>4, <1>5, <2>1 DEF NextUp
<1>7. PendingInv'
  <2>1. CASE batch = {}
    <3>1. pending' = pending  BY <1>3, <2>1 DEF WindowSent
    <3> QED BY <1>1, <1>2, <1>4, <2>1, <3>1 DEF PassBody, PendingInv
  <2>2. CASE batch # {}
    <3> DEFINE p == LastOf(batch)
    <3>1. p \in batch /\ \A f \in batch : p = f \/ Before(f, p)
      BY <1>5, <2>2, LastIs DEF Inv
    <3>2. pending' = NextPosition(p)  BY <1>3, <2>2 DEF WindowSent
    <3> HIDE DEF p
    <3>3. \A x \in Entries(files) : After(pending', x) <=> Before(p, x)
      BY <1>5, <3>1, <3>2, NextPositionAfter DEF Inv
    <3>4. \A x \in EntriesAfter(files, cp) : After(pending', x) \/ Handled(x.rec)
      <4> SUFFICES ASSUME NEW x \in EntriesAfter(files, cp), ~Before(p, x) PROVE Handled(x.rec)
        BY <1>5, <3>3
      <4>1. x = p \/ Before(x, p)  BY <1>5, <3>1, LogOrder DEF Inv
      <4>2. CASE x = p  BY <1>3, <3>1, <4>2
      <4>3. CASE Before(x, p)
        <5>1. x \notin unread
          <6>1. ~Before(p, x)  OBVIOUS
          <6> QED BY <1>2, <3>1, <6>1 DEF PassBody, NextUp
        <5>2. Handled(x.rec) \/ x \in batch  BY <1>2, <3>1, <4>3, <5>1 DEF PassBody, NextUp
        <5> QED BY <1>3, <5>2
      <4> QED BY <4>1, <4>2, <4>3
    <3>5. \A f \in unread : After(pending', f)  BY <1>2, <1>5, <3>1, <3>3 DEF PassBody, NextUp
    <3> QED BY <1>1, <1>4, <1>5, <3>1, <3>2, <3>4, <3>5 DEF PendingInv
  <2> QED BY <2>1, <2>2
<1>8. PassBody'  BY <1>1, <1>2, <1>6, <1>7 DEF PassBody
<1>9. WindowInv' /\ IdleInv'
  BY <1>1, <1>2 DEF WindowInv, IdleInv
<1> QED BY <1>8, <1>9 DEF Rest, PassInv

LEMMA SendPass ==
  ASSUME Inv, Grows, SendSink \/ Finish PROVE Rest'
<1>1. /\ pc \in {"send", "finish"} /\ up /\ up' = up
      /\ UNCHANGED <<files, plan, checkpoint, cp, batch, unread, pending>>
  BY DEF SendSink, Finish, log, world, Inv, IdleInv
<1>2. PassBody'  BY <1>1, Steady DEF Working
<1>3. CASE Finish
  <2>1. pc' = "store" /\ batch = {} /\ after' = "idle"  BY <1>3 DEF Finish, Inv, WindowInv
  <2> QED BY <1>1, <1>2, <2>1 DEF Rest, PassInv, WindowInv, IdleInv
<1>4. CASE SendSink
  <2>1. /\ Commit(NextSink, Load(NextSink, batch)) /\ sending' = sending \ {NextSink}
        /\ pc = "send" /\ UNCHANGED <<pc, after>> /\ NextSink \in Sinks
    BY <1>4, NextSinkIs DEF SendSink, Inv
  <2>2. /\ \A t \in Sinks, r \in Records : delivered[t][r] > 0 => delivered'[t][r] > 0
        /\ \A e \in Load(NextSink, batch) : e.rec \in Records => delivered'[NextSink][e.rec] > 0
    BY <2>1, CommitFacts DEF Inv
  <2>3. ASSUME NEW s \in Sinks \ sending', NEW e \in Load(s, batch) PROVE delivered'[s][e.rec] > 0
    <3>1. e.rec \in Records  BY <2>3 DEF Load, Fresh, Inv, TypeOK, EntrySet
    <3>2. CASE s = NextSink  BY <2>2, <2>3, <3>1, <3>2
    <3>3. CASE s \notin sending
      <4>1. delivered[s][e.rec] > 0  BY <2>1, <2>3, <3>3 DEF Inv, WindowInv
      <4> QED BY <2>2, <2>3, <3>1, <4>1
    <3> QED BY <2>1, <2>3, <3>2, <3>3
  <2>4. \A s \in Sinks : Load(s, batch)' = Load(s, batch)  BY <1>1 DEF Load, Fresh
  <2>5. WindowInv'
    <3>1. \A s \in (Sinks \ sending)' : \A e \in Load(s, batch)' : delivered'[s][e.rec] > 0
      BY <2>3, <2>4
    <3> QED BY <1>1, <2>1, <3>1 DEF Inv, WindowInv
  <2> QED BY <1>1, <1>2, <2>1, <2>5 DEF Rest, PassInv, IdleInv
<1> QED BY <1>3, <1>4

LEMMA FailPass ==
  ASSUME Inv, SendFails \/ StoreFails \/ PassFails PROVE Rest'
<1>1. CASE SendFails \/ StoreFails
  <2>1. pc' = "fail" /\ up /\ up' = up
    BY <1>1 DEF SendFails, StoreFails, Inv, IdleInv
  <2> QED BY <2>1 DEF Rest, IdleInv, PassInv, WindowInv, Working
<1>2. CASE PassFails
  <2>1. PassOver /\ up /\ up' = up  BY <1>2 DEF PassFails, world, Inv, IdleInv
  <2> QED BY <2>1 DEF PassOver, Rest, IdleInv, PassInv, WindowInv, Working
<1> QED BY <1>1, <1>2

LEMMA StorePass ==
  ASSUME Inv, Grows, StoreCheckpoint PROVE Rest'
<1>1. /\ pc = "store" /\ pc' = "cleanup" /\ up /\ up' = up /\ pending' = NoCheckpoint
      /\ UNCHANGED <<files, plan, batch, unread, delivered, quarantined, after>>
  BY DEF StoreCheckpoint, log, outcome, world, Inv, IdleInv
<1>2. /\ PassBody /\ pc \in Working /\ IsDirectory(files) /\ batch = {}
      /\ after = "quarantine" => unread # {}
  BY <1>1 DEF Inv, PassInv, WindowInv, Working, TypeOK
<1>3. \A r : Handled(r)' <=> Handled(r)  BY <1>1 DEF Handled
<1>4. PassBody'
  <2>1. CASE pending = NoCheckpoint
    <3>1. UNCHANGED <<checkpoint, cp>>  BY <2>1 DEF StoreCheckpoint
    <3>2. NextUp'  BY <1>1, <1>2, <1>3, <3>1 DEF PassBody, NextUp
    <3> QED BY <1>1, <1>2, <3>1, <3>2 DEF PassBody, PendingInv
  <2>2. CASE pending # NoCheckpoint
    <3>1. checkpoint' = pending /\ cp' = pending  BY <2>2 DEF StoreCheckpoint
    <3>2. Ahead(files, pending, pending)  BY <1>2, <2>2, PendingSound DEF Sound
    <3>3. EntriesAfter(files, pending) \subseteq EntriesAfter(files, cp)
      <4>1. PICK p \in EntriesAfter(files, cp) : pending = NextPosition(p)
        BY <1>2, <2>2 DEF PassBody, PendingInv
      <4>2. /\ p \in Entries(files) /\ After(cp, p)
            /\ p.segment \in Nat /\ p.index \in Nat /\ cp \in Position
        BY <1>2, EntriesAfterAre, EntryFacts DEF Inv, TypeOK
      <4>3. ASSUME NEW x \in EntriesAfter(files, pending) PROVE x \in EntriesAfter(files, cp)
        <5>1. x \in Entries(files) /\ After(pending, x) /\ x.segment \in Nat /\ x.index \in Nat
          BY <1>2, EntriesAfterAre, EntryFacts
        <5>2. Before(p, x)  BY <4>1, <4>2, <5>1, NextPositionAfter DEF Inv
        <5>3. cp.segment \in Nat /\ cp.offset \in Nat  BY <4>2 DEF Position
        <5>4. After(cp, x)  BY <4>2, <5>1, <5>2, <5>3 DEF After, Before
        <5> QED BY <5>1, <5>4, EntriesAfterAre
      <4> QED BY <4>3
    <3>4. unread \subseteq EntriesAfter(files, pending)
      <4>1. unread \subseteq Entries(files)  BY <1>2, EntriesAfterAre DEF PassBody, NextUp
      <4> QED BY <1>2, <2>2, <4>1, EntriesAfterAre DEF PassBody, PendingInv
    <3>5. NextUp'  BY <1>1, <1>2, <1>3, <3>1, <3>3, <3>4 DEF PassBody, NextUp
    <3> QED BY <1>1, <1>2, <3>1, <3>2, <3>5 DEF PassBody, PendingInv
  <2> QED BY <2>1, <2>2
<1>5. WindowInv' /\ IdleInv'  BY <1>1, <1>2 DEF WindowInv, IdleInv
<1> QED BY <1>4, <1>5 DEF Rest, PassInv

LEMMA CleanupPass ==
  ASSUME Inv, Grows, Cleanup PROVE Rest'
<1>1. /\ pc = "cleanup" /\ up /\ up' = up /\ pending = NoCheckpoint /\ batch = {}
      /\ UNCHANGED <<plan, checkpoint, delivered, quarantined>>
      /\ after = "quarantine" => unread # {}
  BY DEF Cleanup, outcome, world, Inv, IdleInv, WindowInv
<1>2. CASE after = "idle"
  <2>1. PassOver  BY <1>2 DEF Cleanup
  <2> QED BY <1>1, <2>1 DEF PassOver, Rest, IdleInv, PassInv, WindowInv, Working
<1>3. CASE after # "idle"
  <2>1. /\ pc' = after /\ UNCHANGED <<cp, unread, batch, pending, after>>
        /\ after \in {"scan", "quarantine", "fail", "finish"}
    BY <1>3 DEF Cleanup, Inv, TypeOK
  <2>2. PassBody /\ EntriesAfter(files', cp) = EntriesAfter(files, cp)
    BY <1>1, CleanupFacts DEF Inv, PassInv, Working
  <2>3. \A r : Handled(r)' <=> Handled(r)  BY <1>1 DEF Handled
  <2>4. NextUp' /\ Ahead(files', cp', checkpoint')
    BY <1>1, <2>1, <2>2, <2>3 DEF PassBody, NextUp, Ahead
  <2>5. PassBody'  BY <1>1, <2>1, <2>2, <2>4 DEF PassBody, PendingInv
  <2>6. WindowInv' /\ IdleInv'  BY <1>1, <2>1 DEF WindowInv, IdleInv
  <2> QED BY <2>5, <2>6 DEF Rest, PassInv
<1> QED BY <1>2, <1>3

-----------------------------------------------------------------------------
(* The invariant, and the theorems.                                        *)

LEMMA InitInv == Init => Inv
<1> SUFFICES ASSUME Init PROVE Inv  OBVIOUS
<1>1. TypeOK  BY InitType
<1>2. DOMAIN files = {1} /\ files[1].cells = <<>>  BY DEF Init, EmptySegment, FirstSegmentId
<1>3. OnlyFrames(files) /\ HasLast(files)  BY <1>2 DEF OnlyFrames, HasLast
<1>4. Entries(files) = {}
  <2>1. FrameIndexes(files[1]) = {}  BY <1>2 DEF FrameIndexes
  <2> QED BY <1>2, <2>1, EntriesAre
<1>5. LogInv  BY <1>3, <1>4 DEF Init, LogInv
<1>6. CheckpointInv
  <2>1. checkpoint.lsn = 0 /\ checkpoint.segment \in {0, 1} /\ checkpoint.offset = 0
    BY DEF Init, NoCheckpoint, FirstSegmentId
  <2>2. InLog(files, checkpoint)  BY <1>2, <2>1 DEF InLog
  <2>3. Ahead(files, checkpoint, checkpoint)  BY <1>4, EntriesAfterAre DEF Ahead
  <2> QED BY <2>1, <2>2, <2>3 DEF Init, CheckpointInv, Sound
<1>7. IdleInv /\ PassInv /\ WindowInv  BY DEF Init, IdleInv, PassInv, WindowInv, Working
<1> QED BY <1>1, <1>5, <1>6, <1>7 DEF Inv

LEMMA InvStep == ASSUME Inv, [Next]_vars PROVE Inv'
<1>1. Grows  BY OutcomeStep
<1>2. LogInv' /\ CheckpointInv'  BY LogStep
<1>3. CASE UNCHANGED vars
  <2>1. TypeOK'  BY <1>3 DEF vars, log, pass, outcome, world, Inv, TypeOK
  <2>2. Rest'  BY <1>1, <1>3, Quiet DEF vars, log, pass, world
  <2> QED BY <1>2, <2>1, <2>2 DEF Inv, Rest
<1>4. CASE Next
  <2>1. CASE \/ \E r \in Records, p \in Plans : AppendRecord(r, p)
             \/ \E s \in Sinks : ToggleSink(s) \/ BatchTimeout(s)
             \/ Crash \/ Restart
    BY <1>1, <1>2, <2>1, WorldTypes, WorldPass DEF Inv, Rest
  <2>2. CASE OpenPass \/ ReadLog \/ TakeDeliverable \/ TakeOther \/ Quarantine \/ Defer \/ SendLast
    <3>1. TypeOK'  BY <2>2, ReadingTypes
    <3>2. Rest'  BY <1>1, <2>2, OpenRead, TakePass, TurnPass, QuarantinePass
    <3> QED BY <1>2, <3>1, <3>2 DEF Inv, Rest
  <2>3. CASE \/ SendSink \/ SendFails \/ WindowSent
             \/ Finish \/ StoreCheckpoint \/ Cleanup \/ StoreFails \/ PassFails
    <3>1. TypeOK'  BY <2>3, SendingTypes
    <3>2. Rest'  BY <1>1, <2>3, SendPass, SentPass, StorePass, CleanupPass, FailPass
    <3> QED BY <1>2, <3>1, <3>2 DEF Inv, Rest
  <2> QED BY <1>4, <2>1, <2>2, <2>3 DEF Next, Pass
<1> QED BY <1>3, <1>4

(* The log of the replay loop is in order and ends past the checkpoint,    *)
(* and what the pass has in memory is what comes next after the checkpoint *)
(* (src/src/wal/replay.rs), under every fault of the model.                *)
THEOREM ReplayInvariant == Spec => []Inv
<1>1. Inv /\ [Next]_vars => Inv'  BY InvStep
<1> QED BY <1>1, InitInv, PTL DEF Spec

(* Every variable of the replay loop keeps its type, whatever is appended, *)
(* toggled, lost or refused between the steps of a pass                    *)
(* (src/src/wal/replay.rs).                                                *)
THEOREM TypeCorrect == Spec => []TypeOK
<1>1. Inv => TypeOK  BY DEF Inv
<1> QED BY <1>1, ReplayInvariant, PTL

(* What a pass has collected and what it has pending remain the entries    *)
(* right after the stored checkpoint, on disk, while the writer appends    *)
(* and rotates, cleanup removes segments and sinks come and go             *)
(* (replay_once_inner).                                                    *)
THEOREM StaysInStep == Spec => []PassInStep
<1>1. Inv => PassInStep
  <2> SUFFICES ASSUME Inv, pc \in {"scan", "send", "quarantine"} PROVE PassInStep
    BY DEF PassInStep
  <2>1. PassBody  BY DEF Inv, PassInv, Working
  <2>2. pending # NoCheckpoint =>
          \A e \in EntriesAfter(files, cp) \ EntriesAfter(files, pending) : Handled(e.rec)
    <3> SUFFICES ASSUME pending # NoCheckpoint,
                        NEW e \in EntriesAfter(files, cp) \ EntriesAfter(files, pending)
                 PROVE  Handled(e.rec)
      OBVIOUS
    <3>1. ~After(pending, e)  BY EntriesAfterAre
    <3> QED BY <2>1, <3>1 DEF PassBody, PendingInv
  <2> QED BY <2>1, <2>2 DEF PassBody, NextUp, PassInStep
<1> QED BY <1>1, ReplayInvariant, PTL

(* Nothing a stored checkpoint covers is sent again, by any later pass of  *)
(* this process or the next (flush_pending_checkpoint, read_checkpoint).   *)
THEOREM CoveredStays == Spec => CoveredNotResent
<1>1. Inv /\ [Next]_vars =>
        [\A s \in Sinks : \A r \in Records :
           delivered'[s][r] # delivered[s][r] => lsnOf[r] > checkpoint.lsn]_vars
  <2> SUFFICES ASSUME Inv, [Next]_vars, NEW s \in Sinks, NEW r \in Records,
                      delivered'[s][r] # delivered[s][r]
               PROVE  lsnOf[r] > checkpoint.lsn
    OBVIOUS
  <2>1. pc \in Working  BY OutcomeStep DEF SendsBatch
  <2>2. PICK e \in batch : e.rec = r  BY OutcomeStep DEF SendsBatch
  <2>3. e \in EntriesAfter(files, cp) /\ Ahead(files, cp, checkpoint)
    BY <2>1, <2>2 DEF Inv, PassInv, PassBody, NextUp
  <2>4. e \in Entries(files) /\ e.lsn > checkpoint.lsn  BY <2>3, EntriesAfterAre DEF Ahead
  <2>5. lsnOf[r] = e.lsn  BY <2>2, <2>4 DEF Inv, LogInv
  <2> QED BY <2>4, <2>5
<1> QED BY <1>1, ReplayInvariant, PTL DEF Spec, CoveredNotResent

-----------------------------------------------------------------------------
(* Nothing is skipped while some enabled sink asks for the earliest event. *)

(* A record that is not handled lies after the checkpoint.                 *)
Safe ==
  \A r \in Records : Logged(r) /\ ~Handled(r) =>
    \E e \in EntriesAfter(files, checkpoint) : e.rec = r

LEMMA StoredStays ==
  ASSUME ~ResetToLatest, NEW fs, NEW p
  PROVE  /\ StoredPosition(fs, p) = p
         /\ StartPosition(fs, p) = p \/ StartPosition(fs, p) = NoCheckpoint
BY DEF StoredPosition, StartPosition

LEMMA SafeStays ==
  ASSUME Inv, Safe, Grows, UNCHANGED <<plan, lsnOf>>,
         \A e \in EntriesAfter(files, checkpoint) :
           e \in EntriesAfter(files', checkpoint') \/ Handled(e.rec)
  PROVE  Safe'
<1> SUFFICES ASSUME NEW r \in Records, Logged(r)', ~Handled(r)'
             PROVE  \E e \in EntriesAfter(files', checkpoint') : e.rec = r
  BY DEF Safe
<1>1. Logged(r)  BY DEF Logged
<1>2. ~Handled(r)  BY HandledStays
<1>3. PICK e \in EntriesAfter(files, checkpoint) : e.rec = r  BY <1>1, <1>2 DEF Safe
<1>4. e \in EntriesAfter(files', checkpoint')  BY <1>2, <1>3
<1> QED BY <1>3, <1>4

LEMMA SafeAppend ==
  ASSUME Inv, Safe, NEW r \in Records, NEW p \in Plans, AppendRecord(r, p) PROVE Safe'
<1>1. PICK n : IsNewest(n, r)  BY AppendFacts DEF Inv
<1>2. /\ n.rec = r /\ lsnOf' = [lsnOf EXCEPT ![r] = n.lsn]
      /\ Entries(files') = Entries(files) \cup {n}
      /\ \A q \in Position : InLog(files, q) => After(q, n)
      /\ plan' = [plan EXCEPT ![r] = p]
      /\ UNCHANGED <<checkpoint, delivered, quarantined>>
  BY <1>1 DEF IsNewest, Extends, AppendRecord, outcome
<1>3. /\ checkpoint \in Position /\ InLog(files, checkpoint)
      /\ plan \in [Records -> Plans \cup {{}}] /\ lsnOf \in [Records -> Nat]
  BY DEF Inv, TypeOK, CheckpointInv, Sound
<1>4. ASSUME NEW a \in Records, Logged(a)', ~Handled(a)'
      PROVE  \E e \in EntriesAfter(files', checkpoint') : e.rec = a
  <2>1. CASE a = r
    <3>1. n \in EntriesAfter(files', checkpoint')  BY <1>2, <1>3, EntriesAfterAre
    <3> QED BY <1>2, <2>1, <3>1
  <2>2. CASE a # r
    <3>1. lsnOf'[a] = lsnOf[a] /\ plan'[a] = plan[a]  BY <1>2, <1>3, <2>2
    <3>2. Logged(a) /\ ~Handled(a)  BY <1>2, <1>4, <3>1 DEF Logged, Handled
    <3>3. PICK e \in EntriesAfter(files, checkpoint) : e.rec = a  BY <3>2 DEF Safe
    <3>4. e \in EntriesAfter(files', checkpoint')  BY <1>2, EntriesAfterAre
    <3> QED BY <3>3, <3>4
  <2> QED BY <2>1, <2>2
<1> QED BY <1>4 DEF Safe

LEMMA SafeStep ==
  ASSUME Inv, Safe, ~ResetToLatest, [Next]_vars PROVE Safe'
<1>1. Grows  BY OutcomeStep
<1>2. ASSUME UNCHANGED <<files, plan, lsnOf, checkpoint>> PROVE Safe'
  BY <1>1, <1>2, SafeStays
<1>3. CASE Restart
  <2>1. Entries(files') = Entries(files) /\ UNCHANGED <<plan, lsnOf>>
    BY <1>3, RestartFacts DEF Inv, Restart
  <2>2. checkpoint' = checkpoint  BY <1>3, StoredStays DEF Restart
  <2>3. \A e \in EntriesAfter(files, checkpoint) : e \in EntriesAfter(files', checkpoint')
    BY <2>1, <2>2, EntriesAfterAre
  <2> QED BY <1>1, <2>1, <2>3, SafeStays
<1>4. CASE OpenPass
  <2>1. checkpoint' = checkpoint /\ UNCHANGED <<files, plan, lsnOf>>
    BY <1>4, StoredStays DEF OpenPass, log
  <2> QED BY <1>2, <2>1
<1>5. CASE Cleanup
  <2>1. EntriesAfter(files', checkpoint) = EntriesAfter(files, checkpoint)
        /\ UNCHANGED <<plan, lsnOf, checkpoint>>
    BY <1>5, CleanupFacts DEF Cleanup
  <2> QED BY <1>1, <2>1, SafeStays
<1>6. CASE StoreCheckpoint \/ StoreFails
  <2>1. UNCHANGED <<files, plan, lsnOf>> /\ pc \in Working
        /\ (checkpoint' = checkpoint \/ (pending # NoCheckpoint /\ checkpoint' = pending))
    BY <1>6 DEF StoreCheckpoint, StoreFails, log, Working
  <2>2. CASE pending # NoCheckpoint /\ checkpoint' = pending
    <3>1. PassBody  BY <2>1 DEF Inv, PassInv
    <3>2. EntriesAfter(files, checkpoint) \subseteq EntriesAfter(files, cp)
      BY <3>1, AllAfterNone, EntriesAfterAre DEF PassBody, Inv, TypeOK
    <3>3. ASSUME NEW e \in EntriesAfter(files, checkpoint)
          PROVE  e \in EntriesAfter(files', checkpoint') \/ Handled(e.rec)
      BY <2>1, <2>2, <3>1, <3>2, EntriesAfterAre DEF PassBody, PendingInv
    <3> QED BY <1>1, <2>1, <3>3, SafeStays
  <2> QED BY <1>2, <2>1, <2>2
<1>7. CASE \E s \in Sinks : ToggleSink(s) \/ BatchTimeout(s)
  BY <1>2, <1>7 DEF ToggleSink, BatchTimeout, log
<1>8. CASE Crash \/ UNCHANGED vars  BY <1>2, <1>8 DEF Crash, vars, log
<1>9. CASE \/ ReadLog \/ TakeDeliverable \/ TakeOther \/ Quarantine \/ Defer \/ SendLast
           \/ SendSink \/ SendFails \/ WindowSent \/ Finish \/ PassFails
  BY <1>2, <1>9 DEF ReadLog, TakeDeliverable, TakeOther, Quarantine, Defer, SendLast, SendSink,
     SendFails, WindowSent, Finish, PassFails, log
<1> QED BY <1>3, <1>4, <1>5, <1>6, <1>7, <1>8, <1>9, SafeAppend DEF Next, Pass

(* "Advance the pipeline checkpoint only after every emitted sink batch    *)
(* reaches its sink-defined commit point": as long as some enabled sink    *)
(* has auto_offset_reset = earliest, a record that is neither delivered    *)
(* nor quarantined is on disk where the next pass starts or later, through *)
(* failed sinks and checkpoint writes, gaps, crashes and restarts.         *)
THEOREM NothingIsSkipped == Spec /\ []~ResetToLatest => []NothingSkipped
<1>1. Init => Safe  BY DEF Init, Safe, Logged
<1>2. Inv /\ Safe /\ ~ResetToLatest /\ [Next]_vars => Safe'  BY SafeStep
<1>3. Inv /\ Safe /\ ~ResetToLatest => NothingSkipped
  <2> SUFFICES ASSUME Inv, Safe, ~ResetToLatest, NEW r \in Records, Logged(r), ~Handled(r)
               PROVE  \E e \in EntriesAfter(files, StartPosition(files, checkpoint)) : e.rec = r
    BY DEF NothingSkipped
  <2>1. PICK e \in EntriesAfter(files, checkpoint) : e.rec = r  BY DEF Safe
  <2>2. e \in EntriesAfter(files, StartPosition(files, checkpoint))
    BY <2>1, StoredStays, AllAfterNone, EntriesAfterAre DEF Inv, TypeOK
  <2> QED BY <2>1, <2>2
<1> QED BY <1>1, <1>2, <1>3, ReplayInvariant, PTL DEF Spec

-----------------------------------------------------------------------------
(* Sinks see records in order.                                             *)

(* A record with an LSN is covered or in the log, and only such are sent.  *)
Known ==
  /\ \A r \in Records : Logged(r) =>
       lsnOf[r] <= checkpoint.lsn \/ \E e \in Entries(files) : e.rec = r
  /\ \A s \in Sinks, r \in Records : delivered[s][r] > 0 => Logged(r)

OrderInv == Inv /\ Safe /\ Known /\ SinkOrder

LEMMA LogTypes ==
  ASSUME Inv
  PROVE  /\ \A r \in Records : lsnOf[r] \in Nat
         /\ \A s \in Sinks, r \in Records : delivered[s][r] \in 0..2
         /\ checkpoint.lsn \in Nat /\ checkpoint.lsn < nextLsn /\ nextLsn \in Nat
BY DEF Inv, TypeOK, CheckpointInv, Sound, Position

(* The next LSN is a new one.                                              *)
LEMMA NextIsNew ==
  ASSUME Inv, Known, NEW r \in Records, Logged(r) PROVE lsnOf[r] < nextLsn
<1>1. CASE lsnOf[r] <= checkpoint.lsn  BY <1>1, LogTypes
<1>2. CASE \E e \in Entries(files) : e.rec = r  BY <1>2 DEF Inv, LogInv
<1> QED BY <1>1, <1>2 DEF Known

(* The checkpoint moves on only, and removes only what it covers.          *)
LEMMA CheckpointGrows ==
  ASSUME Inv, ~ResetToLatest, [Next]_vars, UNCHANGED lsnOf
  PROVE  /\ checkpoint.lsn <= checkpoint'.lsn /\ checkpoint'.lsn \in Nat
         /\ \A e \in Entries(files) : e \in Entries(files') \/ e.lsn <= checkpoint'.lsn
<1>1. checkpoint.lsn \in Nat  BY LogTypes
<1>2. CASE UNCHANGED <<files, checkpoint>>  BY <1>1, <1>2
<1>3. CASE Restart
  <2>1. Entries(files') = Entries(files) /\ checkpoint' = checkpoint
    BY <1>3, RestartFacts, StoredStays DEF Restart, Inv
  <2> QED BY <1>1, <2>1
<1>4. CASE OpenPass
  <2>1. checkpoint' = checkpoint /\ UNCHANGED files  BY <1>4, StoredStays DEF OpenPass, log
  <2> QED BY <1>2, <2>1
<1>5. CASE Cleanup
  <2>1. /\ files' = RemoveCovered(files, cp) /\ checkpoint' = checkpoint
        /\ cp = NoCheckpoint \/ cp = checkpoint
    BY <1>5 DEF Cleanup, Inv, PassInv, PassBody, Working
  <2>2. ASSUME NEW e \in Entries(files), e \notin Entries(files') PROVE e.lsn <= checkpoint.lsn
    <3>1. IsDirectory(files) /\ e.segment \in Nat  BY EntryFacts DEF Inv, TypeOK
    <3>2. e.segment < cp.segment /\ e.lsn <= cp.lsn  BY <2>1, <2>2, <3>1, RemoveEntries
    <3> QED BY <2>1, <3>1, <3>2 DEF NoCheckpoint
  <2> QED BY <1>1, <2>1, <2>2
<1>6. CASE StoreCheckpoint \/ StoreFails
  <2>1. UNCHANGED files /\ pc \in Working
        /\ (checkpoint' = checkpoint \/ (pending # NoCheckpoint /\ checkpoint' = pending))
    BY <1>6 DEF StoreCheckpoint, StoreFails, log, Working
  <2>2. CASE pending # NoCheckpoint /\ checkpoint' = pending
    <3>1. PICK p \in EntriesAfter(files, cp) : pending = NextPosition(p)
      BY <2>1, <2>2 DEF Inv, PassInv, PassBody, PendingInv
    <3>2. p.lsn > checkpoint.lsn  BY <2>1 DEF Inv, PassInv, PassBody, Ahead
    <3>3. p \in Entries(files) /\ p.lsn \in Nat  BY EntriesAfterAre, EntryFacts DEF Inv, TypeOK
    <3>4. pending.lsn = p.lsn  BY <3>1 DEF NextPosition
    <3> QED BY <1>1, <2>1, <2>2, <3>2, <3>3, <3>4
  <2> QED BY <1>2, <2>1, <2>2
<1>7. ASSUME NEW r \in Records, NEW p \in Plans, AppendRecord(r, p) PROVE FALSE
  <2>1. PICK n : IsNewest(n, r)  BY <1>7, AppendFacts DEF Inv
  <2>2. lsnOf[r] = 0 /\ lsnOf' = [lsnOf EXCEPT ![r] = n.lsn] /\ n.lsn >= nextLsn /\ n.lsn \in Nat
    BY <1>7, <2>1 DEF IsNewest, AppendRecord
  <2>3. lsnOf'[r] = n.lsn /\ n.lsn > 0
    BY <2>2 DEF Inv, TypeOK, LogInv
  <2> QED BY <2>2, <2>3
<1>8. CASE \E s \in Sinks : ToggleSink(s) \/ BatchTimeout(s)
  BY <1>2, <1>8 DEF ToggleSink, BatchTimeout, log
<1>9. CASE Crash \/ UNCHANGED vars  BY <1>2, <1>9 DEF Crash, vars, log
<1>10. CASE \/ ReadLog \/ TakeDeliverable \/ TakeOther \/ Quarantine \/ Defer \/ SendLast
            \/ SendSink \/ SendFails \/ WindowSent \/ Finish \/ PassFails
  BY <1>2, <1>10 DEF ReadLog, TakeDeliverable, TakeOther, Quarantine, Defer, SendLast, SendSink,
     SendFails, WindowSent, Finish, PassFails, log
<1> QED BY <1>3, <1>4, <1>5, <1>6, <1>7, <1>8, <1>9, <1>10 DEF Next, Pass

(* A sink commits nothing of a window before what precedes it there.       *)
SendsInOrder ==
  \A s \in Sinks, r \in Records :
    delivered'[s][r] # delivered[s][r] =>
      /\ pc \in Working
      /\ \E e \in Load(s, batch) :
           /\ e.rec = r
           /\ \A f \in Load(s, batch) : Before(f, e) => delivered'[s][f.rec] > 0

LEMMA CommitInOrder ==
  ASSUME Inv, pc = "send", sending # {}, NEW S, S \subseteq Load(NextSink, batch),
         \A e \in S, f \in Load(NextSink, batch) : Before(f, e) => f \in S,
         Commit(NextSink, S)
  PROVE  SendsInOrder
<1>1. NextSink \in Sinks /\ TypeOK  BY NextSinkIs DEF Inv
<1>2. /\ \A e \in S : e.rec \in Records => delivered'[NextSink][e.rec] > 0
      /\ \A t \in Sinks, r \in Records :
           delivered'[t][r] # delivered[t][r] => t = NextSink /\ \E e \in S : e.rec = r
  BY <1>1, CommitFacts
<1>3. \A e \in S : e.rec \in Records  BY <1>1 DEF Load, Fresh, TypeOK, EntrySet
<1>4. ASSUME NEW s \in Sinks, NEW r \in Records, delivered'[s][r] # delivered[s][r]
      PROVE  \E e \in Load(s, batch) :
               /\ e.rec = r
               /\ \A f \in Load(s, batch) : Before(f, e) => delivered'[s][f.rec] > 0
  <2>1. s = NextSink /\ \E e \in S : e.rec = r  BY <1>2, <1>4
  <2>2. PICK e \in S : e.rec = r  BY <2>1
  <2>3. \A f \in Load(s, batch) : Before(f, e) => delivered'[s][f.rec] > 0
    BY <1>2, <1>3, <2>1, <2>2
  <2> QED BY <2>1, <2>2, <2>3
<1> QED BY <1>4 DEF SendsInOrder, Working

LEMMA SendOrder == ASSUME Inv, [Next]_vars PROVE SendsInOrder
<1>1. CASE UNCHANGED delivered  BY <1>1 DEF SendsInOrder
<1>2. CASE SendSink  BY <1>2, CommitInOrder DEF SendSink
<1>3. CASE SendFails
  <2>1. pc = "send" /\ sending # {}  BY <1>3 DEF SendFails
  <2>2. Load(NextSink, batch) \subseteq Entries(files)
    BY <2>1, HeldIsInLog DEF Load, Fresh, Working
  <2>3. CASE Commit(NextSink, Load(NextSink, batch))  BY <2>1, <2>3, CommitInOrder
  <2>4. ASSUME NEW e \in Load(NextSink, batch),
               Commit(NextSink, {f \in Load(NextSink, batch) : Before(f, e)})
        PROVE  SendsInOrder
    <3> DEFINE S == {f \in Load(NextSink, batch) : Before(f, e)}
    <3>1. S \subseteq Load(NextSink, batch)  OBVIOUS
    <3>2. \A x \in S, f \in Load(NextSink, batch) : Before(f, x) => f \in S
      BY <2>2, BeforeTransitive DEF Inv
    <3>3. Commit(NextSink, S)  BY <2>4
    <3> HIDE DEF S
    <3> QED BY <2>1, <3>1, <3>2, <3>3, CommitInOrder
  <2>5. UNCHANGED delivered \/ \E e \in Load(NextSink, batch) :
          \/ Commit(NextSink, {f \in Load(NextSink, batch) : Before(f, e)})
          \/ Commit(NextSink, Load(NextSink, batch))
    BY <1>3 DEF SendFails
  <2> QED BY <1>1, <2>3, <2>4, <2>5
<1>4. ASSUME NEW r \in Records, NEW p \in Plans, AppendRecord(r, p) PROVE UNCHANGED delivered
  BY <1>4 DEF AppendRecord, outcome
<1>5. CASE \E s \in Sinks : ToggleSink(s) \/ BatchTimeout(s)
  BY <1>1, <1>5 DEF ToggleSink, BatchTimeout, outcome
<1>6. CASE Crash \/ Restart \/ UNCHANGED vars
  BY <1>1, <1>6 DEF Crash, Restart, vars, outcome
<1>7. CASE \/ OpenPass \/ ReadLog \/ TakeDeliverable \/ TakeOther \/ Quarantine \/ Defer \/ SendLast
           \/ WindowSent \/ Finish \/ StoreCheckpoint \/ Cleanup \/ StoreFails \/ PassFails
  BY <1>1, <1>7 DEF OpenPass, ReadLog, TakeDeliverable, TakeOther, Quarantine, Defer, SendLast,
     WindowSent, Finish, StoreCheckpoint, Cleanup, StoreFails, PassFails, outcome
<1> QED BY <1>1, <1>2, <1>3, <1>4, <1>5, <1>6, <1>7 DEF Next, Pass

LEMMA OnlyAppendPlans ==
  ASSUME [Next]_vars, ~\E r \in Records, p \in Plans : AppendRecord(r, p)
  PROVE  UNCHANGED <<plan, lsnOf>>
<1>1. CASE \E s \in Sinks : ToggleSink(s) \/ BatchTimeout(s)
  BY <1>1 DEF ToggleSink, BatchTimeout, log
<1>2. CASE Crash \/ Restart \/ UNCHANGED vars  BY <1>2 DEF Crash, Restart, vars, log
<1>3. CASE Pass
  BY <1>3 DEF Pass, OpenPass, ReadLog, TakeDeliverable, TakeOther, Quarantine, Defer, SendLast,
     SendSink, SendFails, WindowSent, Finish, StoreCheckpoint, Cleanup, StoreFails, PassFails, log
<1> QED BY <1>1, <1>2, <1>3 DEF Next

LEMMA OrderAppend ==
  ASSUME OrderInv, NEW r \in Records, NEW p \in Plans, AppendRecord(r, p)
  PROVE  Known' /\ SinkOrder'
<1>1. PICK n : IsNewest(n, r)  BY AppendFacts DEF OrderInv, Inv
<1>2. /\ n.rec = r /\ lsnOf' = [lsnOf EXCEPT ![r] = n.lsn] /\ lsnOf[r] = 0
      /\ n.lsn \in Nat /\ n.lsn >= nextLsn
      /\ Entries(files') = Entries(files) \cup {n}
      /\ plan' = [plan EXCEPT ![r] = p]
      /\ UNCHANGED <<checkpoint, delivered, quarantined>>
      /\ lsnOf \in [Records -> Nat] /\ plan \in [Records -> Plans \cup {{}}]
      /\ nextLsn \in Nat
  BY <1>1 DEF IsNewest, Extends, AppendRecord, outcome, OrderInv, Inv, TypeOK
<1>3. \A a \in Records : a # r => lsnOf'[a] = lsnOf[a] /\ plan'[a] = plan[a]  BY <1>2
<1>4. lsnOf'[r] = n.lsn  BY <1>2
<1>5. \A s \in Sinks, b \in Records : delivered[s][b] > 0 => Logged(b) /\ b # r
  BY <1>2 DEF OrderInv, Known, Logged
<1>6. Known'
  <2>1. ASSUME NEW a \in Records, Logged(a)'
        PROVE  lsnOf'[a] <= checkpoint'.lsn \/ \E e \in Entries(files') : e.rec = a
    <3>1. CASE a = r  BY <1>2, <3>1
    <3>2. CASE a # r  BY <1>2, <1>3, <2>1, <3>2 DEF OrderInv, Known, Logged
    <3> QED BY <3>1, <3>2
  <2>2. \A s \in Sinks, b \in Records : delivered'[s][b] > 0 => Logged(b)'
    BY <1>2, <1>3, <1>5 DEF Logged
  <2> QED BY <2>1, <2>2 DEF Known
<1>7. SinkOrder'
  <2> SUFFICES ASSUME NEW s \in Sinks, NEW a \in Records, NEW b \in Records,
                      Logged(a)', lsnOf'[a] < lsnOf'[b], s \in plan'[a], delivered'[s][b] > 0
               PROVE  delivered'[s][a] > 0 \/ a \in quarantined'
    BY DEF SinkOrder
  <2>1. Logged(b) /\ b # r /\ lsnOf'[b] = lsnOf[b]  BY <1>2, <1>3, <1>5
  <2>2. lsnOf[b] < nextLsn /\ lsnOf[b] \in Nat  BY <2>1, NextIsNew, LogTypes DEF OrderInv
  <2>3. a # r  BY <1>2, <1>4, <2>1, <2>2
  <2> QED BY <1>2, <1>3, <2>1, <2>3 DEF OrderInv, SinkOrder, Logged
<1> QED BY <1>6, <1>7

LEMMA OrderStep ==
  ASSUME OrderInv, ~ResetToLatest, [Next]_vars PROVE Known' /\ SinkOrder'
<1>1. CASE \E r \in Records, p \in Plans : AppendRecord(r, p)  BY <1>1, OrderAppend
<1>2. CASE ~\E r \in Records, p \in Plans : AppendRecord(r, p)
  <2>1. UNCHANGED <<plan, lsnOf>>  BY <1>2, OnlyAppendPlans
  <2>2. Inv /\ Grows /\ SendsBatch /\ SendsInOrder  BY OutcomeStep, SendOrder DEF OrderInv
  <2>3. /\ checkpoint.lsn <= checkpoint'.lsn /\ checkpoint'.lsn \in Nat
        /\ \A e \in Entries(files) : e \in Entries(files') \/ e.lsn <= checkpoint'.lsn
    BY <2>1, CheckpointGrows DEF OrderInv
  <2>4. /\ \A r \in Records : lsnOf[r] \in Nat
        /\ \A s \in Sinks, r \in Records : delivered[s][r] \in 0..2
        /\ checkpoint.lsn \in Nat
    BY <2>2, LogTypes
  <2>5. \A e \in Entries(files) : lsnOf[e.rec] = e.lsn /\ e.lsn > 0  BY <2>2 DEF Inv, LogInv
  <2>6. ASSUME NEW r \in Records, Logged(r)'
        PROVE  lsnOf'[r] <= checkpoint'.lsn \/ \E e \in Entries(files') : e.rec = r
    <3>1. lsnOf[r] <= checkpoint.lsn \/ \E e \in Entries(files) : e.rec = r
      BY <2>1, <2>6 DEF OrderInv, Known, Logged
    <3>2. CASE lsnOf[r] <= checkpoint.lsn  BY <2>1, <2>3, <2>4, <3>2
    <3>3. CASE \E e \in Entries(files) : e.rec = r  BY <2>1, <2>3, <2>5, <3>3
    <3> QED BY <3>1, <3>2, <3>3
  <2>7. ASSUME NEW s \in Sinks, NEW r \in Records, delivered'[s][r] > 0 PROVE Logged(r)'
    <3>1. CASE delivered'[s][r] = delivered[s][r]
      BY <2>1, <2>7, <3>1 DEF OrderInv, Known, Logged
    <3>2. CASE delivered'[s][r] # delivered[s][r]
      <4>1. pc \in Working /\ \E e \in batch : e.rec = r  BY <2>2, <3>2 DEF SendsBatch
      <4>2. batch \subseteq Entries(files)  BY <2>2, <4>1, HeldIsInLog
      <4> QED BY <2>1, <2>5, <4>1, <4>2 DEF Logged
    <3> QED BY <3>1, <3>2
  <2>8. Known'  BY <2>6, <2>7 DEF Known
  <2>9. ASSUME NEW s \in Sinks, NEW a \in Records, NEW b \in Records,
               Logged(a), lsnOf[a] < lsnOf[b], s \in plan[a], delivered'[s][b] > 0
        PROVE  delivered'[s][a] > 0 \/ a \in quarantined'
    <3>1. CASE delivered[s][a] > 0 \/ a \in quarantined  BY <2>2, <3>1 DEF Grows
    <3>2. CASE Handled(a)  BY <2>9, <3>1, <3>2 DEF Handled
    <3>3. CASE delivered'[s][b] = delivered[s][b]
      BY <2>9, <3>1, <3>3 DEF OrderInv, SinkOrder
    <3>4. CASE ~Handled(a) /\ delivered'[s][b] # delivered[s][b]
      <4>1. pc \in Working  BY <2>2, <3>4 DEF SendsInOrder
      <4>2. PICK e \in Load(s, batch) :
              e.rec = b /\ \A f \in Load(s, batch) : Before(f, e) => delivered'[s][f.rec] > 0
        BY <2>2, <3>4 DEF SendsInOrder
      <4>3. PassBody /\ batch \cup unread \subseteq Entries(files) /\ Fresh(batch) = batch
        BY <2>2, <4>1, HeldIsInLog, AllFresh DEF Inv, PassInv
      <4>4. e \in batch  BY <4>2 DEF Load, Fresh
      <4>5. PICK x \in EntriesAfter(files, checkpoint) : x.rec = a
        BY <2>9, <3>4 DEF OrderInv, Safe
      <4>6. x \in EntriesAfter(files, cp) /\ x \in Entries(files)
        BY <2>2, <4>3, AllAfterNone, EntriesAfterAre DEF PassBody, Inv, TypeOK
      <4>7. Before(x, e)  BY <2>2, <2>5, <2>9, <4>2, <4>3, <4>4, <4>5, <4>6, LogOrder DEF Inv
      <4>8. ~Before(e, x)  BY <2>2, <4>3, <4>4, <4>6, <4>7, LogOrder DEF Inv
      <4>9. x \in batch
        <5>1. x \in batch \cup unread  BY <3>4, <4>3, <4>4, <4>5, <4>6, <4>7 DEF PassBody, NextUp
        <5> QED BY <4>3, <4>4, <4>8, <5>1 DEF PassBody, NextUp
      <4>10. x \in Load(s, batch)  BY <2>9, <4>3, <4>5, <4>9 DEF Load
      <4> QED BY <4>2, <4>5, <4>7, <4>10
    <3> QED BY <3>2, <3>3, <3>4
  <2>10. SinkOrder'  BY <2>1, <2>9 DEF SinkOrder, Logged
  <2> QED BY <2>8, <2>10
<1> QED BY <1>1, <1>2

(* Every sink sees the records of the log in the order of the log: one is  *)
(* committed only once every earlier one meant for that sink is committed  *)
(* or quarantined (replay_batch_to_sinks), as long as some enabled sink    *)
(* has auto_offset_reset = earliest.                                       *)
THEOREM SinksInOrder == Spec /\ []~ResetToLatest => []SinkOrder
<1>1. Init => OrderInv
  <2> SUFFICES ASSUME Init PROVE OrderInv  OBVIOUS
  <2>1. \A r \in Records : ~Logged(r)  BY DEF Init, Logged
  <2>2. \A s \in Sinks, r \in Records : ~(delivered[s][r] > 0)  BY DEF Init
  <2> QED BY <2>1, <2>2, InitInv DEF OrderInv, Safe, Known, SinkOrder
<1>2. OrderInv /\ ~ResetToLatest /\ [Next]_vars => OrderInv'
  BY OrderStep, InvStep, SafeStep DEF OrderInv
<1>3. OrderInv => SinkOrder  BY DEF OrderInv
<1> QED BY <1>1, <1>2, <1>3, PTL DEF Spec

-----------------------------------------------------------------------------
(* What lies beyond a hole in the LSNs is not touched.                     *)

(* No LSN is missing between the records and k.                            *)
Whole(L, k) ==
  \A a \in Records : L[a] > 0 => \A n \in L[a]..k : \E b \in Records : L[b] = n

Touched(r) == r \in quarantined \/ \E s \in Sinks : delivered[s][r] > 0

(* No hole lies below what has been handled or is covered.                 *)
Reached ==
  /\ \A r \in quarantined : Logged(r)
  /\ \A r \in Records : Touched(r) => Whole(lsnOf, lsnOf[r])
  /\ Whole(lsnOf, checkpoint.lsn)

(* A stored checkpoint stands at an entry that is still there.             *)
Anchored == checkpoint = NoCheckpoint \/ \E e \in Entries(files) : checkpoint = NextPosition(e)

(* Nor below what a pass holds.                                            *)
HeldWhole ==
  /\ cp = checkpoint
  /\ pending # NoCheckpoint => Whole(lsnOf, pending.lsn)
  /\ \A e \in batch : Whole(lsnOf, e.lsn)

(* A pass that expects no LSN yet has the first entries of the log.        *)
FromStart ==
  /\ cp = NoCheckpoint /\ batch = {} /\ pending = NoCheckpoint
  /\ \A e \in EntriesAfter(files, cp), f \in unread : Before(e, f) => e \in unread

(* An entry to quarantine has been found to come next.                     *)
ToQuarantine ==
  pc = "quarantine" \/ (pc \in {"send", "store", "cleanup"} /\ after = "quarantine")

(* Nor below the LSN a pass expects.                                       *)
ExpectInv ==
  /\ expected <= nextLsn
  /\ expected = 0 => FromStart
  /\ expected # 0 => Whole(lsnOf, expected - 1)
  /\ ToQuarantine => InSequence(First(unread))

GapInv ==
  /\ Reached /\ Anchored
  /\ pc \in Working => HeldWhole
  /\ pc \in Working \ {"read"} => ExpectInv

LEMMA WholeAppend ==
  ASSUME NEW L \in [Records -> Nat], NEW r \in Records, L[r] = 0,
         NEW n \in Nat, NEW k \in Nat, k < n, Whole(L, k)
  PROVE  Whole([L EXCEPT ![r] = n], k)
<1> DEFINE M == [L EXCEPT ![r] = n]
<1>1. M[r] = n /\ \A a \in Records : a # r => M[a] = L[a]  OBVIOUS
<1> HIDE DEF M
<1>2. ASSUME NEW a \in Records, M[a] > 0, NEW m \in M[a]..k PROVE \E b \in Records : M[b] = m
  <2>1. a # r
    <3> SUFFICES ASSUME a = r PROVE FALSE  OBVIOUS
    <3>1. m \in n..k  BY <1>1, <1>2
    <3> QED BY <3>1
  <2>2. M[a] = L[a] /\ L[a] > 0 /\ L[a] \in Nat  BY <1>1, <1>2, <2>1
  <2>3. PICK b \in Records : L[b] = m  BY <1>2, <2>2 DEF Whole
  <2>4. m > 0  BY <1>2, <2>2
  <2>5. b # r  BY <2>3, <2>4
  <2> QED BY <1>1, <2>3, <2>5
<1> QED BY <1>2 DEF Whole, M

(* A stored checkpoint stays at its entry.                                 *)
LEMMA AnchorStep ==
  ASSUME Inv, GapInv, ~ResetToLatest, [Next]_vars PROVE Anchored'
<1>1. CASE UNCHANGED <<files, checkpoint>>  BY <1>1 DEF GapInv, Anchored
<1>2. ASSUME checkpoint' = checkpoint, Entries(files) \subseteq Entries(files') PROVE Anchored'
  BY <1>2 DEF GapInv, Anchored
<1>3. CASE Restart
  <2>1. Entries(files') = Entries(files) /\ checkpoint' = checkpoint
    BY <1>3, RestartFacts, StoredStays DEF Restart, Inv
  <2> QED BY <1>2, <2>1
<1>4. CASE OpenPass
  <2>1. checkpoint' = checkpoint /\ UNCHANGED files  BY <1>4, StoredStays DEF OpenPass, log
  <2> QED BY <1>1, <2>1
<1>5. CASE Cleanup
  <2>1. /\ files' = RemoveCovered(files, cp) /\ checkpoint' = checkpoint /\ cp = checkpoint
    BY <1>5 DEF Cleanup, GapInv, HeldWhole, Working
  <2>2. IsDirectory(files) /\ checkpoint \in Position  BY DEF Inv, TypeOK
  <2>3. ASSUME NEW e \in Entries(files), checkpoint = NextPosition(e) PROVE e \in Entries(files')
    <3>1. e.segment = cp.segment /\ e.segment \in Nat
      BY <2>1, <2>2, <2>3, EntryFacts DEF NextPosition
    <3>2. ~(e.segment < cp.segment)  BY <3>1
    <3> QED BY <2>1, <2>2, <2>3, <3>2, RemoveEntries
  <2> QED BY <2>1, <2>3 DEF GapInv, Anchored
<1>6. CASE StoreCheckpoint \/ StoreFails
  <2>1. UNCHANGED files /\ pc \in Working
        /\ (checkpoint' = checkpoint \/ (pending # NoCheckpoint /\ checkpoint' = pending))
    BY <1>6 DEF StoreCheckpoint, StoreFails, log, Working
  <2>2. CASE pending # NoCheckpoint /\ checkpoint' = pending
    <3>1. PICK p \in EntriesAfter(files, cp) : pending = NextPosition(p)
      BY <2>1, <2>2 DEF Inv, PassInv, PassBody, PendingInv
    <3>2. p \in Entries(files)  BY <3>1, EntriesAfterAre
    <3> QED BY <2>1, <2>2, <3>1, <3>2 DEF Anchored
  <2> QED BY <1>1, <2>1, <2>2
<1>7. ASSUME NEW r \in Records, NEW p \in Plans, AppendRecord(r, p) PROVE Anchored'
  <2>1. PICK n : IsNewest(n, r)  BY <1>7, AppendFacts DEF Inv
  <2>2. Entries(files') = Entries(files) \cup {n}  BY <2>1 DEF IsNewest, Extends
  <2>3. checkpoint' = checkpoint  BY <1>7 DEF AppendRecord
  <2> QED BY <1>2, <2>2, <2>3
<1>8. CASE \E s \in Sinks : ToggleSink(s) \/ BatchTimeout(s)
  BY <1>1, <1>8 DEF ToggleSink, BatchTimeout, log
<1>9. CASE Crash \/ UNCHANGED vars  BY <1>1, <1>9 DEF Crash, vars, log
<1>10. CASE \/ ReadLog \/ TakeDeliverable \/ TakeOther \/ Quarantine \/ Defer \/ SendLast
            \/ SendSink \/ SendFails \/ WindowSent \/ Finish \/ PassFails
  BY <1>1, <1>10 DEF ReadLog, TakeDeliverable, TakeOther, Quarantine, Defer, SendLast, SendSink,
     SendFails, WindowSent, Finish, PassFails, log
<1> QED BY <1>3, <1>4, <1>5, <1>6, <1>7, <1>8, <1>9, <1>10 DEF Next, Pass

(* With a checkpoint at an entry that is there, a pass starts where the    *)
(* checkpoint stands.                                                      *)
LEMMA StartsThere ==
  ASSUME Inv, Anchored, ~ResetToLatest
  PROVE  /\ StartPosition(files, checkpoint) = checkpoint
         /\ StoredPosition(files, checkpoint) = checkpoint
<1>1. CASE checkpoint = NoCheckpoint  BY <1>1, StoredStays
<1>2. ASSUME NEW e \in Entries(files), checkpoint = NextPosition(e) PROVE ~BeforeFloor(files, checkpoint)
  <2>1. e.segment = checkpoint.segment /\ e.segment \in Nat
    BY <1>2, EntryFacts DEF NextPosition, Inv, TypeOK
  <2>2. ~(checkpoint.segment < e.segment)  BY <2>1
  <2> QED BY <2>2 DEF BeforeFloor
<1>3. CASE ~BeforeFloor(files, checkpoint)
  BY <1>1, <1>3, StoredStays DEF StartPosition, NeedsReset
<1> QED BY <1>1, <1>2, <1>3 DEF Anchored

(* What comes next in the log has no hole before it.                       *)
LEMMA NextIsWhole ==
  ASSUME Inv, Known, GapInv, pc \in {"scan", "quarantine"}, unread # {},
         InSequence(First(unread))
  PROVE  /\ Whole(lsnOf, First(unread).lsn) /\ First(unread).lsn \in Nat
         /\ First(unread).lsn < nextLsn /\ First(unread).lsn > 0
         /\ First(unread).rec \in Records /\ lsnOf[First(unread).rec] = First(unread).lsn
<1>0. PICK e : e = First(unread)  OBVIOUS
<1>1. /\ e \in unread /\ e \in Entries(files)
      /\ \A f \in unread : e = f \/ Before(e, f)
  BY <1>0, FirstUnread DEF Working
<1>2. e.lsn \in Nat /\ e.lsn > 0 /\ e.lsn < nextLsn /\ lsnOf[e.rec] = e.lsn /\ e.rec \in Records
  BY <1>1, EntryFacts DEF Inv, TypeOK, LogInv
<1>3. lsnOf \in [Records -> Nat] /\ expected \in Nat /\ IsDirectory(files)  BY DEF Inv, TypeOK
<1>4. ExpectInv  BY DEF GapInv, Working
<1>5. CASE expected = e.lsn
  <2>1. Whole(lsnOf, e.lsn - 1)  BY <1>2, <1>4, <1>5 DEF ExpectInv
  <2>2. ASSUME NEW a \in Records, lsnOf[a] > 0, NEW n \in lsnOf[a]..e.lsn
        PROVE  \E b \in Records : lsnOf[b] = n
    <3>1. CASE n = e.lsn  BY <1>2, <3>1
    <3>2. CASE n # e.lsn
      <4>1. n \in lsnOf[a]..(e.lsn - 1)  BY <1>2, <1>3, <2>2, <3>2
      <4> QED BY <2>1, <2>2, <4>1 DEF Whole
    <3> QED BY <3>1, <3>2
  <2>3. Whole(lsnOf, e.lsn)  BY <2>2 DEF Whole
  <2> QED BY <1>0, <1>2, <2>3
<1>6. CASE expected = 0
  <2>1. FromStart /\ cp = checkpoint /\ checkpoint.lsn = 0
    BY <1>4, <1>6 DEF ExpectInv, FromStart, GapInv, HeldWhole, Working, NoCheckpoint
  <2>2. \A x \in Entries(files) : x = e \/ Before(e, x)
    <3> SUFFICES ASSUME NEW x \in Entries(files), Before(x, e) PROVE FALSE
      BY <1>1, LogOrder DEF Inv
    <3>1. x \in EntriesAfter(files, cp)  BY <1>3, <2>1, AllAfterNone DEF FromStart
    <3>2. x \in unread  BY <1>1, <2>1, <3>1 DEF FromStart
    <3> QED BY <1>1, <3>2, LogOrder DEF Inv
  <2>3. ASSUME NEW a \in Records, lsnOf[a] > 0 PROVE e.lsn <= lsnOf[a]
    <3>1. PICK x \in Entries(files) : x.rec = a  BY <1>3, <2>1, <2>3 DEF Known, Logged
    <3>2. x.lsn = lsnOf[a]  BY <3>1 DEF Inv, LogInv
    <3>3. e.lsn <= x.lsn  BY <1>1, <1>2, <2>2, LogOrder DEF Inv
    <3> QED BY <3>2, <3>3
  <2>4. ASSUME NEW a \in Records, lsnOf[a] > 0, NEW n \in lsnOf[a]..e.lsn PROVE n = e.lsn
    BY <1>2, <1>3, <2>3, <2>4
  <2>5. Whole(lsnOf, e.lsn)  BY <1>2, <2>4 DEF Whole
  <2> QED BY <1>0, <1>2, <2>5
<1> QED BY <1>0, <1>5, <1>6 DEF InSequence

LEMMA GapAppend ==
  ASSUME Inv, Known, GapInv, NEW r \in Records, NEW p \in Plans, AppendRecord(r, p)
  PROVE  /\ Reached'
         /\ pc' \in Working => HeldWhole'
         /\ pc' \in Working \ {"read"} => ExpectInv'
<1>1. PICK n : IsNewest(n, r)  BY AppendFacts DEF Inv
<1>2. /\ lsnOf' = [lsnOf EXCEPT ![r] = n.lsn] /\ lsnOf[r] = 0
      /\ n.lsn \in Nat /\ n.lsn >= nextLsn /\ nextLsn' = n.lsn + 1
      /\ Entries(files') = Entries(files) \cup {n}
      /\ \A e \in Entries(files) : ~Before(n, e)
      /\ lsnOf \in [Records -> Nat] /\ nextLsn \in Nat /\ expected \in Nat
      /\ UNCHANGED <<checkpoint, delivered, quarantined, pc, cp, unread, expected, batch, after,
                     pending>>
  BY <1>1 DEF IsNewest, Extends, AppendRecord, outcome, pass, Inv, TypeOK
<1>3. \A a \in Records : a # r => lsnOf'[a] = lsnOf[a]  BY <1>2
<1>4. \A k \in Nat : k < nextLsn /\ Whole(lsnOf, k) => Whole(lsnOf', k)
  <2> SUFFICES ASSUME NEW k \in Nat, k < nextLsn, Whole(lsnOf, k) PROVE Whole(lsnOf', k)  OBVIOUS
  <2>1. k < n.lsn  BY <1>2
  <2> QED BY <1>2, <2>1, WholeAppend
<1>5. Reached'
  <2>1. \A a \in quarantined : Logged(a) /\ a # r /\ a \in Records
    BY <1>2 DEF GapInv, Reached, Logged, Inv, TypeOK
  <2>2. \A a \in quarantined' : Logged(a)'  BY <1>2, <1>3, <2>1 DEF Logged
  <2>3. ASSUME NEW a \in Records, Touched(a)' PROVE Whole(lsnOf', lsnOf'[a])
    <3>1. Touched(a)  BY <1>2, <2>3 DEF Touched
    <3>2. Logged(a)  BY <2>1, <3>1 DEF Touched, Known
    <3>3. lsnOf'[a] = lsnOf[a] /\ lsnOf[a] \in Nat  BY <1>2, <1>3, <3>2 DEF Logged
    <3>4. lsnOf[a] < nextLsn  BY <3>2, NextIsNew
    <3>5. Whole(lsnOf, lsnOf[a])  BY <3>1 DEF GapInv, Reached
    <3> QED BY <1>4, <3>3, <3>4, <3>5
  <2>4. Whole(lsnOf', checkpoint'.lsn)
    <3>1. checkpoint.lsn \in Nat /\ checkpoint.lsn < nextLsn  BY LogTypes
    <3> QED BY <1>2, <1>4, <3>1 DEF GapInv, Reached
  <2> QED BY <2>2, <2>3, <2>4 DEF Reached
<1>6. ASSUME pc \in Working PROVE HeldWhole'
  <2>1. HeldWhole /\ batch \subseteq Entries(files)  BY <1>6, HeldIsInLog DEF GapInv
  <2>2. pending # NoCheckpoint => pending.lsn \in Nat /\ pending.lsn < nextLsn
    BY <1>6, PendingSound DEF Sound, Inv, TypeOK, Position, PassInv
  <2>3. \A e \in batch : e.lsn \in Nat /\ e.lsn < nextLsn
    BY <2>1, EntryFacts DEF Inv, TypeOK, LogInv
  <2> QED BY <1>2, <1>4, <2>1, <2>2, <2>3 DEF HeldWhole
<1>7. ASSUME pc \in Working \ {"read"} PROVE ExpectInv'
  <2>1. ExpectInv /\ unread \subseteq Entries(files)  BY <1>7, HeldIsInLog DEF GapInv
  <2>2. expected' <= nextLsn'  BY <1>2, <2>1 DEF ExpectInv
  <2>3. ASSUME expected = 0 PROVE FromStart'
    <3>1. FromStart  BY <2>1, <2>3 DEF ExpectInv
    <3>2. EntriesAfter(files', cp) \subseteq EntriesAfter(files, cp) \cup {n}
      BY <1>2, EntriesAfterAre
    <3> QED BY <1>2, <2>1, <3>1, <3>2 DEF FromStart
  <2>4. ASSUME expected # 0 PROVE Whole(lsnOf', expected - 1)
    <3>1. expected - 1 \in Nat /\ expected - 1 < nextLsn  BY <1>2, <2>1, <2>4 DEF ExpectInv
    <3> QED BY <1>4, <2>1, <2>4, <3>1 DEF ExpectInv
  <2>5. ToQuarantine' => InSequence(First(unread))'
    BY <1>2, <2>1 DEF ExpectInv, ToQuarantine, InSequence
  <2> QED BY <1>2, <2>2, <2>3, <2>4, <2>5 DEF ExpectInv
<1> QED BY <1>2, <1>5, <1>6, <1>7

(* Only what comes next is quarantined, and only the window is sent.       *)
LEMMA ReachedStep ==
  ASSUME Inv, Known, GapInv, ~ResetToLatest, [Next]_vars, UNCHANGED lsnOf PROVE Reached'
<1>1. Grows /\ SendsBatch  BY OutcomeStep
<1>2. ASSUME NEW r \in Records, NEW s \in Sinks, delivered'[s][r] # delivered[s][r]
      PROVE  Whole(lsnOf, lsnOf[r])
  <2>1. pc \in Working /\ \E e \in batch : e.rec = r  BY <1>1, <1>2 DEF SendsBatch
  <2>2. PICK e \in batch : e.rec = r  BY <2>1
  <2>3. e \in Entries(files)  BY <2>1, <2>2, HeldIsInLog
  <2>4. lsnOf[r] = e.lsn  BY <2>2, <2>3 DEF Inv, LogInv
  <2> QED BY <2>1, <2>2, <2>4 DEF GapInv, HeldWhole
<1>3. ASSUME UNCHANGED quarantined
      PROVE  \A r \in Records : Touched(r)' => Whole(lsnOf, lsnOf[r])
  BY <1>2, <1>3 DEF Touched, GapInv, Reached
<1>4. CASE Quarantine
  <2>1. pc = "quarantine" /\ unread # {} /\ ToQuarantine
    BY <1>4 DEF Quarantine, Inv, WindowInv, ToQuarantine
  <2>2. InSequence(First(unread))  BY <2>1 DEF GapInv, ExpectInv, Working
  <2>3. PICK e : e = First(unread)  OBVIOUS
  <2>4. Whole(lsnOf, e.lsn) /\ e.lsn > 0 /\ e.rec \in Records /\ lsnOf[e.rec] = e.lsn
    BY <2>1, <2>2, <2>3, NextIsWhole
  <2>5. quarantined' = quarantined \cup {e.rec} /\ UNCHANGED <<delivered, checkpoint>>
    BY <1>4, <2>3 DEF Quarantine
  <2> QED BY <2>4, <2>5 DEF Reached, Touched, Logged, GapInv
<1>5. CASE (StoreCheckpoint \/ StoreFails) /\ checkpoint' = pending /\ pending # NoCheckpoint
  <2>1. pc \in Working /\ UNCHANGED quarantined
    BY <1>5 DEF StoreCheckpoint, StoreFails, Working, outcome
  <2>2. Whole(lsnOf, pending.lsn)  BY <1>5, <2>1 DEF GapInv, HeldWhole
  <2> QED BY <1>3, <1>5, <2>1, <2>2 DEF Reached, GapInv, Logged
<1>6. ASSUME UNCHANGED <<quarantined, checkpoint>> PROVE Reached'
  BY <1>3, <1>6 DEF Reached, GapInv, Logged
<1>7. CASE StoreCheckpoint \/ StoreFails
  BY <1>5, <1>6, <1>7 DEF StoreCheckpoint, StoreFails, outcome
<1>8. CASE Restart
  BY <1>6, <1>8, StoredStays DEF Restart, outcome
<1>9. CASE OpenPass
  BY <1>6, <1>9, StoredStays DEF OpenPass, outcome
<1>10. ASSUME NEW r \in Records, NEW p \in Plans, AppendRecord(r, p)
       PROVE  UNCHANGED <<quarantined, checkpoint>>
  BY <1>10 DEF AppendRecord, outcome
<1>11. CASE \E s \in Sinks : ToggleSink(s) \/ BatchTimeout(s)
  BY <1>6, <1>11 DEF ToggleSink, BatchTimeout, outcome
<1>12. CASE Crash \/ UNCHANGED vars  BY <1>6, <1>12 DEF Crash, vars, outcome
<1>13. CASE \/ ReadLog \/ TakeDeliverable \/ TakeOther \/ Defer \/ SendLast
            \/ SendSink \/ SendFails \/ WindowSent \/ Finish \/ Cleanup \/ PassFails
  BY <1>6, <1>13 DEF ReadLog, TakeDeliverable, TakeOther, Defer, SendLast, SendSink,
     SendFails, WindowSent, Finish, Cleanup, PassFails, outcome
<1> QED BY <1>4, <1>6, <1>7, <1>8, <1>9, <1>10, <1>11, <1>12, <1>13 DEF Next, Pass

(* A pass opens at the checkpoint, and reads on from it.                   *)
LEMMA GapOpens ==
  ASSUME Inv, GapInv, ~ResetToLatest, OpenPass \/ ReadLog
  PROVE  HeldWhole' /\ (pc' # "read" => ExpectInv')
<1>1. CASE OpenPass
  <2>1. /\ pc' = "read" /\ batch = {} /\ pending = NoCheckpoint
        /\ UNCHANGED <<batch, pending, lsnOf>>
    BY <1>1 DEF OpenPass, Inv, IdleInv, log
  <2>2. cp' = checkpoint' BY <1>1, StartsThere DEF OpenPass, GapInv
  <2> QED BY <2>1, <2>2 DEF HeldWhole
<1>2. CASE ReadLog
  <2>1. /\ pc = "read" /\ pc' = "scan" /\ batch = {} /\ pending = NoCheckpoint
        /\ UNCHANGED <<batch, pending, lsnOf, cp, checkpoint, files, nextLsn>>
        /\ unread' = ReadEntries
        /\ expected' = IF cp = NoCheckpoint THEN 0 ELSE cp.lsn + 1
    BY <1>2 DEF ReadLog, Inv, WindowInv, log
  <2>2. HeldWhole /\ checkpoint.lsn \in Nat /\ checkpoint.lsn < nextLsn /\ nextLsn \in Nat
    BY <2>1, LogTypes DEF GapInv, Working
  <2>3. HeldWhole'  BY <2>1, <2>2 DEF HeldWhole
  <2>4. ASSUME cp = NoCheckpoint PROVE FromStart'
    <3>1. \A e \in EntriesAfter(files, cp), f \in ReadEntries : Before(e, f) => e \in ReadEntries
      BY ReadFacts DEF Inv
    <3> QED BY <2>1, <2>4, <3>1 DEF FromStart
  <2>5. Whole(lsnOf, checkpoint.lsn)  BY DEF GapInv, Reached
  <2>6. cp = checkpoint  BY <2>2 DEF HeldWhole
  <2>7. CASE cp = NoCheckpoint
    <3>1. expected' = 0 /\ expected' <= nextLsn'  BY <2>1, <2>2, <2>7
    <3>2. ~ToQuarantine'  BY <2>1 DEF ToQuarantine
    <3> QED BY <2>3, <2>4, <2>7, <3>1, <3>2 DEF ExpectInv
  <2>8. CASE cp # NoCheckpoint
    <3>1. expected' = checkpoint.lsn + 1  BY <2>1, <2>6, <2>8
    <3>2. expected' # 0 /\ expected' - 1 = checkpoint.lsn /\ expected' <= nextLsn'
      BY <2>1, <2>2, <3>1
    <3>3. ~ToQuarantine'  BY <2>1 DEF ToQuarantine
    <3> QED BY <2>1, <2>3, <2>5, <3>2, <3>3 DEF ExpectInv
  <2> QED BY <2>7, <2>8
<1> QED BY <1>1, <1>2

(* An entry leaves the log in sequence.                                    *)
LEMMA GapTakes ==
  ASSUME Inv, Known, GapInv, TakeDeliverable \/ Quarantine PROVE HeldWhole' /\ ExpectInv'
<1>1. PICK e : e = First(unread)  OBVIOUS
<1>2. /\ pc \in {"scan", "quarantine"} /\ unread # {}
      /\ InSequence(First(unread))
      /\ UNCHANGED <<lsnOf, nextLsn, cp, checkpoint>>
      /\ expected' = e.lsn + 1
      /\ batch' \subseteq batch \cup {e}
      /\ pending' = pending \/ pending' = NextPosition(e)
      /\ ~ToQuarantine'
  <2>1. CASE TakeDeliverable
    BY <1>1, <2>1 DEF TakeDeliverable, SendWindow, log, ToQuarantine
  <2>2. CASE Quarantine
    <3>1. pc = "quarantine" /\ unread # {} /\ ToQuarantine /\ pc' = "scan"
      BY <2>2 DEF Quarantine, Inv, WindowInv, ToQuarantine
    <3>2. InSequence(First(unread))  BY <3>1 DEF GapInv, ExpectInv, Working
    <3>3. ~ToQuarantine'  BY <3>1 DEF ToQuarantine
    <3> QED BY <1>1, <2>2, <3>1, <3>2, <3>3 DEF Quarantine, log
  <2> QED BY <2>1, <2>2
<1>3. Whole(lsnOf, e.lsn) /\ e.lsn \in Nat /\ e.lsn < nextLsn  BY <1>1, <1>2, NextIsWhole
<1>4. HeldWhole /\ nextLsn \in Nat  BY <1>2 DEF GapInv, Working, Inv, TypeOK
<1>5. NextPosition(e).lsn = e.lsn  BY DEF NextPosition
<1>6. HeldWhole'  BY <1>2, <1>3, <1>4, <1>5 DEF HeldWhole
<1>7. expected' # 0 /\ expected' - 1 = e.lsn /\ expected' <= nextLsn'  BY <1>2, <1>3, <1>4
<1>8. ExpectInv'  BY <1>2, <1>3, <1>7 DEF ExpectInv
<1> QED BY <1>6, <1>8

(* The other steps of a pass neither read nor take.                        *)
LEMMA GapGoesOn ==
  ASSUME Inv, Known, GapInv,
         TakeOther \/ SendLast \/ SendSink \/ WindowSent \/ Finish \/ StoreCheckpoint
  PROVE  HeldWhole' /\ ExpectInv'
<1>1. /\ pc \in Working \ {"read"}
      /\ UNCHANGED <<files, lsnOf, nextLsn, unread, expected>>
      /\ batch' = batch \/ batch' = {}
  BY DEF TakeOther, SendLast, SendWindow, SendSink, WindowSent, Finish, StoreCheckpoint, Working, log
<1>2. HeldWhole /\ ExpectInv  BY <1>1 DEF GapInv
<1>3. ToQuarantine' => InSequence(First(unread))
  <2>1. CASE TakeOther  BY <1>1, <2>1 DEF TakeOther, SendWindow, ToQuarantine
  <2>2. CASE SendLast  BY <1>1, <2>2 DEF SendLast, SendWindow, ToQuarantine
  <2>3. CASE SendSink \/ WindowSent \/ Finish \/ StoreCheckpoint
    <3>1. ToQuarantine' => ToQuarantine
      BY <2>3 DEF SendSink, WindowSent, Finish, StoreCheckpoint, ToQuarantine
    <3> QED BY <1>2, <3>1 DEF ExpectInv
  <2> QED BY <2>1, <2>2, <2>3
<1>4. InSequence(First(unread))' <=> InSequence(First(unread))  BY <1>1 DEF InSequence
<1>5. CASE UNCHANGED <<cp, checkpoint, pending>>
  <2>1. HeldWhole'  BY <1>1, <1>2, <1>5 DEF HeldWhole
  <2>2. expected = 0 => FromStart'  BY <1>1, <1>2, <1>5 DEF ExpectInv, FromStart
  <2> QED BY <1>1, <1>2, <1>3, <1>4, <2>1, <2>2 DEF ExpectInv
<1>6. CASE WindowSent
  <2>1. pc = "send" /\ sending = {} /\ UNCHANGED <<cp, checkpoint>>
        /\ pending' = IF Fresh(batch) = {} THEN pending ELSE NextPosition(LastOf(Fresh(batch)))
    BY <1>6 DEF WindowSent
  <2>2. Fresh(batch) = batch /\ batch \subseteq Entries(files)
    BY <2>1, AllFresh, HeldIsInLog DEF Working
  <2>3. CASE batch = {}  BY <1>5, <2>1, <2>2, <2>3
  <2>4. CASE batch # {}
    <3>1. LastOf(batch) \in batch  BY <2>2, <2>4, LastIs DEF Inv
    <3>2. pending' = NextPosition(LastOf(batch)) /\ pending'.lsn = LastOf(batch).lsn
      BY <2>1, <2>2, <2>4 DEF NextPosition
    <3>3. Whole(lsnOf, pending'.lsn)  BY <1>2, <3>1, <3>2 DEF HeldWhole
    <3>4. expected # 0  BY <1>2, <2>4 DEF ExpectInv, FromStart
    <3>5. HeldWhole'  BY <1>1, <1>2, <2>1, <3>3 DEF HeldWhole
    <3>6. ExpectInv'  BY <1>1, <1>2, <1>3, <1>4, <3>4 DEF ExpectInv
    <3> QED BY <3>5, <3>6
  <2> QED BY <2>3, <2>4
<1>7. CASE StoreCheckpoint
  <2>1. CASE pending = NoCheckpoint
    <3>1. UNCHANGED <<cp, checkpoint, pending>>  BY <1>7, <2>1 DEF StoreCheckpoint
    <3> QED BY <1>5, <3>1
  <2>2. CASE pending # NoCheckpoint
    <3>1. checkpoint' = pending /\ cp' = pending /\ pending' = NoCheckpoint
      BY <1>7, <2>2 DEF StoreCheckpoint
    <3>2. expected # 0  BY <1>2, <2>2 DEF ExpectInv, FromStart
    <3>3. HeldWhole'  BY <1>1, <1>2, <3>1 DEF HeldWhole
    <3>4. ExpectInv'  BY <1>1, <1>2, <1>3, <1>4, <3>2 DEF ExpectInv
    <3> QED BY <3>3, <3>4
  <2> QED BY <2>1, <2>2
<1> QED BY <1>5, <1>6, <1>7 DEF TakeOther, SendLast, SendSink, Finish

LEMMA GapCleanup ==
  ASSUME Inv, GapInv, Cleanup, pc' \in Working PROVE HeldWhole' /\ ExpectInv'
<1>1. /\ pc = "cleanup" /\ pc' = after
      /\ UNCHANGED <<lsnOf, nextLsn, checkpoint, cp, unread, expected, batch, after, pending>>
  BY DEF Cleanup, PassOver, Working
<1>2. HeldWhole /\ ExpectInv  BY <1>1 DEF GapInv, Working
<1>3. EntriesAfter(files', cp) = EntriesAfter(files, cp)  BY CleanupFacts
<1>4. HeldWhole'  BY <1>1, <1>2 DEF HeldWhole
<1>5. ToQuarantine' => InSequence(First(unread))'
  BY <1>1, <1>2 DEF ToQuarantine, ExpectInv, InSequence
<1>6. expected = 0 => FromStart'  BY <1>1, <1>2, <1>3 DEF ExpectInv, FromStart
<1> QED BY <1>1, <1>2, <1>4, <1>5, <1>6 DEF ExpectInv

LEMMA GapStep ==
  ASSUME Inv, Known, GapInv, ~ResetToLatest, [Next]_vars PROVE GapInv'
<1>1. Anchored'  BY AnchorStep
<1>2. CASE \E r \in Records, p \in Plans : AppendRecord(r, p)
  BY <1>1, <1>2, GapAppend DEF GapInv
<1>3. CASE ~\E r \in Records, p \in Plans : AppendRecord(r, p)
  <2>1. Reached' /\ UNCHANGED lsnOf  BY <1>3, OnlyAppendPlans, ReachedStep
  <2>2. ASSUME HeldWhole', pc' # "read" => ExpectInv' PROVE GapInv'
    BY <1>1, <2>1, <2>2 DEF GapInv
  <2>3. ASSUME pc' \notin Working PROVE GapInv'  BY <1>1, <2>1, <2>3 DEF GapInv
  <2>4. ASSUME UNCHANGED <<files, nextLsn, pass, checkpoint>> PROVE GapInv'
    <3>1. pc \in Working => HeldWhole'  BY <2>1, <2>4 DEF GapInv, HeldWhole, pass
    <3>2. pc \in Working \ {"read"} => ExpectInv'
      BY <2>1, <2>4 DEF GapInv, ExpectInv, FromStart, ToQuarantine, InSequence, pass
    <3> QED BY <1>1, <2>1, <2>4, <3>1, <3>2 DEF GapInv, pass
  <2>5. CASE \E s \in Sinks : ToggleSink(s) \/ BatchTimeout(s)
    BY <2>4, <2>5 DEF ToggleSink, BatchTimeout, log
  <2>6. CASE UNCHANGED vars  BY <2>4, <2>6 DEF vars, log
  <2>7. CASE Restart
    <3>1. pc' = "idle"  BY <2>7 DEF Restart, pass, Inv, IdleInv
    <3> QED BY <2>3, <3>1 DEF Working
  <2>8. CASE Crash \/ Defer \/ SendFails \/ StoreFails \/ PassFails
    BY <2>3, <2>8 DEF Crash, Defer, PassOver, SendFails, StoreFails, PassFails, Working
  <2>9. CASE Cleanup  BY <2>2, <2>3, <2>9, GapCleanup
  <2>10. CASE OpenPass \/ ReadLog  BY <2>2, <2>10, GapOpens
  <2>11. CASE TakeDeliverable \/ Quarantine  BY <2>2, <2>11, GapTakes
  <2>12. CASE TakeOther \/ SendLast \/ SendSink \/ WindowSent \/ Finish \/ StoreCheckpoint
    BY <2>2, <2>12, GapGoesOn
  <2> QED BY <1>3, <2>5, <2>6, <2>7, <2>8, <2>9, <2>10, <2>11, <2>12 DEF Next, Pass
<1> QED BY <1>2, <1>3

(* Replay stops at a hole in the LSNs (the "non-contiguous wal lsn" of     *)
(* wal/error.rs): no record beyond one is sent or quarantined, whatever is *)
(* appended, restarted or retried, as long as some enabled sink has        *)
(* auto_offset_reset = earliest; a reset to the tail would jump over it.   *)
THEOREM HolesStopReplay == Spec /\ []~ResetToLatest => []GapStops
<1>1. Init /\ ~ResetToLatest => OrderInv /\ GapInv
  <2> SUFFICES ASSUME Init, ~ResetToLatest PROVE OrderInv /\ GapInv  OBVIOUS
  <2>1. \A r \in Records : ~Logged(r) /\ ~(lsnOf[r] > 0)  BY DEF Init, Logged
  <2>2. \A s \in Sinks, r \in Records : ~(delivered[s][r] > 0)  BY DEF Init
  <2>3. OrderInv  BY <2>1, <2>2, InitInv DEF OrderInv, Safe, Known, SinkOrder
  <2>4. \A k : Whole(lsnOf, k)  BY <2>1 DEF Whole
  <2>5. quarantined = {} /\ checkpoint = NoCheckpoint /\ pc = "idle"  BY DEF Init
  <2>6. Reached /\ Anchored /\ pc \notin Working
    BY <2>4, <2>5 DEF Reached, Anchored, Working
  <2> QED BY <2>3, <2>6 DEF GapInv
<1>2. OrderInv /\ GapInv /\ ~ResetToLatest /\ [Next]_vars => OrderInv' /\ GapInv'
  BY OrderStep, InvStep, SafeStep, GapStep DEF OrderInv
<1>3. OrderInv /\ GapInv => GapStops
  <2> SUFFICES ASSUME OrderInv, GapInv, NEW r \in Records, HoleBefore(r)
               PROVE  r \notin quarantined /\ \A s \in Sinks : delivered[s][r] = 0
    BY DEF GapStops
  <2>1. ~Whole(lsnOf, lsnOf[r])  BY DEF HoleBefore, Whole, Logged
  <2>2. ~Touched(r)  BY <2>1 DEF GapInv, Reached
  <2>3. \A s \in Sinks : delivered[s][r] \in 0..2  BY LogTypes DEF OrderInv
  <2> QED BY <2>2, <2>3 DEF Touched
<1> QED BY <1>1, <1>2, <1>3, PTL DEF Spec

-----------------------------------------------------------------------------
(* Nothing is delivered twice before something fails.                      *)

(* What a sink has committed is covered, or the pass will cover it, unless *)
(* it fails.                                                               *)
Accounted(s, r) ==
  \/ lsnOf[r] <= checkpoint.lsn
  \/ pc = "fail"
  \/ pc \in Working /\ pending # NoCheckpoint /\ lsnOf[r] <= pending.lsn
  \/ pc = "send" /\ s \notin sending /\ \E e \in batch : e.rec = r

OnceInv ==
  ~disturbed => \A s \in Sinks, r \in Records :
    delivered[s][r] > 0 => delivered[s][r] < 2 /\ Accounted(s, r)

(* A window holds nothing its sinks have had.                              *)
LEMMA WindowIsNew ==
  ASSUME Inv, OnceInv, ~disturbed, pc = "send", sending # {},
         NEW e \in Load(NextSink, batch)
  PROVE  delivered[NextSink][e.rec] = 0
<1>1. NextSink \in Sinks /\ NextSink \in sending  BY NextSinkIs DEF Inv
<1>2. pc \in Working /\ e \in batch  BY DEF Working, Load, Fresh
<1>3. PassBody /\ e \in Entries(files)  BY <1>2, HeldIsInLog DEF Inv, PassInv
<1>4. lsnOf[e.rec] = e.lsn /\ e.lsn \in Nat /\ e.rec \in Records
  BY <1>3, EntryFacts DEF Inv, TypeOK, LogInv
<1>5. e.lsn > checkpoint.lsn /\ checkpoint.lsn \in Nat
  BY <1>2, <1>3, LogTypes DEF PassBody, NextUp, Ahead
<1>6. pending # NoCheckpoint => e.lsn > pending.lsn /\ pending.lsn \in Nat
  <2> SUFFICES ASSUME pending # NoCheckpoint PROVE e.lsn > pending.lsn /\ pending.lsn \in Nat
    OBVIOUS
  <2>1. After(pending, e)  BY <1>2, <1>3 DEF PassBody, PendingInv
  <2>2. e \in EntriesAfter(files, pending)  BY <1>3, <2>1, EntriesAfterAre
  <2> QED BY <1>2, <2>2, PendingSound DEF Sound, Ahead, Inv, TypeOK, Position
<1>7. ~Accounted(NextSink, e.rec)  BY <1>1, <1>4, <1>5, <1>6 DEF Accounted
<1>8. delivered[NextSink][e.rec] \in 0..2  BY <1>1, <1>4, LogTypes
<1> QED BY <1>1, <1>4, <1>7, <1>8 DEF OnceInv

LEMMA CommitOnce ==
  ASSUME Inv, OnceInv, ~disturbed, pc = "send", sending # {},
         NEW S \in SUBSET Load(NextSink, batch), Commit(NextSink, S)
  PROVE  \A s \in Sinks, r \in Records :
           delivered'[s][r] > 0 =>
             \/ delivered'[s][r] = delivered[s][r]
             \/ delivered'[s][r] = 1 /\ s = NextSink /\ \E e \in batch : e.rec = r
<1> DEFINE had == delivered[NextSink]
           has == [r \in Records |-> IF had[r] < 2 /\ (\E e \in S : e.rec = r)
                                       THEN had[r] + 1 ELSE had[r]]
<1>1. NextSink \in Sinks /\ delivered \in [Sinks -> [Records -> 0..2]]
  BY NextSinkIs DEF Inv, TypeOK
<1>2. delivered' = [delivered EXCEPT ![NextSink] = has]  BY DEF Commit
<1>3. \A e \in S : had[e.rec] = 0 /\ e \in batch  BY WindowIsNew DEF Load, Fresh
<1>4. \A r \in Records : has[r] = had[r] \/ (has[r] = 1 /\ \E e \in batch : e.rec = r)
  BY <1>3
<1> HIDE DEF has, had
<1>5. \A s \in Sinks : delivered'[s] = IF s = NextSink THEN has ELSE delivered[s]
  BY <1>1, <1>2
<1> QED BY <1>4, <1>5 DEF had

LEMMA OnceSends ==
  ASSUME Inv, OnceInv, SendSink \/ SendFails PROVE OnceInv'
<1> SUFFICES ASSUME ~disturbed PROVE OnceInv'
  BY DEF SendSink, SendFails, OnceInv
<1>1. pc = "send" /\ sending # {} /\ pc \in Working /\ UNCHANGED <<lsnOf, checkpoint, pending>>
  BY DEF SendSink, SendFails, Working, log
<1>2. CASE SendSink
  <2>1. /\ Commit(NextSink, Load(NextSink, batch))
        /\ sending' = sending \ {NextSink} /\ UNCHANGED <<pc, batch>>
    BY <1>2 DEF SendSink
  <2>2. ASSUME NEW s \in Sinks, NEW r \in Records, delivered'[s][r] > 0
        PROVE  delivered'[s][r] < 2 /\ Accounted(s, r)'
    <3>1. \/ delivered'[s][r] = delivered[s][r]
          \/ delivered'[s][r] = 1 /\ s = NextSink /\ \E e \in batch : e.rec = r
      BY <1>1, <2>1, <2>2, CommitOnce
    <3>2. CASE delivered'[s][r] = delivered[s][r]
      <4>1. delivered[s][r] < 2 /\ Accounted(s, r)  BY <2>2, <3>2 DEF OnceInv
      <4> QED BY <1>1, <2>1, <3>2, <4>1 DEF Accounted
    <3>3. CASE delivered'[s][r] = 1 /\ s = NextSink /\ \E e \in batch : e.rec = r
      BY <1>1, <2>1, <3>3 DEF Accounted
    <3> QED BY <3>1, <3>2, <3>3
  <2> QED BY <2>2 DEF OnceInv
<1>3. CASE SendFails
  <2>1. pc' = "fail"  BY <1>3 DEF SendFails
  <2>2. UNCHANGED delivered \/ \E S \in SUBSET Load(NextSink, batch) : Commit(NextSink, S)
    BY <1>3 DEF SendFails
  <2>3. ASSUME NEW s \in Sinks, NEW r \in Records, delivered'[s][r] > 0
        PROVE  delivered'[s][r] < 2
    <3>1. \/ delivered'[s][r] = delivered[s][r] \/ delivered'[s][r] = 1
      BY <1>1, <2>2, <2>3, CommitOnce
    <3> QED BY <2>3, <3>1 DEF OnceInv
  <2> QED BY <2>1, <2>3 DEF OnceInv, Accounted
<1> QED BY <1>2, <1>3

(* A later pending position covers more.                                   *)
LEMMA PendingGrows ==
  ASSUME Inv, pc \in Working, NEW e \in Entries(files), e \in batch \cup unread
  PROVE  /\ NextPosition(e) # NoCheckpoint /\ NextPosition(e).lsn = e.lsn
         /\ pending # NoCheckpoint =>
              \A k \in Nat : k <= pending.lsn => k <= NextPosition(e).lsn
<1>1. NextPosition(e) # NoCheckpoint /\ NextPosition(e).lsn = e.lsn
  BY NextPositionAfter DEF Inv
<1>2. ASSUME pending # NoCheckpoint PROVE e.lsn > pending.lsn /\ pending.lsn \in Nat
  <2>1. After(pending, e)  BY <1>2 DEF Inv, PassInv, PassBody, PendingInv
  <2>2. e \in EntriesAfter(files, pending)  BY <2>1, EntriesAfterAre
  <2> QED BY <1>2, <2>2, PendingSound DEF Sound, Ahead, Inv, TypeOK, Position
<1>3. e.lsn \in Nat  BY LogOrder DEF Inv
<1> QED BY <1>1, <1>2, <1>3

LEMMA OnceWindow ==
  ASSUME Inv, OnceInv, WindowSent PROVE OnceInv'
<1>1. /\ pc = "send" /\ sending = {} /\ pc \in Working /\ batch' = {}
      /\ UNCHANGED <<lsnOf, checkpoint, delivered, disturbed>>
      /\ pending' = IF Fresh(batch) = {} THEN pending ELSE NextPosition(LastOf(Fresh(batch)))
  BY DEF WindowSent, Working, log, outcome
<1>2. pc' = "fail" \/ pc' \in Working
  BY DEF WindowSent, Inv, WindowInv, TypeOK, Working
<1>3. Fresh(batch) = batch /\ batch \subseteq Entries(files)  BY <1>1, AllFresh, HeldIsInLog
<1>4. ASSUME NEW s \in Sinks, NEW r \in Records, Accounted(s, r) PROVE Accounted(s, r)'
  <2>0. lsnOf[r] \in Nat  BY LogTypes
  <2>1. CASE batch = {}  BY <1>1, <1>2, <1>3, <1>4, <2>1 DEF Accounted
  <2>2. CASE batch # {}
    <3>1. PICK last : last = LastOf(batch)  OBVIOUS
    <3>2. last \in batch /\ \A f \in batch : last = f \/ Before(f, last)
      BY <1>3, <2>2, <3>1, LastIs DEF Inv
    <3>3. pending' = NextPosition(last)  BY <1>1, <1>3, <2>2, <3>1
    <3>4. /\ pending' # NoCheckpoint /\ pending'.lsn = last.lsn
          /\ pending # NoCheckpoint /\ lsnOf[r] <= pending.lsn => lsnOf[r] <= pending'.lsn
      BY <1>1, <1>3, <2>0, <3>2, <3>3, PendingGrows
    <3>5. ASSUME NEW e \in batch, e.rec = r PROVE lsnOf[r] <= pending'.lsn
      <4>1. lsnOf[r] = e.lsn  BY <1>3, <3>5 DEF Inv, LogInv
      <4>2. e.lsn <= last.lsn  BY <1>3, <3>2, LogOrder DEF Inv
      <4> QED BY <3>4, <4>1, <4>2
    <3> QED BY <1>1, <1>2, <1>4, <3>4, <3>5 DEF Accounted
  <2> QED BY <2>1, <2>2
<1> QED BY <1>1, <1>4 DEF OnceInv

LEMMA OnceStep ==
  ASSUME Inv, Known, OnceInv, ~ResetToLatest, [Next]_vars
  PROVE  OnceInv'
<1>1. ASSUME UNCHANGED <<lsnOf, delivered, disturbed>>,
             \A s \in Sinks, r \in Records : Accounted(s, r) => Accounted(s, r)'
      PROVE  OnceInv'
  BY <1>1 DEF OnceInv
<1>2. ASSUME UNCHANGED <<lsnOf, delivered, disturbed, checkpoint, pc, pending, sending, batch>>
      PROVE  OnceInv'
  BY <1>2 DEF OnceInv, Accounted
<1>3. CASE \E s \in Sinks : ToggleSink(s) \/ BatchTimeout(s)
  BY <1>2, <1>3 DEF ToggleSink, BatchTimeout, log, pass, outcome
<1>4. CASE UNCHANGED vars  BY <1>2, <1>4 DEF vars, log, pass, outcome
<1>5. ASSUME NEW r \in Records, NEW p \in Plans, AppendRecord(r, p) PROVE OnceInv'
  <2>1. PICK n : IsNewest(n, r)  BY <1>5, AppendFacts DEF Inv
  <2>2. /\ lsnOf' = [lsnOf EXCEPT ![r] = n.lsn] /\ lsnOf[r] = 0 /\ lsnOf \in [Records -> Nat]
        /\ UNCHANGED <<delivered, disturbed, checkpoint, pc, pending, sending, batch>>
    BY <1>5, <2>1 DEF IsNewest, AppendRecord, pass, outcome, Inv, TypeOK
  <2>3. \A s \in Sinks, a \in Records : delivered[s][a] > 0 => lsnOf'[a] = lsnOf[a]
    BY <2>2 DEF Known, Logged
  <2> QED BY <2>2, <2>3 DEF OnceInv, Accounted
<1>6. CASE Crash \/ PassFails  BY <1>6 DEF Crash, PassFails, OnceInv
<1>7. CASE Restart \/ OpenPass
  <2>1. /\ pc = "idle" /\ UNCHANGED <<lsnOf, delivered, disturbed>>
        /\ checkpoint' = checkpoint
    BY <1>7, StoredStays DEF Restart, OpenPass, log, outcome, Inv, IdleInv
  <2> QED BY <1>1, <2>1 DEF Accounted, Working
<1>8. CASE Defer
  <2>1. pc = "scan" /\ UNCHANGED <<lsnOf, delivered, checkpoint>>
    BY <1>8 DEF Defer, log, outcome
  <2>2. disturbed' = (disturbed \/ pending # NoCheckpoint)  BY <1>8 DEF Defer
  <2>3. CASE pending # NoCheckpoint  BY <2>2, <2>3 DEF OnceInv
  <2>4. CASE pending = NoCheckpoint
    <3>1. disturbed => disturbed'  BY <2>2
    <3>2. SUFFICES ASSUME ~disturbed PROVE OnceInv'  BY <3>1 DEF OnceInv
    <3> QED BY <2>1, <2>4, <3>2 DEF OnceInv, Accounted
  <2> QED BY <2>3, <2>4
<1>9. CASE Cleanup
  <2>1. /\ pc = "cleanup" /\ pending = NoCheckpoint
        /\ UNCHANGED <<lsnOf, delivered, disturbed, checkpoint>>
    BY <1>9 DEF Cleanup, outcome, Inv, WindowInv
  <2> QED BY <1>1, <2>1 DEF Accounted
<1>10. CASE StoreFails
  <2>1. pc' = "fail" /\ UNCHANGED <<lsnOf, delivered, disturbed>>
    BY <1>10 DEF StoreFails, log, outcome
  <2> QED BY <1>1, <2>1 DEF Accounted
<1>11. CASE StoreCheckpoint
  <2>1. /\ pc = "store" /\ UNCHANGED <<lsnOf, delivered, disturbed>>
        /\ IF pending = NoCheckpoint THEN checkpoint' = checkpoint ELSE checkpoint' = pending
    BY <1>11 DEF StoreCheckpoint, log, outcome
  <2>2. checkpoint.lsn <= checkpoint'.lsn /\ checkpoint'.lsn \in Nat /\ checkpoint.lsn \in Nat
    BY <2>1, CheckpointGrows, LogTypes
  <2>3. \A r \in Records : lsnOf[r] \in Nat  BY LogTypes
  <2>4. ASSUME NEW s \in Sinks, NEW r \in Records, Accounted(s, r) PROVE Accounted(s, r)'
    <3>1. lsnOf[r] <= checkpoint.lsn => lsnOf[r] <= checkpoint'.lsn  BY <2>2, <2>3
    <3> QED BY <2>1, <2>4, <3>1 DEF Accounted
  <2> QED BY <1>1, <2>1, <2>4
<1>12. CASE Quarantine
  <2>0. PICK e : e = First(unread)  OBVIOUS
  <2>1. /\ pc = "quarantine" /\ pc' = "scan" /\ pending' = NextPosition(e)
        /\ UNCHANGED <<lsnOf, delivered, disturbed, checkpoint>>
    BY <1>12, <2>0 DEF Quarantine, log
  <2>2. pc \in Working /\ pc' \in Working /\ e \in unread /\ e \in Entries(files)
    BY <2>0, <2>1, FirstUnread DEF Working, Inv, WindowInv
  <2>3. ASSUME NEW s \in Sinks, NEW r \in Records, Accounted(s, r) PROVE Accounted(s, r)'
    <3>1. lsnOf[r] \in Nat  BY LogTypes
    <3>2. pending' # NoCheckpoint /\
          (pending # NoCheckpoint /\ lsnOf[r] <= pending.lsn => lsnOf[r] <= pending'.lsn)
      BY <2>1, <2>2, <3>1, PendingGrows
    <3> QED BY <2>1, <2>2, <2>3, <3>2 DEF Accounted
  <2> QED BY <1>1, <2>1, <2>3
<1>13. CASE ReadLog \/ TakeDeliverable \/ TakeOther \/ SendLast \/ Finish
  <2>1. /\ UNCHANGED <<lsnOf, delivered, disturbed, checkpoint, pending>>
        /\ pc # "send" /\ pc # "fail" /\ (pc' \in Working \/ pc' = "fail")
    BY <1>13 DEF ReadLog, TakeDeliverable, TakeOther, SendLast, Finish, SendWindow, log, outcome,
       Working
  <2> QED BY <1>1, <2>1 DEF Accounted
<1> QED BY <1>3, <1>4, <1>5, <1>6, <1>7, <1>8, <1>9, <1>10, <1>11, <1>12, <1>13,
           OnceSends, OnceWindow DEF Next, Pass

(* Replay delivers twice only after a failure: as long as no pass has      *)
(* failed or been put off with a position pending                          *)
(* (sinks_deferred_by_batch_timeout makes it return without storing it)    *)
(* and the process lives, no sink is sent a record again, if some enabled  *)
(* sink has auto_offset_reset = earliest.                                  *)
THEOREM OnceUnlessDisturbed == Spec /\ []~ResetToLatest => []OnceUndisturbed
<1>1. Init => OrderInv /\ OnceInv
  <2> SUFFICES ASSUME Init PROVE OrderInv /\ OnceInv  OBVIOUS
  <2>1. \A r \in Records : ~Logged(r)  BY DEF Init, Logged
  <2>2. \A s \in Sinks, r \in Records : ~(delivered[s][r] > 0)  BY DEF Init
  <2>3. OrderInv  BY <2>1, <2>2, InitInv DEF OrderInv, Safe, Known, SinkOrder
  <2> QED BY <2>2, <2>3 DEF OnceInv
<1>2. OrderInv /\ OnceInv /\ ~ResetToLatest /\ [Next]_vars => OrderInv' /\ OnceInv'
  <2> SUFFICES ASSUME OrderInv, OnceInv, ~ResetToLatest, [Next]_vars PROVE OrderInv' /\ OnceInv'
    OBVIOUS
  <2>1. OrderInv'  BY OrderStep, InvStep, SafeStep DEF OrderInv
  <2> QED BY <2>1, OnceStep DEF OrderInv
<1>3. OrderInv /\ OnceInv => OnceUndisturbed
  <2> SUFFICES ASSUME OrderInv, OnceInv, ~disturbed, NEW s \in Sinks, NEW r \in Records
               PROVE  delivered[s][r] < 2
    BY DEF OnceUndisturbed
  <2>1. delivered[s][r] \in 0..2  BY LogTypes DEF OrderInv
  <2> QED BY <2>1 DEF OnceInv
<1> QED BY <1>1, <1>2, <1>3, PTL DEF Spec
=============================================================================
