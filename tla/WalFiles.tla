------------------------------ MODULE WalFiles ------------------------------
(***************************************************************************)
(* The write-ahead log as it lies on disk: numbered segment files of       *)
(* record frames, and the positions the checkpoint file stores.  Pure      *)
(* operators only; the writer, the replay loop and their composition share *)
(* them.                                                                   *)
(*                                                                         *)
(* Data abstraction.  A frame has size one and the 512-byte segment header *)
(* size zero, so a byte offset becomes the number of cells before it.  A   *)
(* cell is what a scan can meet at a frame boundary: a whole frame, the    *)
(* remains of a partial write_all, or the zeros set_len leaves when it     *)
(* extends a file.                                                         *)
(***************************************************************************)
EXTENDS Naturals, Sequences, FiniteSets

CONSTANTS Records,      \* the events clients send
          NoRecord      \* the record of a cell that holds no frame

ASSUME NoRecordAssumption == NoRecord \notin Records

Frame(lsn, rec) == [kind |-> "frame", lsn |-> lsn, rec |-> rec]
Torn == [kind |-> "torn", lsn |-> 0, rec |-> NoRecord]
Zero == [kind |-> "zero", lsn |-> 0, rec |-> NoRecord]

Cell == [kind : {"frame"}, lsn : Nat, rec : Records] \cup {Torn, Zero}

(* One segment file: the header's start_lsn, the cells written after the   *)
(* header, and how many of them the last sync_data made durable.           *)
Segment == {f \in [start : Nat, cells : Seq(Cell), synced : Nat] : f.synced <= Len(f.cells)}

EmptySegment(start) == [start |-> start, cells |-> <<>>, synced |-> 0]

(* The WAL directory: a function from segment ids to files.                *)
IsDirectory(files) ==
  /\ DOMAIN files \subseteq Nat \ {0}
  /\ files = [s \in DOMAIN files |-> files[s]]
  /\ \A s \in DOMAIN files : files[s] \in Segment

FirstSegmentId == 1

(* A WalPosition.  The position of segment 0 stands for no checkpoint: ids *)
(* start at 1.                                                             *)
Position == [lsn : Nat, segment : Nat, offset : Nat]
NoCheckpoint == [lsn |-> 0, segment |-> 0, offset |-> 0]

-----------------------------------------------------------------------------
(* Scanning.                                                               *)

(* The frame cells before the first cell that is not a frame.              *)
FrameIndexes(f) ==
  {i \in 1..Len(f.cells) : \A j \in 1..i : f.cells[j].kind = "frame"}

(* read_record_frame ends a scan quietly at end of file or inside a frame  *)
(* the file ends in; any other cell fails the magic, length or crc tests.  *)
BadCell(f) ==
  \E i \in 1..Len(f.cells) :
    /\ f.cells[i].kind # "frame"
    /\ ~ (f.cells[i].kind = "torn" /\ i = Len(f.cells))

(* The first frame of a scan from the header must carry start_lsn.         *)
StartMismatch(f) == 1 \in FrameIndexes(f) /\ f.cells[1].lsn # f.start

(* scan_segment (and read_segment_entries_after from the header) fails.    *)
ScanFails(f) == BadCell(f) \/ StartMismatch(f)

(* Everything a scan of the directory returns: entries as a set, each with *)
(* the segment and the index of its cell.                                  *)
Entries(files) ==
  UNION {{[segment |-> s, index |-> i, lsn |-> files[s].cells[i].lsn,
           rec |-> files[s].cells[i].rec] : i \in FrameIndexes(files[s])}
         : s \in DOMAIN files}

Lsns(files) == {e.lsn : e \in Entries(files)}

(* The order segments are read in, and frames inside them.                 *)
Before(e, f) == e.segment < f.segment \/ (e.segment = f.segment /\ e.index < f.index)

NextPosition(e) == [lsn |-> e.lsn, segment |-> e.segment, offset |-> e.index]

(* The entries read_entries_after_limit returns for a checkpoint.          *)
EntriesAfter(files, position) ==
  {e \in Entries(files) : \/ e.segment > position.segment
                          \/ e.segment = position.segment /\ e.index > position.offset}

(* The tail of read_wal_bounds: the end of the last segment, with the      *)
(* highest LSN a scan finds.                                               *)
LastSegment(files) == CHOOSE s \in DOMAIN files : \A t \in DOMAIN files : t <= s
LastLsn(files) == CHOOSE l \in Lsns(files) \cup {0} : \A m \in Lsns(files) : m <= l
TailPosition(files) == [lsn |-> LastLsn(files), segment |-> LastSegment(files),
                offset |-> Len(files[LastSegment(files)].cells)]

(* A pass cannot read: a segment does not scan, or the checkpoint's offset *)
(* lies beyond the end of its segment.                                     *)
ReadFails(files, position) ==
  \/ \E s \in DOMAIN files : ScanFails(files[s])
  \/ /\ position.segment \in DOMAIN files
     /\ position.offset > Len(files[position.segment].cells)

(* checkpoint_before_wal_floor: everything a scan finds lies in segments    *)
(* after the checkpoint's.  A pass then starts over; this is where it       *)
(* starts with auto_offset_reset = earliest.                                *)
BeforeFloor(files, position) ==
  Entries(files) # {} /\ \A e \in Entries(files) : position.segment < e.segment
ReplayStart(files, position) ==
  IF BeforeFloor(files, position) THEN NoCheckpoint ELSE position

-----------------------------------------------------------------------------
(* Changing the directory.  A name ending in Wrong is a bug planted for    *)
(* the mutation runs; no specification uses it.                            *)

WithSegment(files, s, f) == [t \in DOMAIN files \cup {s} |-> IF t = s THEN f ELSE files[t]]

(* The files of later segments are left behind.                            *)
WithoutSegmentsWrong(files, gone) == files
WithoutSegments(files, gone) == [t \in DOMAIN files \ gone |-> files[t]]

(* ensure_segment_file: an existing file is kept, unless it holds only a   *)
(* header of another start_lsn.                                            *)
EnsureSegment(files, s, start) ==
  IF s \in DOMAIN files /\ (files[s].cells # <<>> \/ files[s].start = start)
    THEN files
    ELSE WithSegment(files, s, EmptySegment(start))

(* write_all in append mode: the bytes go to the end of the file, wherever *)
(* the writer believes that is.                                            *)
AppendCell(files, s, cell) == [files EXCEPT ![s].cells = Append(@, cell)]

(* sync_data is forgotten.                                                 *)
SyncSegmentWrong(files, s) == files
SyncSegment(files, s) == [files EXCEPT ![s].synced = Len(files[s].cells)]

(* set_len: cut the file, or extend it with zeros.                         *)
SetLen(cells, n) ==
  IF n <= Len(cells) THEN SubSeq(cells, 1, n)
                     ELSE cells \o [i \in 1..(n - Len(cells)) |-> Zero]

(* set_len without sync_data; no set_len; set_len to the bare header.      *)
TruncateUnsyncedWrong(files, s, n) == [files EXCEPT ![s].cells = SetLen(@, n)]
TruncateNothingWrong(files, s, n) == files
TruncateAllWrong(files, s, n) == [files EXCEPT ![s].cells = <<>>, ![s].synced = 0]

(* set_len followed by sync_data.                                          *)
Truncate(files, s, n) ==
  [files EXCEPT ![s] = [start |-> @.start, cells |-> SetLen(@.cells, n), synced |-> n]]

(* valid_offset of a scan: where the last whole frame ends.                *)
ValidOffset(f, n) == FrameIndexes(f) = 1..n

(* remove_segments_covered_by_checkpoint, and the same with the segment    *)
(* the checkpoint lies in.                                                 *)
CoveredWrong(files, position) == {s \in DOMAIN files : s <= position.segment}
Covered(files, position) ==
  {s \in DOMAIN files : /\ s < position.segment
                        /\ \A i \in FrameIndexes(files[s]) :
                             files[s].cells[i].lsn <= position.lsn}
RemoveCovered(files, position) == WithoutSegments(files, Covered(files, position))
=============================================================================
