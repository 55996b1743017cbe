----------------------------- MODULE WalWriter -----------------------------
(***************************************************************************)
(* The WAL writer of src/src/wal/mod.rs: group commit under one mutex,     *)
(* segment rotation, rollback of a failed flush, crashes, recovery, and a  *)
(* replay reader that takes no lock and moves the checkpoint.              *)
(*                                                                         *)
(* The mutex serialises appenders and the flush thread but neither the     *)
(* reader nor a crash, so a flush is a sequence of steps (pc) and every    *)
(* other operation on the state is one step taken while pc = "idle".       *)
(***************************************************************************)
EXTENDS WalFiles

CONSTANTS FlushRecords,      \* wal.write.flush_records, at least 1
          SegmentMaxFrames,  \* wal.write.segment_max_bytes, in frames
          NoSync,            \* wal.write.no_sync
          Faults,            \* what may go wrong, a subset of FaultKinds
          MaxCrashes         \* bound on the restarts explored

FaultKinds == {"space", "write", "sync", "undo", "crash", "power"}

ASSUME WriterAssumption ==
  /\ FlushRecords \in Nat \ {0}
  /\ SegmentMaxFrames \in Nat \ {0}
  /\ NoSync \in BOOLEAN
  /\ Faults \subseteq FaultKinds
  /\ MaxCrashes \in Nat

VARIABLES
  files,       \* the WAL directory
  checkpoint,  \* checkpoint.json
  up,          \* the process runs and holds wal.lock
  segment,     \* WalWriterState.segment_id
  offset,      \* WalWriterState.offset
  nextLsn,     \* WalWriterState.next_lsn
  buffered,    \* WalWriterState.buffered; during a flush, the taken batch
  pc,          \* where flush_buffer_locked stands
  written,     \* frames of the batch written so far
  touched,     \* touched_segments still to sync
  rollback,    \* rollback_segment and rollback_offset
  reply,       \* what each record's sender knows
  delivered,   \* records replay has carried past the checkpoint
  crashes      \* restarts so far

disk == <<files, checkpoint>>
flushing == <<pc, written, touched, rollback>>
vars == <<files, checkpoint, up, segment, offset, nextLsn, buffered, pc, written, touched,
          rollback, reply, delivered, crashes>>

Buffered == [lsn : Nat, rec : Records]
Replies == {"none", "pending", "ok", "err", "lost"}
Phases == {"idle", "write", "sync", "truncate", "remove"}

TypeOK ==
  /\ IsDirectory(files)
  /\ checkpoint \in Position
  /\ up \in BOOLEAN
  /\ segment \in Nat \ {0}
  /\ offset \in Nat
  /\ nextLsn \in Nat
  /\ buffered \in Seq(Buffered)
  /\ pc \in Phases
  /\ pc # "idle" => buffered # <<>>
  /\ written \in 0..Len(buffered)
  /\ touched \in SUBSET (Nat \ {0})
  /\ rollback \in [segment : Nat \ {0}, offset : Nat]
  /\ reply \in [Records -> Replies]
  /\ delivered \in SUBSET Records
  /\ crashes \in Nat

Init ==
  /\ files = [s \in {FirstSegmentId} |-> EmptySegment(1)]
  /\ checkpoint = NoCheckpoint
  /\ up = TRUE
  /\ segment = FirstSegmentId
  /\ offset = 0
  /\ nextLsn = 1
  /\ buffered = <<>>
  /\ pc = "idle"
  /\ written = 0
  /\ touched = {}
  /\ rollback = [segment |-> FirstSegmentId, offset |-> 0]
  /\ reply = [r \in Records |-> "none"]
  /\ delivered = {}
  /\ crashes = 0

-----------------------------------------------------------------------------
(* Appending and starting a flush.                                         *)

StartFlush ==
  /\ pc' = "write"
  /\ written' = 0
  /\ touched' = {}
  /\ rollback' = [segment |-> segment, offset |-> offset]

(* Senders that wait for this flush: with no_sync only the one whose       *)
(* append triggered it.                                                    *)
AnswerWrong(answer) == UNCHANGED reply
Answer(answer) ==
  reply' = [r \in Records |->
              IF reply[r] = "pending" /\ \E i \in 1..Len(buffered) : buffered[i].rec = r
                THEN answer ELSE reply[r]]

(* append: the record takes the next LSN and joins the buffer; the one     *)
(* that fills it flushes before releasing the mutex.                       *)
AppendRecord(r) ==
  /\ up /\ pc = "idle"
  /\ reply[r] = "none"
  /\ buffered' = Append(buffered, [lsn |-> nextLsn, rec |-> r])
  /\ nextLsn' = nextLsn + 1
  /\ IF Len(buffered) + 1 >= FlushRecords
       THEN StartFlush /\ reply' = [reply EXCEPT ![r] = "pending"]
       ELSE /\ UNCHANGED flushing
            /\ reply' = [reply EXCEPT ![r] = IF NoSync THEN "ok" ELSE "pending"]
  /\ UNCHANGED <<disk, up, segment, offset, delivered, crashes>>

(* The flush thread wakes up, or the last handle is dropped.               *)
FlushTick ==
  /\ up /\ pc = "idle"
  /\ buffered # <<>>
  /\ StartFlush
  /\ UNCHANGED <<disk, up, segment, offset, nextLsn, buffered, reply, delivered, crashes>>

-----------------------------------------------------------------------------
(* flush_buffer_locked, one frame at a time.                               *)

MustRotate == offset > 0 /\ offset + 1 > SegmentMaxFrames

NextFrame == buffered[written + 1]

(* append_frame_locked moves to a new segment whose header names the LSN   *)
(* of the frame about to be written.                                       *)
Rotate ==
  /\ pc = "write" /\ written < Len(buffered)
  /\ MustRotate
  /\ segment' = segment + 1
  /\ offset' = 0
  /\ files' = EnsureSegment(files, segment + 1, NextFrame.lsn)
  /\ UNCHANGED <<checkpoint, up, nextLsn, buffered, flushing, reply, delivered, crashes>>

(* The new segment cannot be created: the writer already points at it.     *)
RotateFails ==
  /\ pc = "write" /\ written < Len(buffered)
  /\ MustRotate
  /\ "space" \in Faults
  /\ segment' = segment + 1
  /\ offset' = 0
  /\ pc' = "truncate"
  /\ UNCHANGED <<disk, up, nextLsn, buffered, written, touched, rollback, reply, delivered, crashes>>

WriteFrame ==
  /\ pc = "write" /\ written < Len(buffered)
  /\ ~MustRotate
  /\ segment \in DOMAIN files
  /\ files' = AppendCell(files, segment, Frame(NextFrame.lsn, NextFrame.rec))
  /\ offset' = offset + 1
  /\ written' = written + 1
  /\ touched' = touched \cup {segment}
  /\ pc' = IF written + 1 = Len(buffered) THEN "sync" ELSE "write"
  /\ UNCHANGED <<checkpoint, up, segment, nextLsn, buffered, rollback, reply, delivered, crashes>>

(* ensure_disk_space refuses the frame, the segment is no longer there to  *)
(* open, or write_all stops inside the frame.                              *)
WriteFails ==
  /\ pc = "write" /\ written < Len(buffered)
  /\ ~MustRotate
  /\ \/ "space" \in Faults /\ UNCHANGED files
     \/ segment \notin DOMAIN files /\ UNCHANGED files
     \/ /\ "write" \in Faults /\ segment \in DOMAIN files
        /\ files' = AppendCell(files, segment, Torn)
  /\ pc' = "truncate"
  /\ UNCHANGED <<checkpoint, up, segment, offset, nextLsn, buffered, written, touched, rollback,
                 reply, delivered, crashes>>

(* touched_segments is a BTreeSet: the oldest segment is synced first.     *)
SyncNext ==
  /\ pc = "sync"
  /\ \E s \in touched :
       /\ \A t \in touched : s <= t
       /\ s \in DOMAIN files
       /\ files' = SyncSegment(files, s)
       /\ touched' = touched \ {s}
  /\ UNCHANGED <<checkpoint, up, segment, offset, nextLsn, buffered, pc, written, rollback,
                 reply, delivered, crashes>>

(* sync_data fails, or the segment is gone: cleanup takes no lock either.  *)
SyncFails ==
  /\ pc = "sync" /\ touched # {}
  /\ "sync" \in Faults \/ ~ (touched \subseteq DOMAIN files)
  /\ pc' = "truncate"
  /\ UNCHANGED <<disk, up, segment, offset, nextLsn, buffered, written, touched, rollback,
                 reply, delivered, crashes>>

(* Every touched segment is durable: answer the senders, free the mutex.   *)
FlushDone ==
  /\ pc = "sync" /\ touched = {}
  /\ Answer("ok")
  /\ buffered' = <<>>
  /\ written' = 0
  /\ pc' = "idle"
  /\ UNCHANGED <<disk, up, segment, offset, nextLsn, touched, rollback, delivered, crashes>>

-----------------------------------------------------------------------------
(* Rolling a failed flush back.                                            *)

(* truncate_after, first half: set_len on the segment the flush began in.  *)
UndoTruncate ==
  /\ pc = "truncate"
  /\ rollback.segment \in DOMAIN files
  /\ files' = Truncate(files, rollback.segment, rollback.offset)
  /\ pc' = "remove"
  /\ UNCHANGED <<checkpoint, up, segment, offset, nextLsn, buffered, written, touched, rollback,
                 reply, delivered, crashes>>

(* The buffer after a rollback: senders that wait are refused and their    *)
(* LSNs reused; a buffer nobody waits on is kept with its LSNs.            *)
HasWaitersWrong == TRUE
HasWaiters == ~NoSync

RolledBackLsnWrong == nextLsn
RolledBackLsn == IF HasWaiters THEN buffered[1].lsn ELSE nextLsn

(* truncate_after, second half: later segments go, then the in-memory      *)
(* state is restored and the senders hear of the failure.                  *)
UndoRemove ==
  /\ pc = "remove"
  /\ files' = WithoutSegments(files, (rollback.segment + 1)..segment)
  /\ segment' = rollback.segment
  /\ offset' = rollback.offset
  /\ nextLsn' = RolledBackLsn
  /\ buffered' = IF HasWaiters THEN <<>> ELSE buffered
  /\ Answer("err")
  /\ written' = 0
  /\ touched' = {}
  /\ pc' = "idle"
  /\ UNCHANGED <<checkpoint, up, rollback, delivered, crashes>>

(* truncate_after itself fails, or its segment is gone: the ? returns      *)
(* before anything in memory is restored, and the taken buffer is dropped, *)
(* which closes the channels of its senders.                               *)
UndoFails ==
  /\ \/ pc \in {"truncate", "remove"} /\ "undo" \in Faults
     \/ pc = "truncate" /\ rollback.segment \notin DOMAIN files
  /\ Answer("err")
  /\ buffered' = <<>>
  /\ written' = 0
  /\ touched' = {}
  /\ pc' = "idle"
  /\ UNCHANGED <<disk, up, segment, offset, nextLsn, rollback, delivered, crashes>>

-----------------------------------------------------------------------------
(* The reader: the replay loop, with a window of one record, sinks that    *)
(* commit and a checkpoint written for each record.  It reads what write   *)
(* has put in the file, synced or not.                                     *)
ReplayAdvance ==
  LET from == ReplayStart(files, checkpoint)
      rest == EntriesAfter(files, from)
  IN
  /\ up
  /\ ~ReadFails(files, from)
  /\ \E e \in rest :
       /\ \A f \in rest : e = f \/ Before(e, f)
       /\ from # NoCheckpoint => e.lsn = from.lsn + 1
       /\ checkpoint' = NextPosition(e)
       /\ files' = RemoveCovered(files, NextPosition(e))
       /\ delivered' = delivered \cup {e.rec}
  /\ UNCHANGED <<up, segment, offset, nextLsn, buffered, flushing, reply, crashes>>

-----------------------------------------------------------------------------
(* Crashes and recovery.                                                   *)

(* What a power failure may leave of a file: all of it, or its synced      *)
(* cells, any part of the others, and perhaps a piece of the next one.     *)
Survivors(f) ==
  {[start |-> f.start, cells |-> f.cells, synced |-> Len(f.cells)]} \cup
  {[start |-> f.start, cells |-> SubSeq(f.cells, 1, n) \o tail, synced |-> n + Len(tail)] :
     n \in f.synced..(Len(f.cells) - 1), tail \in {<<>>, <<Torn>>}}

LoseMemory ==
  /\ up' = FALSE
  /\ buffered' = <<>>
  /\ pc' = "idle"
  /\ written' = 0
  /\ touched' = {}
  /\ reply' = [r \in Records |-> IF reply[r] = "pending" THEN "lost" ELSE reply[r]]
  /\ crashes' = crashes + 1

(* The process dies; what it wrote stays in the page cache.                *)
Crash ==
  /\ up /\ crashes < MaxCrashes
  /\ "crash" \in Faults
  /\ LoseMemory
  /\ UNCHANGED <<disk, segment, offset, nextLsn, rollback, delivered>>

PowerLoss ==
  /\ up /\ crashes < MaxCrashes
  /\ "power" \in Faults
  /\ LoseMemory
  /\ files' \in {g \in [DOMAIN files -> UNION {Survivors(files[s]) : s \in DOMAIN files}] :
                   \A s \in DOMAIN files : g[s] \in Survivors(files[s])}
  /\ UNCHANGED <<checkpoint, segment, offset, nextLsn, rollback, delivered>>

(* recover_active_segment_id: the last file, or the segment after the one  *)
(* the checkpoint is in.  recover_next_lsn: one more than every LSN on     *)
(* disk and in the checkpoint, which is ahead of the log when a frame it   *)
(* covers was lost before it was synced; in the bug only the log counts.   *)
SegmentCandidates == DOMAIN files \cup {checkpoint.segment + 1}
UsedLsnsWrong == Lsns(files) \cup {0}
UsedLsns == Lsns(files) \cup {checkpoint.lsn}

(* WalWriter::new.  A segment that does not scan fails it; the start_lsn of *)
(* the active segment is looked at before its tail is repaired.            *)
Recover ==
  /\ ~up
  /\ \A s \in DOMAIN files : ~ScanFails(files[s])
  /\ \E active \in SegmentCandidates, top \in UsedLsns :
       LET opened == EnsureSegment(files, active, top + 1) IN
       /\ \A s \in SegmentCandidates : s <= active
       /\ \A l \in UsedLsns : l <= top
       /\ \E n \in 0..Len(opened[active].cells) :
            /\ ValidOffset(opened[active], n)
            /\ files' = Truncate(opened, active, n)
            /\ offset' = n
       /\ segment' = active
       /\ nextLsn' = top + 1
  /\ up' = TRUE
  /\ UNCHANGED <<checkpoint, buffered, flushing, reply, delivered, crashes>>

-----------------------------------------------------------------------------
FlushStep ==
  \/ Rotate \/ WriteFrame \/ SyncNext \/ FlushDone
  \/ UndoTruncate \/ UndoRemove

Fault ==
  \/ RotateFails \/ WriteFails \/ SyncFails \/ UndoFails
  \/ Crash \/ PowerLoss

WriterNext ==
  \/ \E r \in Records : AppendRecord(r)
  \/ FlushTick
  \/ FlushStep
  \/ Fault
  \/ Recover

Next == WriterNext \/ ReplayAdvance

Spec == Init /\ [][Next]_vars

(* The writer while replay makes no progress: no sink is active, or one    *)
(* keeps failing.                                                          *)
WriterSpec == Init /\ [][WriterNext]_vars

(* The same where the process does not die between the two halves of a     *)
(* rollback: the directory is then cut but still has its later segments.   *)
WholeRollback == ~ (pc = "remove" /\ Crash)
RollbackSpec == Init /\ [][WriterNext /\ WholeRollback]_vars

(* The flush thread runs on a timer, a thread inside a flush goes on, and  *)
(* a supervisor restarts the process.                                      *)
Fairness ==
  /\ WF_vars(FlushTick)
  /\ WF_vars(FlushStep \/ RotateFails \/ WriteFails \/ SyncFails \/ UndoFails)
  /\ WF_vars(Recover)

FairSpec == Spec /\ Fairness

-----------------------------------------------------------------------------
(* Properties.                                                             *)

Idle == up /\ pc = "idle"

(* What a sync_data has put on disk where a scan finds it.                 *)
Durable(r) ==
  \E e \in Entries(files) : e.rec = r /\ e.index <= files[e.segment].synced

(* "/ingest returns 200 only after ... segment sync_data() success": in    *)
(* the default mode a record answered ok survives every crash, until       *)
(* replay has carried it past the checkpoint.                              *)
AckedDurable ==
  ~NoSync => \A r \in Records : reply[r] = "ok" => r \in delivered \/ Durable(r)

(* No acknowledged record lies where replay will not look: it has been     *)
(* carried past the checkpoint or it is read after it.                     *)
AckedReachable ==
  ~NoSync => \A r \in Records :
    reply[r] = "ok" =>
      r \in delivered \/ \E e \in EntriesAfter(files, checkpoint) : e.rec = r

(* A sender that was refused sends again; the refused record must not      *)
(* come out of the log as well.                                            *)
RefusedNotLogged ==
  ~NoSync => \A r \in Records :
    reply[r] = "err" => r \notin delivered /\ \A e \in Entries(files) : e.rec # r

(* A power failure may keep the frames of a later segment without those of *)
(* an earlier one, and may tear a frame.                                   *)
PowerKept == crashes = 0 \/ "power" \notin Faults

(* Replay stops for good at a missing LSN, so what it has left to read     *)
(* carries on from where it starts without a hole, in reading order; once  *)
(* truncate_after has cut the first segment, only after it has also        *)
(* removed the later ones.                                                 *)
LogHasNoGap ==
  LET from == ReplayStart(files, checkpoint)
      rest == EntriesAfter(files, from)
  IN
  PowerKept /\ pc # "remove" =>
    /\ \A e, f \in rest :
         /\ Before(e, f) => e.lsn < f.lsn
         /\ \A n \in e.lsn..f.lsn : \E g \in rest : g.lsn = n
    /\ from # NoCheckpoint /\ rest # {} => \E e \in rest : e.lsn = from.lsn + 1

(* Between flushes the buffer carries on from log and checkpoint: no LSN   *)
(* is given out twice and none is skipped, whatever failed or was lost     *)
(* before, and whichever of the two is ahead.                              *)
BufferFollowsLog ==
  LET used == Lsns(files) \cup {checkpoint.lsn} IN
  Idle =>
    /\ \A i \in 1..Len(buffered) : buffered[i].lsn + Len(buffered) + 1 = nextLsn + i
    /\ \A l \in used : l + Len(buffered) < nextLsn
    /\ \E l \in used : l + Len(buffered) + 1 = nextLsn

(* Between flushes the writer's idea of the end of the log is the end of   *)
(* the log: truncate_after cuts where the last good frame ends.            *)
WriterAtEnd ==
  Idle =>
    /\ segment \in DOMAIN files
    /\ \A s \in DOMAIN files : s <= segment
    /\ offset = Len(files[segment].cells)

(* Startup and every replay pass fail while a segment does not scan or the *)
(* checkpoint points past the end of its segment.                          *)
LogReadable == ~ReadFails(files, ReplayStart(files, checkpoint))

(* Short of a power failure that never happens, if the process does not    *)
(* die between the halves of a rollback: rollback, recovery and cleanup    *)
(* leave a log that replay and the next start can read.                    *)
LogStaysReadable == PowerKept => LogReadable

(* With no_sync a crash may cost the unflushed batch, and nothing else     *)
(* may: while the process runs an accepted record is buffered or logged.   *)
AcceptedKept ==
  NoSync /\ crashes = 0 =>
    \A r \in Records :
      reply[r] = "ok" =>
        \/ r \in delivered
        \/ \E e \in Entries(files) : e.rec = r
        \/ \E i \in 1..Len(buffered) : buffered[i].rec = r

(* A frame an acknowledgement vouches for is never cut or overwritten; it  *)
(* leaves the disk only in a segment the checkpoint has passed.            *)
Acked(r) == ~NoSync /\ r \in Records /\ reply[r] = "ok"

AckedFrameStays ==
  [][\A s \in DOMAIN files : \A i \in FrameIndexes(files[s]) :
       Acked(files[s].cells[i].rec) =>
         \/ s < checkpoint'.segment
         \/ /\ s \in DOMAIN files'
            /\ i \in FrameIndexes(files'[s])
            /\ files'[s].cells[i] = files[s].cells[i]]_vars

(* The inductive invariant behind AckedFrameStays, in the default mode:    *)
(* what each frame a scan finds tells of its sender, of the writer's end   *)
(* of the log and of the point a failed flush rolls back to.               *)
NotAfter(s, i, seg, off) == s < seg \/ (s = seg /\ i <= off)

FrameInv(s, i, r) ==
  /\ reply[r] # "none"
  /\ up => NotAfter(s, i, segment, offset)
  /\ pc = "idle" => reply[r] # "pending"
  /\ pc \in {"write", "sync"} /\ reply[r] = "pending" =>
       s \in touched \/ i <= files[s].synced
  /\ reply[r] = "ok" => i <= files[s].synced
  /\ pc # "idle" /\ reply[r] = "ok" => NotAfter(s, i, rollback.segment, rollback.offset)
  /\ pc = "remove" /\ s = rollback.segment => i <= rollback.offset

FramesInv ==
  \A s \in DOMAIN files : \A i \in FrameIndexes(files[s]) : FrameInv(s, i, files[s].cells[i].rec)

DownInv == ~up => pc = "idle"

PendingInv ==
  \A r \in Records : reply[r] = "pending" <=> \E k \in 1..Len(buffered) : buffered[k].rec = r

AckInv == ~NoSync => DownInv /\ PendingInv /\ FramesInv

(* The invariant behind AckedDurable and WriterAtEnd, where replay makes    *)
(* no progress and no rollback fails: the writer's end of the log is the   *)
(* end of the last file, nothing but frames comes before it, and what a    *)
(* flush has written or an acknowledgement promised is found by a scan.    *)
OnlyFrames(f, n) == \A j \in 1..n : f.cells[j].kind = "frame"

TailInv ==
  /\ segment \in DOMAIN files
  /\ offset = Len(files[segment].cells)
  /\ OnlyFrames(files[segment], offset)

RollbackInv ==
  /\ rollback.segment \in DOMAIN files
  /\ rollback.offset <= Len(files[rollback.segment].cells)
  /\ OnlyFrames(files[rollback.segment], rollback.offset)
  /\ pc = "remove" => rollback.offset = Len(files[rollback.segment].cells)

EndInv ==
  /\ DownInv
  /\ up => \A s \in DOMAIN files : s <= segment
  /\ up /\ pc \in {"idle", "write", "sync"} => TailInv
  /\ pc # "idle" => RollbackInv

Logged(r) == \E s \in DOMAIN files : \E i \in FrameIndexes(files[s]) : files[s].cells[i].rec = r

LoggedInv ==
  ~NoSync =>
    /\ pc \in {"write", "sync"} => \A k \in 1..written : Logged(buffered[k].rec)
    /\ pc = "sync" => written = Len(buffered)
    /\ \A r \in Records : reply[r] = "ok" => Logged(r)

DurabilityInv == checkpoint = NoCheckpoint /\ AckInv /\ EndInv /\ LoggedInv

(* What replay has still to read, as the queue of IngestLog: the records   *)
(* after the checkpoint, in reading order.                                 *)
RecordsOf(entries) == {e.rec : e \in entries}
OrderOf(entries) ==
  {p \in Records \X Records : \E e, f \in entries : Before(e, f) /\ p = <<e.rec, f.rec>>}

Promise ==
  INSTANCE IngestLog WITH
    answer <- reply, done <- delivered,
    log <- RecordsOf(EntriesAfter(files, checkpoint)),
    order <- OrderOf(EntriesAfter(files, checkpoint))

(* The writer keeps the promise of the WAL: what is acknowledged is in the *)
(* log and stays there, in order, until replay is through with it          *)
(* (wal/mod.rs: append, flush, rollback, recovery, segment cleanup).       *)
KeepsPromise == Promise!Spec

(* Every append is answered, if only by the crash of the process.          *)
EveryAppendAnswered == \A r \in Records : reply[r] = "pending" ~> reply[r] # "pending"
=============================================================================
