----------------------------- MODULE WalReplay -----------------------------
(***************************************************************************)
(* The replay loop of src/src/wal/replay.rs: one task that reads the log   *)
(* from the checkpoint, runs the processor on each record, collects the    *)
(* deliveries of a window by sink, sends them sink after sink and moves    *)
(* the checkpoint; what it cannot deliver it quarantines.                  *)
(*                                                                         *)
(* The pass is a sequence of steps (pc): records are appended, sinks are   *)
(* enabled and disabled, timers run and the process dies between any two.  *)
(* The writer is the one WalWriter describes at its best: an append is one *)
(* durable step.  What it does when it fails is WalWriter's subject.       *)
(***************************************************************************)
EXTENDS WalFiles

CONSTANTS Sinks,             \* sink ids; numbers, because sinks are sent in id order
          Initial,           \* the sinks enabled at first
          Latest,            \* the sinks with auto_offset_reset = latest
          Timed,             \* the sinks with a batch timeout above zero
          Plans,             \* what the processor may emit for a record: sets of targets
          BatchEvents,       \* sink_batch.max_events
          WindowRecords,     \* wal.replay.max_records
          CheckpointRecords, \* wal.checkpoint.flush_records
          ReadLimit,         \* REPLAY_BATCH_SIZE
          SegmentMaxFrames,  \* wal.write.segment_max_bytes, in frames
          Faults,            \* what may go wrong
          MaxFailures,       \* bound on failed sends and checkpoint writes
          MaxCrashes,        \* bound on restarts
          MaxToggles         \* bound on the changes an administrator makes

(* The target of a record that cannot be delivered: invalid JSON, a        *)
(* project that is gone, a processor error, a sink that never existed.     *)
BadTarget == 0

ASSUME ReplayAssumption ==
  /\ Sinks \subseteq Nat \ {BadTarget} /\ IsFiniteSet(Sinks)
  /\ Initial \subseteq Sinks /\ Latest \subseteq Sinks /\ Timed \subseteq Sinks
  /\ Plans \subseteq SUBSET (Sinks \cup {BadTarget})
  /\ {BatchEvents, WindowRecords, CheckpointRecords, ReadLimit, SegmentMaxFrames} \subseteq Nat \ {0}
  /\ Faults \subseteq {"sink", "checkpoint", "gap"}
  /\ {MaxFailures, MaxCrashes, MaxToggles} \subseteq Nat

VARIABLES
  files,        \* the WAL directory
  nextLsn,      \* the writer's next LSN
  plan,         \* what the processor emits for each record
  lsnOf,        \* the LSN of each record; 0 before it is appended
  checkpoint,   \* checkpoint.json
  up,           \* the process runs
  active,       \* the sinks of the current router
  since,        \* pending_since_by_sink: none, running or elapsed
  pc,           \* where the pass stands
  cp,           \* ReplayCheckpointState.checkpoint
  unread,       \* entries read and not yet looked at
  expected,     \* expected_lsn; 0 for None
  batch,        \* replay_batch
  sending,      \* sinks the window still has to be sent to
  after,        \* where the pass goes on once the window is through
  pending,      \* pending_checkpoint
  pendingCount, \* pending_records
  delivered,    \* how often each sink committed each record, counted to 2
  quarantined,  \* records written to the quarantine log
  disturbed,    \* a pass has failed, or was put off with a position it had
                \* not stored, or the process has died
  failures, crashes, toggles

log == <<files, nextLsn, plan, lsnOf>>
pass == <<pc, cp, unread, expected, batch, sending, after, pending, pendingCount>>
outcome == <<delivered, quarantined>>
world == <<up, active, failures, crashes, toggles>>
vars == <<log, checkpoint, since, pass, outcome, disturbed, world>>

EntrySet == [segment : Nat, index : Nat, lsn : Nat, rec : Records]

TypeOK ==
  /\ IsDirectory(files)
  /\ nextLsn \in Nat
  /\ plan \in [Records -> Plans \cup {{}}]
  /\ lsnOf \in [Records -> Nat]
  /\ checkpoint \in Position
  /\ up \in BOOLEAN
  /\ active \in SUBSET Sinks
  /\ since \in [Sinks -> {"none", "running", "elapsed"}]
  /\ pc \in {"idle", "read", "scan", "send", "store", "cleanup", "quarantine", "fail", "finish"}
  /\ cp \in Position
  /\ unread \subseteq EntrySet
  /\ expected \in Nat
  /\ batch \subseteq EntrySet
  /\ sending \in SUBSET Sinks
  /\ after \in {"idle", "scan", "quarantine", "fail", "finish"}
  /\ pending \in Position
  /\ pendingCount \in Nat
  /\ delivered \in [Sinks -> [Records -> 0..2]]
  /\ quarantined \in SUBSET Records
  /\ disturbed \in BOOLEAN
  /\ {failures, crashes, toggles} \subseteq Nat

-----------------------------------------------------------------------------
(* Where replay starts.                                                    *)

(* pipeline_auto_offset_reset: latest unless an enabled sink asks for      *)
(* earliest, so latest too when no sink is enabled.                        *)
ResetToLatest == active \subseteq Latest

(* read_checkpoint: a checkpoint that is missing or lies before the first  *)
(* segment that holds a frame is reset.  A name ending in Wrong is a bug   *)
(* planted for the mutation runs: here the last segment is compared.       *)
NeedsResetWrong(fs, position) ==
  position = NoCheckpoint \/ \E e \in Entries(fs) : position.segment < e.segment
NeedsReset(fs, position) == position = NoCheckpoint \/ BeforeFloor(fs, position)

(* Where a pass starts, and what that leaves in the checkpoint file.       *)
StartPosition(fs, position) ==
  IF ~NeedsReset(fs, position) THEN position
  ELSE IF ResetToLatest THEN TailPosition(fs) ELSE NoCheckpoint

StoredPosition(fs, position) ==
  IF NeedsReset(fs, position) /\ ResetToLatest THEN TailPosition(fs) ELSE position

(* The state after the first start with an empty directory.                *)
Init ==
  /\ files = [s \in {FirstSegmentId} |-> EmptySegment(1)]
  /\ nextLsn = 1
  /\ plan = [r \in Records |-> {}]
  /\ lsnOf = [r \in Records |-> 0]
  /\ active = Initial
  /\ checkpoint = IF ResetToLatest THEN [lsn |-> 0, segment |-> FirstSegmentId, offset |-> 0]
                                   ELSE NoCheckpoint
  /\ up = TRUE
  /\ since = [s \in Sinks |-> "none"]
  /\ pc = "idle" /\ cp = NoCheckpoint /\ unread = {} /\ expected = 0
  /\ batch = {} /\ sending = {} /\ after = "idle"
  /\ pending = NoCheckpoint /\ pendingCount = 0
  /\ delivered = [s \in Sinks |-> [r \in Records |-> 0]]
  /\ quarantined = {}
  /\ disturbed = FALSE
  /\ failures = 0 /\ crashes = 0 /\ toggles = 0

-----------------------------------------------------------------------------
(* The rest of the process, and the world.                                 *)

(* WalWriter's append: rotate a full segment, write the frame, sync.  With *)
(* the gap fault the LSN of a refused batch is missing from the log.       *)
AppendRecord(r, p) ==
  LET last == LastSegment(files)
      full == Len(files[last].cells) >= SegmentMaxFrames
      segment == IF full THEN last + 1 ELSE last
  IN
  /\ up
  /\ lsnOf[r] = 0
  /\ \E lsn \in {nextLsn} \cup {n \in {nextLsn + 1} : "gap" \in Faults /\ files[last].cells # <<>>} :
       LET opened == IF full THEN EnsureSegment(files, segment, lsn) ELSE files IN
       /\ files' = SyncSegment(AppendCell(opened, segment, Frame(lsn, r)), segment)
       /\ lsnOf' = [lsnOf EXCEPT ![r] = lsn]
       /\ nextLsn' = lsn + 1
  /\ plan' = [plan EXCEPT ![r] = p]
  /\ UNCHANGED <<checkpoint, since, pass, outcome, disturbed, world>>

(* An administrator enables or disables a sink and the refresh loop swaps  *)
(* the router.                                                             *)
ToggleSink(s) ==
  /\ up /\ toggles < MaxToggles
  /\ active' = IF s \in active THEN active \ {s} ELSE active \cup {s}
  /\ toggles' = toggles + 1
  /\ UNCHANGED <<log, checkpoint, since, pass, outcome, disturbed, up, failures, crashes>>

(* sink_batch.timeout has passed since the sink's first deferral.          *)
BatchTimeout(s) ==
  /\ up
  /\ since[s] = "running"
  /\ since' = [since EXCEPT ![s] = "elapsed"]
  /\ UNCHANGED <<log, checkpoint, pass, outcome, disturbed, world>>

(* A pass that returns forgets everything but pending_since_by_sink.       *)
PassOver ==
  /\ pc' = "idle" /\ cp' = NoCheckpoint /\ unread' = {} /\ expected' = 0
  /\ batch' = {} /\ sending' = {} /\ after' = "idle"
  /\ pending' = NoCheckpoint /\ pendingCount' = 0

Crash ==
  /\ up /\ crashes < MaxCrashes
  /\ up' = FALSE
  /\ crashes' = crashes + 1
  /\ disturbed' = TRUE
  /\ since' = [s \in Sinks |-> "none"]
  /\ PassOver
  /\ UNCHANGED <<log, checkpoint, outcome, active, failures, toggles>>

(* WalWriter::new opens the active segment, then                           *)
(* initialize_replay_checkpoint reads or resets the checkpoint.            *)
Restart ==
  LET segments == DOMAIN files \cup {checkpoint.segment + 1}
      lsns == Lsns(files) \cup {checkpoint.lsn}
  IN
  /\ ~up /\ up' = TRUE
  /\ \E segment \in segments, top \in lsns :
       /\ \A s \in segments : s <= segment
       /\ \A l \in lsns : l <= top
       /\ files' = EnsureSegment(files, segment, top + 1)
       /\ nextLsn' = top + 1
  /\ checkpoint' = StoredPosition(files', checkpoint)
  /\ UNCHANGED <<plan, lsnOf, since, pass, outcome, disturbed, active, failures, crashes, toggles>>

-----------------------------------------------------------------------------
(* replay_once_inner: opening a pass and reading.                          *)

OpenPass ==
  /\ up /\ pc = "idle"
  /\ active # {}
  /\ cp' = StartPosition(files, checkpoint)
  /\ checkpoint' = StoredPosition(files, checkpoint)
  /\ pc' = "read"
  /\ UNCHANGED <<log, since, unread, expected, batch, sending, after, pending, pendingCount,
                 outcome, disturbed, world>>

(* The first entries after the checkpoint, up to the read limit.           *)
ReadEntries ==
  LET rest == EntriesAfter(files, cp)
  IN  {e \in rest : Cardinality({f \in rest : Before(f, e)}) < ReadLimit}

ReadLog ==
  /\ pc = "read"
  /\ unread' = ReadEntries
  /\ expected' = IF cp = NoCheckpoint THEN 0 ELSE cp.lsn + 1
  /\ pc' = "scan"
  /\ UNCHANGED <<log, checkpoint, since, cp, batch, sending, after, pending, pendingCount,
                 outcome, disturbed, world>>

-----------------------------------------------------------------------------
(* replay_once_inner: one entry after the other.                           *)

(* The entries of a window the checkpoint does not cover, those among them *)
(* for one sink, and the sinks there is something for.  In the bug a sink  *)
(* with too few events is left out of the window.                          *)
Fresh(entries) == {e \in entries : e.lsn > cp.lsn}
Load(s, entries) == {e \in Fresh(entries) : s \in plan[e.rec]}
TargetsWrong(entries) ==
  {s \in Sinks : Load(s, entries) # {} /\ (s \in Timed => Cardinality(Load(s, entries)) >= BatchEvents)}
Targets(entries) == {s \in Sinks : Load(s, entries) # {}}

(* replay_batch_to_sinks: an empty window is through at once.  In the bug  *)
(* the record to quarantine does not wait for the window.                  *)
SendWindowWrong(entries, next) ==
  /\ batch' = entries
  /\ sending' = Targets(entries)
  /\ after' = next
  /\ pc' = IF entries = {} \/ next = "quarantine" THEN next ELSE "send"
SendWindow(entries, next) ==
  /\ batch' = entries
  /\ sending' = Targets(entries)
  /\ after' = next
  /\ pc' = IF entries = {} THEN next ELSE "send"

First(entries) == CHOOSE e \in entries : \A f \in entries : e = f \/ Before(e, f)

InSequenceWrong(e) == expected = 0 \/ e.lsn >= expected
InSequence(e) == expected = 0 \/ e.lsn = expected

Deliverable(e) == plan[e.rec] \subseteq active

(* Processor and sinks agree: the record joins the window, and a full      *)
(* window is sent.                                                         *)
TakeDeliverable ==
  LET e == First(unread) IN
  /\ pc = "scan" /\ unread # {}
  /\ InSequence(e) /\ Deliverable(e)
  /\ unread' = unread \ {e}
  /\ expected' = e.lsn + 1
  /\ IF Cardinality(batch) + 1 >= WindowRecords
       THEN SendWindow(batch \cup {e}, "scan")
       ELSE batch' = batch \cup {e} /\ UNCHANGED <<pc, sending, after>>
  /\ UNCHANGED <<log, checkpoint, since, cp, pending, pendingCount, outcome, disturbed, world>>

(* A record to quarantine, or a hole in the LSNs: what was collected       *)
(* before it is sent first.                                                *)
TakeOther ==
  LET e == First(unread) IN
  /\ pc = "scan" /\ unread # {}
  /\ \/ ~InSequence(e) /\ SendWindow(batch, "fail")
     \/ InSequence(e) /\ ~Deliverable(e) /\ SendWindow(batch, "quarantine")
  /\ UNCHANGED <<log, checkpoint, since, cp, unread, expected, pending, pendingCount,
                 outcome, disturbed, world>>

(* quarantine_replay_issue marks the entry handled.                        *)
Quarantine ==
  LET e == First(unread) IN
  /\ pc = "quarantine"
  /\ quarantined' = quarantined \cup {e.rec}
  /\ pending' = NextPosition(e)
  /\ pendingCount' = pendingCount + 1
  /\ unread' = unread \ {e}
  /\ expected' = e.lsn + 1
  /\ pc' = "scan"
  /\ UNCHANGED <<log, checkpoint, since, cp, batch, sending, after, delivered, disturbed, world>>

(* sinks_deferred_by_batch_timeout: the last window of a pass waits for    *)
(* more events if every one of its sinks may wait.                         *)
MayWait(s) ==
  /\ s \in Timed
  /\ Cardinality(Load(s, batch)) < BatchEvents
  /\ since[s] # "elapsed"

StartTimersWrong(sinks) == since' = [s \in sinks |-> "running"]
StartTimers(sinks) ==
  since' = [s \in Sinks |-> IF s \in sinks /\ since[s] = "none" THEN "running" ELSE since[s]]

Defer ==
  /\ pc = "scan" /\ unread = {}
  /\ Targets(batch) # {}
  /\ \A s \in Targets(batch) : MayWait(s)
  /\ StartTimers(Targets(batch))
  /\ disturbed' = (disturbed \/ pending # NoCheckpoint)
  /\ PassOver
  /\ UNCHANGED <<log, checkpoint, outcome, world>>

(* The first sink that may not wait ends the search; those before it have  *)
(* their timers started.                                                   *)
SendLast ==
  /\ pc = "scan" /\ unread = {}
  /\ Targets(batch) = {} \/ \E s \in Targets(batch) : ~MayWait(s)
  /\ StartTimers({s \in Targets(batch) : \A t \in Targets(batch) : t <= s => MayWait(t)})
  /\ SendWindow(batch, "finish")
  /\ UNCHANGED <<log, checkpoint, cp, unread, expected, pending, pendingCount, outcome,
                 disturbed, world>>

-----------------------------------------------------------------------------
(* replay_batch_to_sinks: sending a window.                                *)

NextSink == CHOOSE s \in sending : \A t \in sending : s <= t

Commit(s, entries) ==
  delivered' = [delivered EXCEPT ![s] =
    [r \in Records |-> IF @[r] < 2 /\ \E e \in entries : e.rec = r THEN @[r] + 1 ELSE @[r]]]

SendSink ==
  /\ pc = "send" /\ sending # {}
  /\ NextSink \in active
  /\ Commit(NextSink, Load(NextSink, batch))
  /\ sending' = sending \ {NextSink}
  /\ UNCHANGED <<log, checkpoint, since, pc, cp, unread, expected, batch, after, pending,
                 pendingCount, quarantined, disturbed, world>>

(* A sink that has left the router, or one that fails after committing     *)
(* some of the events, perhaps all of them.  In the bug the failure is     *)
(* logged and the next sink's turn comes.                                  *)
SendFailsWrong ==
  /\ pc = "send" /\ sending # {}
  /\ NextSink \notin active \/ ("sink" \in Faults /\ failures < MaxFailures)
  /\ failures' = IF NextSink \in active THEN failures + 1 ELSE failures
  /\ sending' = sending \ {NextSink}
  /\ UNCHANGED <<log, checkpoint, since, pc, cp, unread, expected, batch, after, pending,
                 pendingCount, outcome, disturbed, up, active, crashes, toggles>>
SendFails ==
  /\ pc = "send" /\ sending # {}
  /\ \/ NextSink \notin active /\ UNCHANGED <<delivered, failures>>
     \/ /\ "sink" \in Faults /\ failures < MaxFailures
        /\ failures' = failures + 1
        /\ \E e \in Load(NextSink, batch) :
             \/ Commit(NextSink, {f \in Load(NextSink, batch) : Before(f, e)})
             \/ Commit(NextSink, Load(NextSink, batch))
  /\ pc' = "fail"
  /\ UNCHANGED <<log, checkpoint, since, cp, unread, expected, batch, sending, after, pending,
                 pendingCount, quarantined, disturbed, up, active, crashes, toggles>>

(* Every sink has committed: the entries are pending, and the checkpoint   *)
(* is stored when enough are, or when flush_interval has passed.           *)
LastOf(entries) == CHOOSE e \in entries : \A f \in entries : e = f \/ Before(f, e)

WindowSent ==
  /\ pc = "send" /\ sending = {}
  /\ since' = [s \in Sinks |-> IF s \in Targets(batch) THEN "none" ELSE since[s]]
  /\ pending' = IF Fresh(batch) = {} THEN pending ELSE NextPosition(LastOf(Fresh(batch)))
  /\ pendingCount' = pendingCount + Cardinality(Fresh(batch))
  /\ batch' = {}
  /\ \/ pc' = "store"
     \/ pendingCount' < CheckpointRecords /\ pc' = after
  /\ UNCHANGED <<log, checkpoint, cp, unread, expected, sending, after, outcome, disturbed, world>>

(* The end of a pass stores what is pending, whatever the policy says.     *)
FinishWrong ==
  /\ pc = "finish"
  /\ pc' = "cleanup" /\ after' = "idle"
  /\ UNCHANGED <<log, checkpoint, since, cp, unread, expected, batch, sending, pending,
                 pendingCount, outcome, disturbed, world>>
Finish ==
  /\ pc = "finish"
  /\ pc' = "store" /\ after' = "idle"
  /\ UNCHANGED <<log, checkpoint, since, cp, unread, expected, batch, sending, pending,
                 pendingCount, outcome, disturbed, world>>

(* flush_pending_checkpoint: temp file, rename.                            *)
StoreCheckpoint ==
  /\ pc = "store"
  /\ IF pending = NoCheckpoint
       THEN UNCHANGED <<checkpoint, cp>>
       ELSE checkpoint' = pending /\ cp' = pending
  /\ pending' = NoCheckpoint /\ pendingCount' = 0
  /\ pc' = "cleanup"
  /\ UNCHANGED <<log, since, unread, expected, batch, sending, after, outcome, disturbed, world>>

(* cleanup_covered_segments, after which the pass goes on or returns.      *)
Cleanup ==
  /\ pc = "cleanup"
  /\ files' = RemoveCovered(files, cp)
  /\ IF after = "idle"
       THEN PassOver
       ELSE pc' = after /\ UNCHANGED <<cp, unread, expected, batch, sending, after, pending,
                                       pendingCount>>
  /\ UNCHANGED <<nextLsn, plan, lsnOf, checkpoint, since, outcome, disturbed, world>>

(* Writing fails, before the rename or when the directory is synced after  *)
(* it, or a covered segment cannot be removed.                             *)
StoreFails ==
  /\ pc \in {"store", "cleanup"}
  /\ "checkpoint" \in Faults /\ failures < MaxFailures
  /\ failures' = failures + 1
  /\ \/ UNCHANGED checkpoint
     \/ pc = "store" /\ pending # NoCheckpoint /\ checkpoint' = pending
  /\ pc' = "fail"
  /\ UNCHANGED <<log, since, cp, unread, expected, batch, sending, after, pending, pendingCount,
                 outcome, disturbed, up, active, crashes, toggles>>

(* The pass returns an error; the loop tries again after a delay.          *)
PassFails ==
  /\ pc = "fail"
  /\ disturbed' = TRUE
  /\ PassOver
  /\ UNCHANGED <<log, checkpoint, since, outcome, world>>

-----------------------------------------------------------------------------
Pass ==
  \/ OpenPass \/ ReadLog
  \/ TakeDeliverable \/ TakeOther \/ Quarantine \/ Defer \/ SendLast
  \/ SendSink \/ SendFails \/ WindowSent
  \/ Finish \/ StoreCheckpoint \/ Cleanup \/ StoreFails \/ PassFails

Next ==
  \/ \E r \in Records, p \in Plans : AppendRecord(r, p)
  \/ \E s \in Sinks : ToggleSink(s) \/ BatchTimeout(s)
  \/ Pass
  \/ Crash \/ Restart

Spec == Init /\ [][Next]_vars

(* The loop runs for ever, a timer that is left running elapses, and a     *)
(* supervisor restarts the process.                                        *)
Fairness ==
  /\ WF_vars(Pass)
  /\ \A s \in Sinks : WF_vars(BatchTimeout(s))
  /\ WF_vars(Restart)

FairSpec == Spec /\ Fairness

-----------------------------------------------------------------------------
(* Properties.                                                             *)

Logged(r) == lsnOf[r] > 0
Handled(r) == r \in quarantined \/ \A s \in plan[r] : s \in Sinks /\ delivered[s][r] > 0

(* "Advance the pipeline checkpoint only after every emitted sink batch    *)
(* reaches its sink-defined commit point": a record that is not handled    *)
(* is still in the log, where the next pass starts or later.  (No pass     *)
(* starts while no sink is enabled.)                                       *)
NothingSkipped ==
  active # {} => \A r \in Records :
    Logged(r) /\ ~Handled(r) =>
      \E e \in EntriesAfter(files, StartPosition(files, checkpoint)) : e.rec = r

(* A sink sees records in the order of the log: none is committed while an *)
(* earlier one it should have had is neither committed nor quarantined.    *)
SinkOrder ==
  \A s \in Sinks : \A a, b \in Records :
    /\ Logged(a) /\ lsnOf[a] < lsnOf[b] /\ s \in plan[a]
    /\ delivered[s][b] > 0
    => delivered[s][a] > 0 \/ a \in quarantined

(* Replay delivers twice only after a disturbance: no sink is sent a       *)
(* record again while every pass has succeeded, none was put off with a    *)
(* position it had not stored, and the process has lived.                  *)
OnceUndisturbed ==
  ~disturbed => \A s \in Sinks : \A r \in Records : delivered[s][r] < 2

(* What lies beyond a hole in the LSNs is not touched.                     *)
HoleBefore(r) ==
  \E a \in Records : \E n \in lsnOf[a]..lsnOf[r] :
    Logged(a) /\ \A b \in Records : lsnOf[b] # n

GapStops ==
  \A r \in Records :
    HoleBefore(r) => r \notin quarantined /\ \A s \in Sinks : delivered[s][r] = 0

(* The pass's idea of the log holds up while the log and the router move:  *)
(* what it has collected and what it has pending are the entries right     *)
(* after the stored checkpoint, each once, and they are still on disk.     *)
PassInStep ==
  pc \in {"scan", "send", "quarantine"} =>
    /\ cp = NoCheckpoint \/ cp = checkpoint
    /\ batch \cup unread \subseteq EntriesAfter(files, cp)
    /\ \A e \in batch, f \in unread : Before(e, f)
    /\ pending # NoCheckpoint =>
         \A e \in EntriesAfter(files, cp) \ EntriesAfter(files, pending) : Handled(e.rec)

(* A record the stored checkpoint covers is not sent again, by whatever    *)
(* pass or process.                                                        *)
CoveredNotResent ==
  [][\A s \in Sinks : \A r \in Records :
       delivered'[s][r] # delivered[s][r] => lsnOf[r] > checkpoint.lsn]_vars

(* "Default max wait before flushing a small sink batch": every record in  *)
(* the log is delivered to its sinks or quarantined in the end.            *)
EventuallyHandled == \A r \in Records : Logged(r) ~> Handled(r)

(* Replay never stands still for another reason: a record in the log is    *)
(* handled in the end unless it lies beyond a hole, or passes are put off  *)
(* for ever while they hold a position they have not stored.               *)
PutOffHolding == Defer /\ pending # NoCheckpoint
HandledOrPutOff ==
  \A r \in Records :
    (Logged(r) ~> Handled(r) \/ HoleBefore(r)) \/ []<><<PutOffHolding>>_vars
=============================================================================
