# ingest4x in TLA+

`ingest4x` receives events over HTTP, appends them to a local write-ahead log
(WAL), runs a per-project Rhai processor on each logged event and delivers what
it emits to sinks (Kafka, Parquet, stdout, blackhole). Projects, processors and
sinks are rows of a database that an admin API edits and the running process
follows. This directory holds TLA+ modules of that program, the TLC
configurations that check them on small instances, and theorems that TLAPS
proves for every instance. `PROJECT.json` maps each definition to the source
lines it stands for and lists runs, mutants, hazards, findings and theorems.

Paths such as `wal/replay.rs:185` are relative to `src/src/`; `docs/` and
`tests/` are relative to `src/`.

## 1. Inventory

### Components

| component | state | operations | interacts with | module |
| --- | --- | --- | --- | --- |
| WAL files (`wal/mod.rs`) | segment files of frames, `checkpoint.json`, `node_id`, `wal.lock` | scan, read after a checkpoint, bounds, truncate, repair, remove covered segments | written by the writer, read and trimmed by replay without the writer's lock | `WalFiles` |
| WAL writer (`wal/mod.rs`) | `WalWriterState` (segment, offset, next LSN, buffer) under one mutex | append, group flush, rotation, rollback, recovery, snapshot | ingest endpoint (blocking appends), flush thread, metrics | `WalWriter`, `IngestLog` |
| Replay loop (`wal/replay.rs`, `wal/error.rs`, `server.rs`) | one pass's memory, `pending_since_by_sink`, `checkpoint.json` | read, process, quarantine, window, defer, send, store the checkpoint, clean up, retry with backoff | WAL files, processor registry, project registry, sink router | `WalReplay`, `Delivery` |
| Sink router and sinks (`sinks/`) | router snapshot and its version; per-sink clients; Parquet files | route, split into batches, send, build, health | replay; refresh loop | `Delivery`, `ControlPlane` |
| Project registry (`services/project.rs`) | snapshot of projects, version | refresh, lookup | ingest endpoint, replay | `ControlPlane` |
| Processor registry (`ingest/processor.rs`) | compiled scripts by project, version | refresh, process | replay | `ControlPlane` (partly) |
| Ingest endpoint (`ingest/endpoint.rs`) | none of its own | decode, authenticate, authorise, append, answer | project registry, writer | `IngestAuth` |
| Repositories (`repositories/`) | database tables and `app_meta` version counters | CRUD with version bumps | admin API, registries | `Repositories` |
| Service nodes (`repositories/service_nodes.rs`, `server.rs`) | one row per node | register, heartbeat, re-register, delete | database, admin API | `NodeStart` |
| Migrations and seed (`db/`) | schema, rows every installation has | migrate, seed | database | `NodeStart`, `Repositories` |
| Server start (`server.rs`) | what a starting process has done so far | seed, load, register, bind, spawn the loops | all of the above | `NodeStart` |
| Admin API (`admin/`) | sessions | CRUD handlers, each ending in refreshes | repositories, registries | `ControlPlane`, `NodeStart` (partly) |
| Rhai context (`rhai_ctx/`) | none | event validation, emit, lint | processor | the lint, in `Repositories` |
| Admin UI (`web/`) | forms | | admin API | none |
| Settings, logging, metrics, utilities | configuration, log files, counters | parse, rotate, observe | everything | none |

### What is hard here, and what makes each component correct

*WAL writer.* Appenders, the flush thread, the lock-free replay reader and a
crash interleave; a flush may fail in any frame, after rotating any number of
times, while syncing, and while undoing itself. Correct means: a record
answered 200 survives every crash and stays reachable for replay; a refused
record does not surface; LSNs follow one another without a hole, because replay
stops for good at one; the directory can always be opened again; every append
is answered.

*Replay loop.* The log grows, the sinks change and the process dies between any
two steps of a pass, and a pass keeps its progress only in memory until it
stores the checkpoint. Correct means: the checkpoint never passes a record that
is neither committed by all its sinks nor quarantined; each sink sees the order
of the log; nothing is sent twice without a failure, and nothing below the
stored checkpoint is ever sent again; a hole stops it; and what is logged is
handled in the end.

*Sinks.* A window is split into chunks with LSN ranges; Kafka takes messages one
by one; Parquet names the file after the range and skips a file that exists.
Correct means: every event the checkpoint covers is in its topic or in a file, a
file is whole, and a retry of the same windows adds none twice.

*Repositories and registries.* Read-modify-write on version counters in
transactions that overlap; three copies of one protocol that reads the version,
the rows, the version again, and swaps the snapshot. Correct means: a version
that compares equal means equal contents, what a handler has answered for stays
in force, bindings point at what exists and is active, and a registry catches up
in the end.

*Ingest endpoint.* It decides on a snapshot. Correct means: once the last change
has been answered, exactly the entitled may log events.

*Start.* Two nodes start on one empty database, or one starts beside an
administrator; each of the seed's seventeen instructions looks, then writes.
Correct means: a node that serves has the whole seed, a start undoes nothing an
administrator did, running nodes notice what it changed, and nodes come up, again
and again.

The hazards, each at its line and with the properties that cover it, are in
`PROJECT.json` under `hazards`.

## 2. Plan

| order | module | about | state |
| --- | --- | --- | --- |
| 1 | `WalFiles`, `WalFilesProofs` | the directory as a value: scanning, positions, truncation, cleanup; lemmas about it | written |
| 2 | `WalWriter`, `WalWriterProofs` | group commit, rotation, rollback, crashes, recovery, against a lock-free reader | written, 6 theorems |
| 3 | `WalReplay`, `WalReplayProofs` | passes, windows, deferral, quarantine, checkpoint, restarts, router changes | written, 8 theorems |
| 4 | `IngestLog`, `WalLogProofs` | abstract specification: a queue with answers, which `WalWriter` implements; what the log holds as a sequence of records | written, 6 theorems |
| 5 | `Delivery`, `DeliveryProofs` | a window on its way through chunks, messages and files | written, 7 theorems |
| 6 | `Repositories`, `RepositoriesProofs` | the transactions of the configuration database; what each of them keeps | written |
| 7 | `ControlPlane`, `ControlPlaneProofs` | handlers, overlapping transactions, the refresh of three registries | written, 6 theorems |
| 8 | `IngestAuth` | decode, authenticate, authorise | written |
| 9 | `NodeStart`, `NodeStartProofs` | seed, start, registration, heartbeat | written, 5 theorems |
| 10 | `EventValidation` | the validation helpers of `rhai_ctx` as operators | left |

Theorem left: the refinement of `IngestLog` by the writer together with its
reader under crashes (`WriterReader` checks it).

Which module uses which:

    WalFiles, IngestLog (INSTANCE) <- WalWriter <- MCWalWriter
    WalFiles <- WalReplay <- MCWalReplay
    Delivery <- MCDelivery
    Repositories, IngestAuth <- ControlPlane <- MCControlPlane
    Repositories <- NodeStart <- MCNodeStart
    WalWriter, WalFilesProofs <- WalWriterProofs <- WalLogProofs
    WalReplay, WalFilesProofs <- WalReplayProofs
    Delivery <- DeliveryProofs
    Repositories <- RepositoriesProofs
    ControlPlane, RepositoriesProofs <- ControlPlaneProofs
    NodeStart <- NodeStartProofs

The three parts meet in what they say of one another: `WalReplay` takes the
writer at its best and `WalWriter` the reader that interferes most; `WalReplay`
commits a window to a sink in one step and `Delivery` says how that step goes;
`Delivery` takes the router of the moment from a set of configurations and
`ControlPlane` says how the router comes about.

## 3. The modules

### WalFiles

Pure operators, no state. A directory is a function from segment ids to
records `[start, cells, synced]`: the header's `start_lsn`, what a scan meets
after the header, and how much of it the last `sync_data` made durable. A cell
is a whole frame, the torn remains of a `write_all`, or the zeros `set_len`
leaves when it extends a file. One frame counts as one unit of length and the
512-byte header as none, so `offset` is an index; everything the code does with
byte offsets (append where the file ends, truncate to a remembered offset, read
from a checkpoint's offset, refuse an offset beyond the end) keeps its meaning.
`EntriesAfter` is `read_entries_after_limit`, `TailPosition` and `BeforeFloor`
are `read_wal_bounds` and `checkpoint_before_wal_floor`, `ReadFails` collects
the reasons a pass cannot read, `EnsureSegment` is `ensure_segment_file`, and
`Covered` the segments `remove_segments_covered_by_checkpoint` deletes.

### WalWriter

The mutex lets one thread at a time append or flush, so those are atomic with
respect to each other, but not with respect to a crash or to replay, which reads
the files without the lock. A flush is therefore a sequence of steps with a
program counter:

| `pc` | actions | code |
| --- | --- | --- |
| `idle` | `AppendRecord`, `FlushTick` | `append_buffered`, `flush_buffer` |
| `write` | `Rotate`, `WriteFrame`, `RotateFails`, `WriteFails` | `append_frame_locked` |
| `sync` | `SyncNext`, `SyncFails`, `FlushDone` | `sync_segment`, `notify_buffered_success` |
| `truncate`, `remove` | `UndoTruncate`, `UndoRemove`, `UndoFails` | `truncate_after`, the rollback of `flush_buffer_locked` |

`Crash` loses the process's memory and keeps the page cache; `PowerLoss` also
loses any suffix of what was not synced and may tear the frame after it.
`Recover` is `WalWriter::new`. `ReplayAdvance` is the reader: a replay loop with
a window of one record, a sink that always commits and a checkpoint stored for
each record, which is the reader that interferes most. It starts over from the
earliest frame when its checkpoint lies before the floor
(`auto_offset_reset = "earliest"`).

`reply[r]` is what the sender of `r` knows: `pending`, `ok` (200), `err` (503)
or `lost` (the connection died with the process). A sender that is refused may
send again; that is a new record.

`Faults` selects what may go wrong in a run: `space` (disk space, or a segment
that cannot be created), `write` (a partial `write_all`), `sync`, `undo` (the
rollback itself fails), `crash`, `power`. `Spec` has the reader; `WriterSpec`
does not, which is the situation while no sink is enabled or one keeps failing.
`RollbackSpec` is `WriterSpec` without a crash between the two halves of a
rollback (`WholeRollback`); section 4 shows what such a crash leaves behind.

### IngestLog

What the WAL promises, without segments, offsets, buffers or syncs: a queue that
is written at the end and read from the front. Records nobody has been promised
may vanish; everything else stays, in order. The queue is a set of records
(`log`) with the pairs of which the first was written first (`order`), which says
of a failed group what there is to say: who is left, and that those keep their
order. `WalWriter` names the mapping: `answer` is `reply`, `done` is `delivered`,
`log` and `order` are the records replay would read next and their reading order
(`RecordsOf`, `OrderOf`). That the writer implements the queue is the property
`KeepsPromise`.

### WalReplay

One pass of `replay_once_inner`, again with a program counter:

| `pc` | actions | code |
| --- | --- | --- |
| `idle` | `OpenPass` | the no-sink return, `read_replay_checkpoint_state` |
| `read` | `ReadLog` | `read_entries_after_limit`, `expected_lsn` |
| `scan` | `TakeDeliverable`, `TakeOther`, `Defer`, `SendLast` | the loop over entries, `process_record`, `group_deliveries_by_sink`, `sinks_deferred_by_batch_timeout` |
| `quarantine` | `Quarantine` | `quarantine_replay_issue` |
| `send` | `SendSink`, `SendFails`, `WindowSent` | `replay_batch_to_sinks` |
| `finish`, `store`, `cleanup` | `Finish`, `StoreCheckpoint`, `Cleanup`, `StoreFails` | `flush_pending_checkpoint`, `write_checkpoint`, `cleanup_covered_segments` |
| `fail` | `PassFails` | every `?` and `return Err` of the pass |

`after` remembers where `replay_batch_to_sinks` was called from, so the same
steps serve the full window, the forced flush before a quarantined record or a
hole, and the end of the pass. A pass that returns, with `Ok(0)` or an error,
keeps nothing but `pending_since_by_sink` (`since`) and the checkpoint file.

`disturbed` is a history variable: a pass has failed, the process has died, or a
pass was put off (`Defer`, the `return Ok(0)` at `wal/replay.rs:298`) while it held
a position it had not stored, which is then forgotten.

`plan[r]` is the set of targets the processor emits for `r` (chosen when `r` is
appended, from `Plans`); target 0 stands for a record that cannot be processed
at all. Whether `r` is deliverable is decided when the pass reaches it, against
the router of that moment (`active`), and the router may change again before the
sink is sent to. A record has at most one event per sink; a failing send commits
any prefix of the window's events, which covers every split into chunks. Of the
byte and time limits the byte limits are left to `Delivery`, and
`checkpoint.flush_interval` is a nondeterministic choice in `WindowSent`: the
clock starts with the pass.

The writer is `WalWriter` at its best: an append is one durable step. The
`gap` fault lets an LSN go missing, which `WalWriter` shows the real writer can
do. `Restart` is `WalWriter::new` followed by `initialize_replay_checkpoint`.
`Init` is the state after the first start on an empty directory.

### Delivery

The sinks in the steps they really take. Records are their LSNs; a configuration
(`Configs`, by name) says which events the processors emit for each record and
sink, which sinks the router holds, their batch policies and columns, and which
blackholes are in mode `fail`. `Refresh` puts another one in force at any step.

| `pc` | actions | code |
| --- | --- | --- |
| `idle`, `collect` | `OpenPass`, `Collect`, `Quarantine`, `SendWindow`, `EndPass` | `replay_once_inner`, `group_deliveries_by_sink` |
| `plan` | `PlanSink`, `WindowSent` | `sink_batch_policy`, the loop of `replay_batch_to_sinks` |
| `chunk` | `TakeChunk`, `RejectChunk` | `send_sink_events_in_batches`, `send_event_batch_to_sink` |
| `event` | `SendEvent`, `SendEventFails` | `kafka/mod.rs` `send_batch`: an event that fails may still have arrived |
| `stat`, `write`, `rename`, `put` | `Stat`, `WriteTemp`, `Rename`, `Put`, `StorageFails` | `parquet.rs` `write_events`, `write_final_if_absent`, in the three kinds of storage |
| `store` | `Store`, `StoreFails` | `flush_pending_checkpoint` |

`ChunkLength` is the split of a window: as many events as the policy's count and
bytes allow, at least one. `Fits` is `project_column`: which JSON shapes a column
of a type takes. A topic keeps an event at the first place it arrived at, so that
repeated delivery, which the program allows, does not blur the order. The
deferral of small windows is left to `WalReplay`, and each sink has a directory
of its own. `Quarantine` looks at the router after the forced flush as well as
before it; the code decides before the flush and does not look again
(`wal/replay.rs:220`), as `WalReplay` has it. The two differ only where the router
comes to know the record during that flush. `settled[l]` remembers which configuration's events were sent for a
record when its window went through.

### Repositories

The five tables and the counters of `app_meta`. A row's id is its place;
primary keys are AUTOINCREMENT and never used again. An operation decides, on
the snapshot `S` its transaction reads, what to ask for (`Insert`, `Update`,
`Delete` or `Refuse`), and `Commit` is what the database makes of it, with the
unique columns, foreign keys and cascades of the migrations (`Allowed`,
`Written`) and the counter that moves with the table (`CounterOf`). Snapshot and
database are two arguments, because transactions overlap. Deleting a project
deletes its binding without moving the scripts counter, as in the code. A script
is the set of sink constants it emits to, which is what the lint looks at; that
every lint fails over a sink whose constant is plain `SINK` is left out.
Names, remarks and times are left out. `ProjectBody` and its siblings are the
input structs: what a request may put in each column, and which columns it may
change. `Sound` is what the tables must say together.

### ControlPlane

Admin handlers, transactions and the three registries of a node. A handler is
one step per phase: `Begin*` takes the snapshot and decides, `CommitTransaction`
or `RefuseTransaction` ends it, then the registries in `todo` are refreshed in
turn. `create_project` has a second transaction that binds the default script;
`create_script` and `update_script` read the sinks before theirs.

`Isolation = "serializable"` is SQLite: a commit is refused if anything was
committed since the snapshot. (A transaction whose first statement writes waits
there instead of failing, which leaves fewer behaviours.) `"repeatable_read"` is
MySQL; the theorems and the passing run are about SQLite, see section 4.

A refresh (`refresh_if_needed`, three copies of it) holds its registry's lock:
`StartRefresh` (with the early return), `ReadBefore`, one `ReadRows` per query,
then `ReadAgain`, `Install` or `BuildFails`. A query that fails is `ReadFails`;
the handler answers 2xx all the same. `Stop` and `Start` are a restart; `Start`
reads each registry in one step, since nothing is served meanwhile. Handlers in
`Remote` run on another node, so that what they change reaches this one only
through its loops. The query of the scripts registry that joins bindings,
projects and scripts is one step, although the code reads project and script of
each binding in turn (`repositories/processors.rs:596`), and so is that of the sinks
with the target of each (`repositories/event_sinks.rs:371`). What changes in between
moves the counter that is read last, but for projects. The handlers replace or
ignore a blank token (`admin/projects.rs:139`, `294`), so that of the refusals of
`BeginCreateProject` the one for a blank token never happens through them.

A `scenario`, chosen once, says which registries a behaviour watches and which
operations its administrators use; together the scenarios of a run exercise all
of them at a fraction of the states. The check of the administrator's password
is left out.

`answered[r]` is a history variable: the newest version a handler had reached
when it had refreshed `r` and gone on.

### IngestAuth

What the endpoint answers, as a function of the projects the registry holds and
a request: decoding as an outcome, address, token, size, as one chain of checks
in the code's order, the first that fails giving the answer.
`ControlPlane` checks it against `Entitled`, which says who may log events in
terms of the database.

### NodeStart

`seed::run` as its seventeen instructions (`Seed`), each a `Look` that decides
and, if there is something to do, a `Write` that the constraints may refuse,
which ends the start; the one instruction that is a single transaction,
`ensure_default_project_processors`, is `BindDefaults`. What happens inside the
other transactions is `ControlPlane`'s subject, and each is one step here. Then
`Load`, the registration as starting (`FindRow`, `PutRow`), `Bind`, the
registration as running, and the heartbeat (`Beat`, `Mark`, or the registration
again when the row is gone). `Load` fails for what `build_app_state` fails for:
no default script, or an enabled sink that cannot be built.

A `scenario` says which nodes there are, which of them a supervisor starts
whenever they are down (`kept`), and how much may go wrong; a node that is not kept
may stay down for good, with its row left behind. Administrators change projects,
bindings and sinks and delete nodes; that they archive scripts or change targets
between two starts is left out, and of changes to a project those of
`ProjectChanges` are in (a token replaced alone only in `ReplacedToken`).

`Fails` is an error of the database, a disk or a socket: during a start it ends
the process, in the heartbeat it is a warning. `Tick` is a refresh interval;
`Shown` is the status the admin API shows. Administrators act through a node
that is up. The order in which default bindings get their ids shows nowhere and
is left open. The mock data of an in-memory database (`server.rs:569`) is not
modelled.

A node that dies while it starts stays listed as starting for ever: only running
rows go stale. Deleting `loadtest_app` brings it back at the next start.
Replacing its token together with its key is harmless; it is the key that stays
that the next start trips over (`ReplacedToken`).

## 4. The runs

Records are interchangeable in the WAL modules, so runs without a liveness
property use their symmetry; `ReplayEveryFault`, which has one, numbers the records
and appends them in turn instead (`InTurnSpec`), which leaves out as much. `CHECK_DEADLOCK FALSE` stands where the system
really may stop: in `WalWriter` when every record is answered and the reader is
through, in `WalReplay` and `Delivery` when every sink is disabled or nothing is
left, in `ControlPlane` when nobody changes anything any more.

### Passing

| run | specification | shows |
| --- | --- | --- |
| `WriterCrash` | `WriterSpec`; all faults but undo, 2 crashes | after any failed flush, crash or power failure acknowledged records survive, refused ones are gone, LSNs go on, the buffer continues the log, the writer stands at the end of a log that can be read, and the writer keeps the promise of `IngestLog` |
| `WriterEveryFault` | `FairSpec`; all six, 1 crash | types, `AckInv`, that acknowledged frames are never cut and that every append is answered, with the reader, its cleanup and failing rollbacks |
| `WriterReader` | `Spec`; 2 crashes or power failures | with a checkpoint that may be ahead of what a power failure left of the log, the LSNs carry on from whichever is ahead; writer, reader and cleanup together keep the promise of `IngestLog`: an acknowledged record is delivered or still to be read, in order |
| `ReplayEveryFault` | `InTurnSpec` (fair); sinks and checkpoint writes that fail, a missing LSN, 1 crash, 1 router change at any step, a record to quarantine, a sink with a timeout, reads of 2, segments of 1 | the checkpoint passes no unhandled record, each sink sees the order of the log, a hole stops replay, the pass's memory stays in step with log and checkpoint, what is covered is not sent again, nothing is sent twice before a disturbance, and a logged record is handled in the end unless it lies beyond a hole or passes are put off for ever while they hold a position |
| `Delivery` | `FairSpec`; a topic, three kinds of Parquet storage, a blackhole; 2 failures, crashes or refreshes at any step | nothing the checkpoint covers is missing, topics keep the order, files are whole and no event is in two; once the configuration is sound everything is delivered |
| `ControlPlane` | `FairSpec`; two handlers, one on another node; 2 changes, 1 error, 1 restart | a version that compares equal means equal contents, what was answered stays in force, exactly the entitled may log events, bindings stay sound, registries catch up |
| `NodeStart` | `FairSpec`; one node with 3 failures, crashes or changes, one that may stay down with 2, one of each together with 1 | a node that serves has the whole seed, starts keep what administrators set and count what they change, every kept node comes up, and the list of nodes is right in the end: one that stays up is shown running, one that went down and stays down is not |

*What the properties are guarded by.* `LogHasNoGap` and `LogStaysReadable` speak
of behaviours without a power failure (`PowerKept`: in a run whose faults include
`power`, of what comes before the first crash), the former also not of the moment
between the two halves of a rollback. `WriterRollback` below checks both with
crashes and without `power`. `AcceptedIffEntitled` speaks of the moments when the last change has been
answered; before that the old snapshot rules, on purpose; it says nothing when the refresh of
a handler failed, which answers 2xx all the same (`admin/projects.rs:253`), and no
request of the run is too large. `HandledOrPutOff` excuses a record that lies beyond
a hole, and a behaviour in which passes are put off for ever holding a position;
`OnceUndisturbed` speaks of the time before the first pass that fails or is put off
so, and the first crash. What happens in the excused case is `DeferredForever`. `RegistriesConverge`
speaks of sinks that can be built, `EventuallyDelivered` of configurations that
take every event, `NoFileTwice` of a configuration that stays: another batch
policy draws other chunk borders, and a retry then writes overlapping files.
`RouterFollowsBindings` is as far as the scripts counter reaches.

*Bounds.* Three to five records with groups of two or three and segments of two
or three give full and partial groups, a flush that rotates once or twice, a
group that starts in one segment and ends in another, and rollback across a
segment border. Two crashes let recovery run on what recovery left. For replay,
three records with windows of two give a full window, a remainder and a forced
flush before a quarantined record; a read limit of two makes a pass end with
more to read; a checkpoint policy of three lies above the window size, so that a
pass stores in the middle or, the interval permitting, does not. In `Delivery`
chunks of one and of two events, by count and by bytes, make windows of one
chunk and of several, and chunks within and across records; two troubles allow a
failure while a retry of the first is under way. In `ControlPlane` two changes
are what a lost update or a write skew needs, and two handlers and a loop are all
that can meet at one registry. In `NodeStart` `StaleAfter` is 1 where the code
has 3: only whether a row is older than that is told apart; a start makes
seventeen steps in which one trouble can fall with two nodes, three with one.

*Fairness.* `WalWriter`: the flush thread wakes up on a timer, a thread inside a
flush goes on, a supervisor restarts the process. `WalReplay`: the loop task
goes on, a supervisor restarts the process, and a timer *that is left running*
elapses. The last is weak fairness on purpose: a timer that is removed and
started anew need not elapse. `Delivery`: the replay loop of a live process
never stops. `ControlPlane`: handlers and refreshes proceed, the loops come
round, a supervisor restarts the node. `NodeStart`: starts, registrations and
heartbeats proceed, a supervisor restarts the nodes it keeps, time passes. Failures,
crashes, administrators and senders are never fair.

### Violations

Each checks one property that a document, test or comment of the repository
states, and TLC finds the run of the code that breaks it.

| run | what happens |
| --- | --- |
| `UnsyncedRead` | replay reads and checkpoints a frame whose flush is then rolled back; LSN and offset are used again, and the acknowledged record behind them is never read |
| `DeferredForever` | a sink with a batch timeout and three records: a good one, one to quarantine, a good one. Each pass sends the first (forced flush), which also removes the timer, starts it again for the last, defers it and returns without storing the checkpoint; the last record waits for ever and the first is sent on each pass, against `docs/wal.md:283` |
| `IdleRestart` | all sinks `latest` (the default seed). The first start stores a checkpoint in the empty segment 1; a restart before the first event opens segment 2; the first event then makes segment 2 the floor, the checkpoint is "before the floor" and is reset to the tail: the event is answered 200 and never delivered |
| `ParquetLost` | a script emits more events for one record than a chunk takes. The chunks have the same LSN range, hence the same file name; the second finds the file of the first and is taken for written |
| `ReplacedToken` | an administrator replaces the token of `loadtest_app`, as `docs/admin-api.md:60` advises; the next start misses the token, creates `loadtest_app` again, fails on its unique key, and no node comes up any more |

Five more configurations belong to the project but not to the runs that are
checked each time:

| configuration | module | outcome |
| --- | --- | --- |
| `TornFirstFrame.cfg` | `MCWalWriter` | `LogReadable` violated: recovery compares the start LSN of the active segment before it repairs the tail; after a power failure a torn first frame hides the stale header, and the next frame makes the segment unreadable (`tests/wal_tests/write.rs:882` tests the case of an empty segment with a stale header and expects it to be recreated) |
| `ProcessorsStale.cfg` | `MCControlPlane` | `ProcessorsConverge` violated: the processors are refreshed when the scripts counter moves, but a project that is disabled and enabled again moves only the projects counter; its binding stays out of the router until some script changes, against `docs/event-processing/event-transformation.md:81` |
| `HalfRolledBack.cfg` | `MCWalWriter` | `LogHasNoGap` violated: the process dies inside `truncate_after` (`wal/mod.rs:423`), after the first segment was cut and before the later ones are removed; recovery goes on behind what was left, the LSNs that were cut are never given out again, and replay stops for good at the hole ("non-contiguous wal lsn", `wal/error.rs:75`) |
| `WriterRollback.cfg` | `MCWalWriter` | holds: without such a crash (`RollbackSpec`) the log has no hole and can be read, through failed flushes and two crashes |
| `WriterNoSync.cfg` | `MCWalWriter` | holds: with `no_sync` a failed flush keeps what was accepted (`AcceptedKept`) |

The same models break other properties of section 3 under other constants. They
bound what the passing runs claim, and a change of a passing run's constants
reproduces each:

- `LogHasNoGap` without `PowerKept`: a group is written across a segment border
  and the power fails before it is synced; the end of the first segment is lost
  and the frame in the second survives.
- `RefusedNotLogged` with the reader: cleanup deletes a segment before the flush
  syncs it, and the senders get 503 although the records were delivered.
- `LogReadable` with `power` and the reader: the checkpoint covers an unsynced
  frame that is then lost, and points past the end of its segment.
- `NothingSkipped` with a restart while no sink is enabled (`Latest = {}`): no
  `earliest` sink is found, the reset is taken to be `latest` and the tail
  stored as checkpoint; the backlog is skipped.
- `HandledOrPutOff` with a second toggle, when no sink may be left enabled: replay
  returns before it reads, and neither advances nor quarantines.
- `BindingsSound` and `CurrentMeansEqual` with `Isolation = "repeatable_read"`:
  a script is archived while a project is bound to it (write skew), and two
  transactions write the same version number (lost update), after which a
  refresh takes the older contents for current.
- `ComesUp` when administrators may archive scripts: once the project of the
  load test is unbound and its script archived, the last instruction of every
  start fails with `ProcessorScriptNotActive`.

## 5. What is proved

Thirty-eight theorems, for every set of records, sinks, nodes, handlers and rows and
every value of the bounds, unless stated.

| theorem | statement | argument |
| --- | --- | --- |
| `WalWriterProofs` `TypeCorrect` | `Spec => []TypeOK` | inductive as it stands; each file operation maps directories to directories |
| `AckInvariant` | `Spec => []AckInv` | one lemma per action; reader and all six faults included |
| `AckedFramesStay` | `Spec => AckedFrameStays` | from `AckInv` |
| `DurabilityInvariant` | no `undo`: `WriterSpec => []DurabilityInv` | inductive with `TypeOK` |
| `RollbackExact` | no `undo`: `WriterSpec => []WriterAtEnd` | from `DurabilityInv` |
| `AckDurability` | no `undo`: `WriterSpec => []AckedDurable` | from `DurabilityInv` |
| `WalLogProofs` `LsnsCarryOn` | no `undo`: `WriterSpec => []BufferFollowsLog` | `LsnInv` |
| `RefusedIsGone` | no `undo`: `WriterSpec => []RefusedNotLogged` | `RefusedInv` |
| `LogIsUnbroken` | no `undo`: `RollbackSpec => []LogHasNoGap` | `LsnInv` and `GapInv` |
| `LogCanBeRead` | no `undo`: `RollbackSpec => []LogStaysReadable` | `LsnInv` and `ReadInv` |
| `AcceptedStays` | no `undo`: `WriterSpec => []AcceptedKept` | `AcceptedInv` |
| `WriterKeepsPromise` | no `undo`, default mode: `WriterSpec => KeepsPromise` | step by step, with `RefusedInv` and `UniqueInv` |
| `WalReplayProofs` `ReplayInvariant` | `Spec => []Inv` | see below |
| `TypeCorrect` | `Spec => []TypeOK` | from `Inv` |
| `StaysInStep` | `Spec => []PassInStep` | from `Inv` |
| `CoveredStays` | `Spec => CoveredNotResent` | from `Inv` |
| `NothingIsSkipped` | `Spec /\ []~ResetToLatest => []NothingSkipped` | `Inv` and `Safe` |
| `SinksInOrder` | `Spec /\ []~ResetToLatest => []SinkOrder` | `OrderInv` |
| `HolesStopReplay` | `Spec /\ []~ResetToLatest => []GapStops` | `OrderInv` and `GapInv` |
| `OnceUnlessDisturbed` | `Spec /\ []~ResetToLatest => []OnceUndisturbed` | `OrderInv` and `OnceInv` |
| `DeliveryProofs` `DeliveryInvariant` | `Spec => []Inv` | see below |
| `TypeCorrect` | `Spec => []TypeOK` | from `Inv` |
| `RecordsAreThrough` | `Spec => [](\A l \in 1..checkpoint : Through(l))` | from `Inv` |
| `NothingIsLost` | Parquet sinks lone and agreed: `Spec => []NothingLost` | from `RecordsAreThrough` |
| `TopicsKeepOrder` | `Spec => []InLogOrder` | from `Inv` |
| `FilesHoldAll` | Parquet sinks lone: `Spec => []FilesAreWhole` | from `Inv` |
| `NothingTwice` | `Spec => []NoFileTwice` | `Inv /\ CutInv` |
| `ControlPlaneProofs` `TypeCorrect` | `Spec => []TypeOK` | `TypeInv` |
| `AnsweredStays` | serializable: `Spec => []AnsweredInForce` | `CountInv` |
| `CurrentIsEqual` | serializable: `Spec => []CurrentMeansEqual` | `CountInv /\ ContentInv` |
| `BindingsStaySound` | serializable, initial tables sound: `Spec => []BindingsSound` | `CountInv /\ SoundInv` |
| `EntitledAreAccepted` | serializable, initial tables sound, keys of projects differ: `Spec => []AcceptedIffEntitled` | those and `KeysDiffer` |
| `RouterIsRight` | serializable, initial tables sound: `Spec => []RouterFollowsBindings` | `CountInv /\ SoundInv /\ RouterInv` |
| `NodeStartProofs` `StartInvariant` | `Spec => []StartInv` | see below |
| `StartsKeepRows` | `Spec => StartsOnlyAdd` | from `StartInv` |
| `StartsAreCounted` | `Spec => ChangesAreCounted` | from `StartInv` |
| `TypeCorrect` | `Spec => []TypeOK` | `TypeInv` |
| `SeedIsComplete` | `Spec => []SeedComplete` | `TypeInv /\ SeedInv` |

**WalWriter.** That an acknowledged frame is never cut is not inductive: it needs
to know that the rollback point lies after every acknowledged frame, which holds
because nothing is acknowledged while a flush is under way and the previous
flush ended where this one began. `AckInv` says so: per frame (`FrameInv`) what
the sender may know, that an acknowledged cell is synced, that it lies before
the rollback point during a flush and before the writer's end while the process
is up; that pending senders are exactly those of the buffer (`PendingInv`); and
that a crashed writer has no flush under way (`DownInv`). Durability needs in
addition that a scan finds what was written, so that no torn or zero cell ever
lies before a frame. `DurabilityInv` adds `EndInv` (the writer's offset is the
length of the last file, everything before it is frames, and the rollback point
is inside its file with only frames before it) and `LoggedInv` (the frames
written so far and all acknowledged records are in the directory). Both
hypotheses are needed. If a rollback may fail (`undo`) torn cells stay in the
middle of a file. With the reader the log is trimmed, and `UnsyncedRead` shows
that the reader breaks a neighbouring promise; the theorem is about the writer
while replay makes no progress.

*The log as a sequence.* `WalLogProofs` looks at the entries of the directory
instead of the files. During a flush those behind the rollback point are as good
as gone, so its invariants speak of `Kept`, the entries that stay if the flush is
undone. `LsnInv`: the buffer's LSNs follow one another, entries are ordered as
their LSNs, and both the newest of all entries and the newest of `Kept` are what
the counters say (`Ends`), so that rolling back and recovering both land on the
next free LSN. `RefusedInv`: no entry belongs to a refused sender, and during a
flush no kept one to a sender that still waits, so whoever is refused when the
flush is undone has nothing left in the log. `GapInv` says that the
LSNs on disk, and those of `Kept`, are 1 up to some number (`NoHole`), which is not true
while a rollback is half done; that is why `LogIsUnbroken` is about
`RollbackSpec`, and `HalfRolledBack` shows that it has to be. `ReadInv` adds that
a segment starts with the LSN its header names; the hard case is a segment whose
first frame was cut or lost while the header stays, which holds cells but no
frame (`BareSegment`). `AcceptedInv` is the counterpart for `no_sync`, where the
batch a failed flush gives back keeps its LSNs.

*The refinement.* `AppendRecord` is the queue's `Send`, `WriteFrame` its `Write`,
`FlushDone` its `Acknowledge`; `UndoTruncate`, `UndoRemove`, `Crash` and
`PowerLoss` are `Fail`, in which some senders hear of a failure and some records
nobody was promised leave; rotation, syncing, failures on the way, the tick and
recovery change nothing of the queue. What must be known for it: a record has
one entry at most, and one that is about to be written has none yet (`UniqueInv`),
so that it enters once and last; acknowledged records are in the directory and
before the rollback point (`DurabilityInv`), so that what is acknowledged is in the
queue and what leaves is not promised. The theorem is about `WriterSpec`. With the
reader `KeepsPromise` fails under failing flushes (`UnsyncedRead`); with crashes and
power failures alone TLC finds it to hold (`WriterReader`).

**WalReplay.** `PassInStep` relates what a pass holds to a log that grows, is
trimmed and restarted meanwhile. `Inv` is the conjunction of

- `LogInv`: the files hold frames only and have a last segment, the order of the
  log is the order of the LSNs, below the next one, and `lsnOf` is what is on disk;
- `CheckpointInv`: the log has grown past the checkpoint, and what lies after it
  has greater LSNs. It is what makes a cleanup safe and a covered record
  unsendable;
- `IdleInv`: outside a pass nothing of one is left;
- `PassInv`: `batch` and `unread` are what comes next after `cp`, and whatever is
  missing between them has been handled (`NextUp`); what `pending` would cover is
  handled and not held (`PendingInv`);
- `WindowInv`: a sink of the window that is no longer in `sending` has committed
  all of it.

Lemmas about the directory are in `WalFilesProofs`: what each operation does to
`Entries` and to their order. `NothingSkipped` adds `Safe`, that an unhandled
record lies after the checkpoint, and `SinkOrder` adds `Known`, that a logged
record is covered or still in the log and only logged ones are sent. Both need
`[]~ResetToLatest`: some enabled sink asks for `earliest` whenever the code looks
(`pipeline_auto_offset_reset`). Without it they are false, as `IdleRestart`
shows. TLC checks `Inv` and `OrderInv` too, on the constants of
`ReplayEveryFault`.

`GapStops` needs to know where a pass starts from. `GapInv` says that below the
stored position and below what the pass is about to take every LSN was appended
to the log (`Whole`), that a stored checkpoint stands at an entry that is still
there (`Anchored`), that a pass without one has the first entries of the log
(`FromStart`), and that below what was sent or quarantined nothing is missing
(`Reached`). A reset to the tail jumps over a hole, hence
`[]~ResetToLatest`. `OnceUndisturbed` counts: what a sink has committed of a
record nothing has disturbed is accounted for by the checkpoint, by `pending` or
by the window that is being sent (`Accounted`). A pass that is deferred while it
holds a position that is not stored drops it and sends again, with nothing having
failed; `DeferredForever` reaches that state, and `disturbed` counts it as a
disturbance. Every other deferral leaves `Accounted` as it is.

**Delivery.** `Inv` says of every record up to `Base` (the pending position, or
the checkpoint) that it was quarantined or that its sinks hold all events of the
configuration it went through with (`Through`), of the window that it is the
records right after `Base` and that each of its events is in its sink or still to
be sent (`WindowOnItsWay`), and of a Kafka sink in the middle of a chunk that the
rest of the chunk is in the topic. A pass goes on with what it has collected
while another configuration is already in force, so each record of the window
remembers by which configuration it was read. `InLogOrder` follows from
`TopicsInOrder`: the LSNs in a topic never go down, and an event is there only
with all those of earlier records. For files a name must tell the contents (`FilesTell`), and it does so
only if the records of a chunk give the sink one event each at most (`Lone`):
otherwise a record can end one chunk and begin the next, as `ParquetLost` shows.
That the file found under a name holds the events of *this* configuration also
needs that configurations agree on them, or stay (`Agreed`, `Steady`).
`ChunkLength` is a `CHOOSE` over a set of numbers; the lemma `LeastOf` shows that
such a set has a least element and what it is.

`NoFileTwice` needs no hypothesis about the sinks. While neither the configuration
nor the log changes (`Still`; a longer log may put the border of the last window
elsewhere), where windows end follows from where they begin, and so it is for the
chunks of what a window holds for a sink: the borders are the numbers one comes
to from 0 (`Marks`, `Cuts`), whichever passes, failures and crashes lie between.
`CutInv` says that checkpoint and pending position are such marks, that what is
left of a window to send begins at such a cut, and that each file holds the
events between two cuts that follow one another. Two files of a sink with
a common event are then of the same window, whose load is one sequence however
often it is computed (`OneLoad`, because events are sorted), and of the same
chunk (`ChunksApart`), so they have the same name.

**ControlPlane.** `CountInv`: counters only grow, and what a handler has
reached, what a registry serves and what a refresh has read before its queries
are at most the database's. It rests on serializable transactions: the counter a
commit writes is the one the database still has, plus one. `ContentInv`: where
the version of a registry, or the first version a refresh read, is the
database's, its rows, or those read so far, are the database's.

`BindingsSound` is a promise of the five tables that no constraint of the schema
makes: that an enabled binding runs an active script rests on a check made
before the write, in another statement. `RepositoriesProofs` shows, operation by
operation, that one decided on typed and sound tables and written to the same
tables leaves them typed and sound (`Keeps`); it is there that the checks are
used: a script that loses `active` is neither the default nor in use, a project
that gets a binding had none, a sink fits the target it names, and the schema
holds a target that has sinks. `SoundInv` carries this over the steps between a
decision and its commit: a handler whose counters still are the database's holds
a write that keeps the tables as they are now, and every commit moves a counter
past those of the others, which are then refused. The hypothesis on the isolation
is needed: under `repeatable_read` TLC finds the property violated (section 4).
The theorem speaks of any request bodies with the columns and types of the input
structs (`RequestAssumption`), blank and unparsable values included.

`AcceptedIffEntitled` joins three things: while the last change is answered the
registry serves the rows of the database (`CurrentIsEqual`), two live projects
have different keys (`KeysDiffer`, kept by every operation because the column is
unique), and the chain of checks of `IngestAuth` comes to the same as `Entitled`,
for every request. `RouterFollowsBindings` says less than one would like, and
`RouterInv` has to say exactly how much: between its queries the refresh of the
processors may meet a commit of another table that moves no scripts counter, so a
project it has read may since be gone for good, but one that is still there is
bound as it was (`StillBound`): its binding and its script change only with the
counter.

Types need neither serializable transactions nor sound tables. `TypeInv` says of
what a handler is about to commit that its values have the types of their columns
and that the row was there when it looked (`TypedWrite`); rows keep their places, so
this stays true whatever others commit before it. It types what a refresh has
read so far query by query, and says that a handler that holds the lock of a
registry has that registry next on its list.

**NodeStart.** A start looks in one step and writes in another, with other nodes
and administrators in between. `StartInv`: a node about to write holds an insert
into a table of the seed, or the update of the binding of the project it found.
It is stable because a binding never changes its project and a row that is gone
does not come back. `TypeInv` types the tables, what a node is about to write at
each instruction, and what administrators change.

`SeedComplete` is about starts among themselves (`changes = 0`). Tables then only
grow, and `SeedInv` says how far: they hold rows of the seed and nothing else
(`Seeded`), and a node that has come to its k-th instruction finds what the
earlier ones were to leave behind, its own or another node's (`Reached`), up to
the whole seed once it is past it (`Complete`). A node that loses the race for a
row fails and starts anew; that the tokens of projects are unique and a project
has one binding makes the winner's rows those the loser would have written.

Assumptions: `NoRecordAssumption`, `WriterAssumption`, `ReplayAssumption`,
`RepositoriesAssumption`, `DeletedAssumption`, `ControlPlaneAssumption`,
`RequestAssumption`, `NodeStartAssumption` and `DeliveryAssumption`,
which TLC evaluates on every run of their modules. Those that say more than the
type of a constant: a configuration numbers the events of a record for a sink in
the order they are emitted (`DeliveryAssumption`), the tokens, keys and sinks of
the seed are among those of the model, and administrators change projects as
`update_project` lets them (`NodeStartAssumption`).

## 6. What is only model-checked, and what is not modelled

Only model-checked:

- liveness: `EveryAppendAnswered`, `HandledOrPutOff`, `EventuallyDelivered`,
  `RegistriesConverge`, `ComesUp` and `ListedRight`. Each rests on fairness and on
  actions being enabled, and the prover reasons about neither.
- `KeepsPromise` with the reader and its cleanup, under crashes and power failures (`WriterReader`):
  the theorem is about the writer while the checkpoint stays. So is that of
  `BufferFollowsLog`, which `WriterReader` checks with a checkpoint. Under failing
  flushes the reader breaks the promise (`UnsyncedRead`).
- `LogHasNoGap` and `LogStaysReadable` are proved without a crash between the
  halves of a rollback (`RollbackSpec`), checked also up to the first crash of
  runs with `power` (`WriterCrash`).

Abstracted in the modelled parts: frame encoding and checksums (a cell is
recognised for what it is; a CRC is taken to detect every torn frame), node ids
and `wal.lock` (one process owns the directory), creation of a segment through
a temporary file (a new segment appears whole or not at all, which the rename
and directory sync give), the encodings of Kafka and Parquet, metrics and
logging. A power failure between `remove_file` and the directory sync, after
which a removed segment would be back, is not modelled. `replay_once` without
runtime state, which only tests and benches call, is left out.

Not modelled: the Rhai language and the validation of events (pure computation
over one event, without state; what a script emits is a constant of `WalReplay`
and `Delivery`), the preview and trial runs of scripts, listings, sessions and
passwords of the admin API, the mock data of an in-memory database, the web UI,
settings, logging and metrics.

## 7. Running

    tlc -workers 2 -config WriterCrash.cfg MCWalWriter
    tlc -workers 2 -config ReplayEveryFault.cfg MCWalReplay
    tlc -workers 2 -config Delivery.cfg MCDelivery
    tlc -workers 2 -config ControlPlane.cfg MCControlPlane
    tlc -workers 2 -config NodeStart.cfg MCNodeStart
    tlapm WalWriterProofs.tla
    tlapm WalLogProofs.tla
    tlapm WalReplayProofs.tla
    tlapm DeliveryProofs.tla
    tlapm RepositoriesProofs.tla
    tlapm ControlPlaneProofs.tla
    tlapm NodeStartProofs.tla
