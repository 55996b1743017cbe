------------------------------ MODULE Delivery ------------------------------
(***************************************************************************)
(* What becomes of the events of a window: replay_batch_to_sinks and       *)
(* send_sink_events_in_batches (wal/replay.rs), the router (sinks/state.rs)*)
(* and the sinks behind it (sinks/kafka, parquet, blackhole, stdout).      *)
(* WalReplay has the log, the checkpoint file and the deferral of small    *)
(* windows in detail and commits a window to a sink in one step; here the  *)
(* records are their LSNs, and the steps of a sink are those of the code:  *)
(* one message after the other, one file by stat, write and rename.        *)
(***************************************************************************)
EXTENDS Integers, Sequences, FiniteSets, FiniteSetsExt, SequencesExt

CONSTANTS LastLsn,       \* the records are 1..LastLsn
          Kind,          \* the type of every sink; sinks are numbered in name order
          Storage,       \* what a Parquet target can do: "rename", "conditional", "plain"
          Configs,       \* by name: what the processors emit and the router holds
          WindowRecords, \* replay.max_records
          MaxTroubles    \* bound on failures, crashes and changes together

Lsns == 1..LastLsn
Sinks == DOMAIN Kind
Names == DOMAIN Configs
Unsent == "unsent"
Quarantined == "quarantined"
Kinds == {"kafka", "parquet", "blackhole", "stdout"}
Shapes == {"missing", "null", "string", "integer", "big", "fraction", "boolean", "object"}

(* An event: the record it comes from, its number among the record's, its  *)
(* size and what is found at the path of a column.                         *)
IsEvent(e) ==
  /\ {"lsn", "n", "bytes", "at"} = DOMAIN e
  /\ e.lsn \in Lsns /\ {e.n, e.bytes} \subseteq Nat /\ \A path \in DOMAIN e.at : e.at[path] \in Shapes

(* A configuration: the events of each record for each sink, the sinks of  *)
(* the router, their batch policies (max(1) of the settings) and columns,  *)
(* and the blackholes in mode fail.                                        *)
IsConfig(c) ==
  /\ \A l \in Lsns, s \in Sinks :
       /\ c.emits[l][s] \in Seq(ToSet(c.emits[l][s]))
       /\ \A e \in ToSet(c.emits[l][s]) : IsEvent(e) /\ e.lsn = l
       /\ \A i, j \in DOMAIN c.emits[l][s] : i < j => c.emits[l][s][i].n < c.emits[l][s][j].n
  /\ c.sinks \subseteq Sinks /\ c.failing \subseteq Sinks
  /\ \A s \in Sinks : c.batch[s].events \in Nat \ {0} /\ c.batch[s].bytes \in Nat \ {0}

ASSUME DeliveryAssumption ==
  /\ LastLsn \in Nat /\ Sinks \subseteq Nat /\ \A s \in Sinks : Kind[s] \in Kinds
  /\ \A s \in Sinks : Storage[s] \in {"rename", "conditional", "plain"}
  /\ \A c \in Names : IsConfig(Configs[c]) /\ c \notin {Unsent, Quarantined}
  /\ WindowRecords \in Nat \ {0}
  /\ MaxTroubles \in Nat

VARIABLES
  available,   \* the last record in the log
  config,      \* the processors and the router in force, by name
  checkpoint,  \* the checkpoint file
  pc,          \* where the pass stands
  upto,        \* the last record the pass has read
  window,      \* the records collected, and by which processors: [lsn, by]
  loads,       \* by sink, the events of the window that are still to be sent
  policy,      \* the batch policy it is sent them with: [events, bytes]
  left,        \* the messages of the chunk being sent
  pending,     \* the last record handled, if the checkpoint file lags behind; 0 if not
  topic,       \* what a topic holds, an event that is repeated at its first place
  files,       \* the finished Parquet files: [name, events]
  temps,       \* the .tmp files: [name, events]
  settled,     \* what became of a record: who emitted the events last sent for it
  appends, failures, crashes, changes

pass == <<pc, upto, window, loads, policy, left, pending>>
outside == <<topic, files, temps>>
bounds == <<failures, crashes, changes>>
vars == <<available, appends, config, checkpoint, pass, outside, settled, bounds>>

Now == Configs[config]
Troubles == failures + crashes + changes

(* The events of a record for a sink, as the processors by emit them.      *)
Events(by, l, s) == IF by \in Names THEN Configs[by].emits[l][s] ELSE <<>>

NoPolicy == [events |-> 0, bytes |-> 0]
NoLoads == [s \in Sinks |-> <<>>]

Init ==
  /\ available \in {0, LastLsn} /\ appends = 0
  /\ config \in Names
  /\ checkpoint = 0
  /\ pc = "idle" /\ upto = 0 /\ window = <<>> /\ loads = NoLoads /\ policy = NoPolicy /\ left = <<>>
  /\ pending = 0
  /\ topic = [s \in Sinks |-> <<>>]
  /\ files = [s \in Sinks |-> {}] /\ temps = [s \in Sinks |-> {}]
  /\ settled = [l \in Lsns |-> Unsent]
  /\ failures = 0 /\ crashes = 0 /\ changes = 0

---------------------------------------------------------------------------
(* Columns and files.                                                      *)

(* project_column: what a column of a type takes.                          *)
Accepts(type) ==
  CASE type = "string" -> {"string"}
    [] type = "number" -> {"integer", "big", "fraction"}
    [] type = "integer" -> {"integer"}
    [] type = "boolean" -> {"boolean"}
    [] type = "json" -> Shapes \ {"missing", "null"}

Extract(event, path) ==
  IF path = "$" THEN "object" ELSE IF path \in DOMAIN event.at THEN event.at[path] ELSE "missing"

Fits(event, column) ==
  LET found == Extract(event, column.path) IN
  found \in Accepts(column.type) \/ (column.nullable /\ found \in {"missing", "null"})

Encodable(by, s, events) ==
  \A i \in DOMAIN events, column \in Configs[by].columns[s] : Fits(events[i], column)

(* parquet_file_name: the node and the LSNs of the chunk.                  *)
FileName(chunk) == <<chunk.first, chunk.last>>
File(chunk) == [name |-> FileName(chunk), events |-> chunk.events]
Exists(s, chunk) == \E f \in files[s] : f.name = FileName(chunk)
Without(fs, chunk) == {f \in fs : f.name # FileName(chunk)}

(* send_sink_events_in_batches: a chunk takes events until one would make  *)
(* it too long or too big, and the first in any case.                      *)
Bytes(events, n) == MapThenSumSet(LAMBDA i : events[i].bytes, 1..n)
FitsIn(n, events, limits) == n <= limits.events /\ Bytes(events, n) <= limits.bytes
ChunkLength(events, limits) ==
  CHOOSE n \in 1..Len(events) :
    /\ \A m \in 2..n : FitsIn(m, events, limits)
    /\ n < Len(events) => ~FitsIn(n + 1, events, limits)
ChunkOf(events, n) ==
  [first |-> events[1].lsn, last |-> events[n].lsn, events |-> SubSeq(events, 1, n)]

---------------------------------------------------------------------------
(* The world around a pass.                                                *)

AppendRecord ==
  /\ available < LastLsn
  /\ available' = available + 1 /\ appends' = appends + 1
  /\ UNCHANGED <<config, checkpoint, pass, outside, settled, bounds>>

(* The refresh loops install other processors and another router.          *)
Refresh ==
  /\ Troubles < MaxTroubles
  /\ config' \in Names \ {config}
  /\ changes' = changes + 1
  /\ UNCHANGED <<available, appends, checkpoint, pass, outside, settled, failures, crashes>>

PassOver ==
  /\ pc' = "idle" /\ upto' = 0 /\ window' = <<>> /\ loads' = NoLoads /\ policy' = NoPolicy /\ left' = <<>>
  /\ pending' = 0

Todo == {s \in Sinks : loads[s] # <<>>}
Sink == CHOOSE s \in Todo : \A t \in Todo : s <= t
Chunk == ChunkOf(loads[Sink], ChunkLength(loads[Sink], policy))

Dropped == temps' = [temps EXCEPT ![Sink] = Without(@, Chunk)]
CutShort == temps' = [temps EXCEPT ![Sink] = Without(@, Chunk) \cup
                                       {[name |-> FileName(Chunk), events |-> <<>>]}]

(* A process that dies while it writes a .tmp file leaves a part of it.    *)
Crash ==
  /\ Troubles < MaxTroubles
  /\ crashes' = crashes + 1
  /\ PassOver
  /\ \/ UNCHANGED temps
     \/ pc = "write" /\ CutShort
  /\ UNCHANGED <<available, appends, config, checkpoint, topic, files, settled, failures, changes>>

---------------------------------------------------------------------------
(* replay_once_inner: the window.                                          *)

OpenPass ==
  /\ pc = "idle"
  /\ Now.sinks # {}
  /\ checkpoint < available
  /\ pc' = "collect" /\ upto' = available
  /\ UNCHANGED <<available, appends, config, checkpoint, window, loads, policy, left, pending,
                 outside, settled, bounds>>

Handled == IF window # <<>> THEN Last(window).lsn ELSE IF pending # 0 THEN pending ELSE checkpoint

Known(l) == \A s \in Sinks : Now.emits[l][s] # <<>> => s \in Now.sinks

(* process_record and group_deliveries_by_sink: the record joins the       *)
(* window with the events the processor in force emits for it.             *)
Collect ==
  /\ pc = "collect" /\ Handled < upto /\ Known(Handled + 1)
  /\ Len(window) < WindowRecords
  /\ window' = Append(window, [lsn |-> Handled + 1, by |-> config])
  /\ loads' = [s \in Sinks |-> loads[s] \o Now.emits[Handled + 1][s]]
  /\ UNCHANGED <<available, appends, config, checkpoint, pc, upto, policy, left, pending,
                 outside, settled, bounds>>

(* A record for a sink the router does not have is quarantined, after the  *)
(* window before it is through.  The code does not look at the router      *)
(* again after that window, as WalReplay has it; here a record the router  *)
(* has come to know meanwhile is collected.                                *)
Quarantine ==
  /\ pc = "collect" /\ Handled < upto /\ ~Known(Handled + 1)
  /\ window = <<>>
  /\ pending' = Handled + 1
  /\ settled' = [settled EXCEPT ![Handled + 1] = Quarantined]
  /\ UNCHANGED <<available, appends, config, checkpoint, pc, upto, window, loads, policy, left,
                 outside, bounds>>

(* The window is full, or there is nothing more for it.  In the bug it     *)
(* does not wait for either.                                               *)
SendWindowWrong ==
  /\ pc = "collect" /\ window # <<>>
  /\ pc' = "plan"
  /\ UNCHANGED <<available, appends, config, checkpoint, upto, window, loads, policy, left,
                 pending, outside, settled, bounds>>
SendWindow ==
  /\ pc = "collect" /\ window # <<>>
  /\ \/ Len(window) = WindowRecords
     \/ Handled = upto
     \/ Handled < upto /\ ~Known(Handled + 1)
  /\ pc' = "plan"
  /\ UNCHANGED <<available, appends, config, checkpoint, upto, window, loads, policy, left,
                 pending, outside, settled, bounds>>

---------------------------------------------------------------------------
(* replay_batch_to_sinks: one sink after the other.                        *)

(* The batch policy is read from the router of the moment.                 *)
PlanSink ==
  /\ pc = "plan" /\ Todo # {}
  /\ policy' = Now.batch[Sink]
  /\ pc' = "chunk"
  /\ UNCHANGED <<available, appends, config, checkpoint, upto, window, loads, left, pending,
                 outside, settled, bounds>>

(* In the bug the chunk after the last one is looked for.                  *)
ChunkDoneWrong ==
  /\ loads' = [loads EXCEPT ![Sink] = SubSeq(@, Len(Chunk.events) + 1, Len(@))]
  /\ left' = <<>>
  /\ pc' = IF Cardinality(Todo) = 1 THEN "chunk" ELSE "plan"
  /\ UNCHANGED <<policy, upto, window, pending>>
ChunkDone ==
  LET sent == Len(Chunk.events) IN
  /\ loads' = [loads EXCEPT ![Sink] = SubSeq(@, sent + 1, Len(@))]
  /\ left' = <<>>
  /\ IF sent = Len(loads[Sink]) THEN pc' = "plan" /\ policy' = NoPolicy
                                 ELSE pc' = "chunk" /\ UNCHANGED policy
  /\ UNCHANGED <<upto, window, pending>>

(* The pass returns an error and the loop tries again: the checkpoint file *)
(* is not touched, what was pending is forgotten.  In the bug the records  *)
(* before the failed chunk are taken for handled.                          *)
FailPassWrong ==
  /\ PassOver
  /\ checkpoint' = IF pc = "event" /\ Chunk.first > checkpoint
                     THEN Chunk.first - 1 ELSE checkpoint
FailPass == PassOver /\ UNCHANGED checkpoint

(* send_event_batch_to_sink with the router of the moment: the sink must   *)
(* be there.  Stdout and blackhole are through at once, the Parquet file   *)
(* is encoded, and the storage asked whether it exists.                    *)
Rejects(s, chunk) ==
  \/ s \notin Now.sinks
  \/ Kind[s] = "blackhole" /\ s \in Now.failing
  \/ Kind[s] = "parquet" /\ ~Encodable(config, s, chunk.events)

RejectChunk ==
  /\ pc = "chunk"
  /\ Rejects(Sink, Chunk)
  /\ FailPass
  /\ UNCHANGED <<available, appends, config, outside, settled, bounds>>

TakeChunk ==
  /\ pc = "chunk"
  /\ ~Rejects(Sink, Chunk)
  /\ CASE Kind[Sink] \in {"blackhole", "stdout"} -> ChunkDone
       [] Kind[Sink] = "kafka" -> /\ pc' = "event" /\ left' = Chunk.events
                                  /\ UNCHANGED <<upto, window, loads, policy, pending>>
       [] Kind[Sink] = "parquet" -> /\ pc' = IF Storage[Sink] = "conditional" THEN "put" ELSE "stat"
                                    /\ UNCHANGED <<upto, window, loads, policy, left, pending>>
  /\ UNCHANGED <<available, appends, config, checkpoint, outside, settled, bounds>>

---------------------------------------------------------------------------
(* Kafka: send_value for one event after the other.                        *)

Publish(s, e) == topic' = [topic EXCEPT ![s] = IF e \in ToSet(@) THEN @ ELSE Append(@, e)]

SendEvent ==
  /\ pc = "event"
  /\ Publish(Sink, Head(left))
  /\ IF Tail(left) = <<>>
       THEN ChunkDone
       ELSE left' = Tail(left) /\ UNCHANGED <<pc, upto, window, loads, policy, pending>>
  /\ UNCHANGED <<available, appends, config, checkpoint, files, temps, settled, bounds>>

(* delivery.timeout.ms passes, and the broker may have the message or not. *)
(* In the bug the message has another turn after the rest of the chunk.    *)
SendEventFailsWrong ==
  /\ pc = "event" /\ Troubles < MaxTroubles
  /\ failures' = failures + 1
  /\ left' = Append(Tail(left), Head(left))
  /\ UNCHANGED <<available, appends, config, checkpoint, pc, upto, window, loads, policy, pending,
                 outside, settled, crashes, changes>>
SendEventFails ==
  /\ pc = "event" /\ Troubles < MaxTroubles
  /\ failures' = failures + 1
  /\ UNCHANGED topic \/ Publish(Sink, Head(left))
  /\ FailPass
  /\ UNCHANGED <<available, appends, config, files, temps, settled, crashes, changes>>

---------------------------------------------------------------------------
(* Parquet: write_events and write_final_if_absent.                        *)

Finished(chunk) == files' = [files EXCEPT ![Sink] = @ \cup {File(chunk)}]

(* A file of that name is taken for the chunk.  In the bug a .tmp file is  *)
(* taken for a whole one.                                                  *)
StatWrong ==
  /\ pc = "stat"
  /\ IF Exists(Sink, Chunk) THEN ChunkDone
     ELSE /\ pc' = IF Storage[Sink] = "plain" THEN "put"
                   ELSE IF \E f \in temps[Sink] : f.name = FileName(Chunk) THEN "rename" ELSE "write"
          /\ UNCHANGED <<upto, window, loads, policy, left, pending>>
  /\ UNCHANGED <<available, appends, config, checkpoint, outside, settled, bounds>>
Stat ==
  /\ pc = "stat"
  /\ IF Exists(Sink, Chunk) THEN ChunkDone
     ELSE /\ pc' = IF Storage[Sink] = "plain" THEN "put" ELSE "write"
          /\ UNCHANGED <<upto, window, loads, policy, left, pending>>
  /\ UNCHANGED <<available, appends, config, checkpoint, outside, settled, bounds>>

(* In the bug the .tmp file must not be there yet.                         *)
WriteTempWrong ==
  /\ pc = "write"
  /\ ~\E f \in temps[Sink] : f.name = FileName(Chunk)
  /\ temps' = [temps EXCEPT ![Sink] = @ \cup {File(Chunk)}]
  /\ pc' = "rename"
  /\ UNCHANGED <<available, appends, config, checkpoint, upto, window, loads, policy, left, pending,
                 topic, files, settled, bounds>>
WriteTemp ==
  /\ pc = "write"
  /\ temps' = [temps EXCEPT ![Sink] = Without(@, Chunk) \cup {File(Chunk)}]
  /\ pc' = "rename"
  /\ UNCHANGED <<available, appends, config, checkpoint, upto, window, loads, policy, left, pending,
                 topic, files, settled, bounds>>

Rename ==
  /\ pc = "rename"
  /\ \E f \in temps[Sink] : f.name = FileName(Chunk) /\ files' = [files EXCEPT ![Sink] = @ \cup {f}]
  /\ Dropped
  /\ ChunkDone
  /\ UNCHANGED <<available, appends, config, checkpoint, topic, settled, bounds>>

(* Without rename the file is put in place at once, unless it exists.      *)
Put ==
  /\ pc = "put"
  /\ IF Exists(Sink, Chunk) THEN UNCHANGED files ELSE Finished(Chunk)
  /\ ChunkDone
  /\ UNCHANGED <<available, appends, config, checkpoint, topic, temps, settled, bounds>>

(* The storage answers with an error, having done what it was asked or     *)
(* not; the .tmp file is deleted if that can be done.                      *)
StorageFails ==
  /\ pc \in {"stat", "write", "rename", "put"} /\ Troubles < MaxTroubles
  /\ failures' = failures + 1
  /\ \/ UNCHANGED <<files, temps>>
     \/ pc \in {"write", "rename"} /\ Dropped /\ UNCHANGED files
     \/ pc = "write" /\ CutShort /\ UNCHANGED files
     \/ pc = "rename" /\ Dropped /\ Finished(Chunk)
     \/ pc = "put" /\ ~Exists(Sink, Chunk) /\ Finished(Chunk) /\ UNCHANGED temps
  /\ FailPass
  /\ UNCHANGED <<available, appends, config, topic, settled, crashes, changes>>

---------------------------------------------------------------------------
(* The checkpoint.                                                         *)

WindowSent ==
  /\ pc = "plan" /\ Todo = {}
  /\ pending' = Last(window).lsn
  /\ settled' = [l \in Lsns |-> IF \E i \in DOMAIN window : window[i].lsn = l
                                  THEN window[CHOOSE i \in DOMAIN window : window[i].lsn = l].by
                                  ELSE settled[l]]
  /\ window' = <<>>
  /\ pc' \in {"collect", "store"}
  /\ UNCHANGED <<available, appends, config, checkpoint, upto, loads, policy, left, outside, bounds>>

EndPass ==
  /\ pc = "collect" /\ window = <<>> /\ Handled = upto
  /\ pc' = "store"
  /\ UNCHANGED <<available, appends, config, checkpoint, upto, window, loads, policy, left, pending,
                 outside, settled, bounds>>

Store ==
  /\ pc = "store"
  /\ checkpoint' = IF pending = 0 THEN checkpoint ELSE pending
  /\ IF checkpoint' = upto THEN PassOver
     ELSE pc' = "collect" /\ pending' = 0 /\ UNCHANGED <<upto, window, loads, policy, left>>
  /\ UNCHANGED <<available, appends, config, outside, settled, bounds>>

StoreFails ==
  /\ pc = "store" /\ Troubles < MaxTroubles
  /\ failures' = failures + 1
  /\ UNCHANGED checkpoint \/ (pending # 0 /\ checkpoint' = pending)
  /\ PassOver
  /\ UNCHANGED <<available, appends, config, outside, settled, crashes, changes>>

Replay ==
  \/ OpenPass \/ Collect \/ Quarantine \/ SendWindow
  \/ PlanSink \/ RejectChunk \/ TakeChunk \/ SendEvent
  \/ Stat \/ WriteTemp \/ Rename \/ Put
  \/ WindowSent \/ EndPass \/ Store

Next == Replay \/ AppendRecord \/ Refresh \/ Crash \/ SendEventFails \/ StorageFails \/ StoreFails

Spec == Init /\ [][Next]_vars

(* The replay loop of a live process never stops.                          *)
FairSpec == Spec /\ WF_vars(Replay)

---------------------------------------------------------------------------
TypeOK ==
  /\ available \in 0..LastLsn /\ checkpoint \in 0..available /\ config \in Names
  /\ pc \in {"idle", "collect", "plan", "chunk", "event", "stat", "write", "rename", "put", "store"}
  /\ upto \in 0..available /\ pending \in 0..upto
  /\ DOMAIN loads = Sinks
  /\ pc \in {"chunk", "event", "stat", "write", "rename", "put"} => Todo # {}
  /\ \A i \in DOMAIN window : window[i].lsn \in Lsns
  /\ {appends, failures, crashes, changes} \subseteq Nat

EventsAt(fs) == UNION {ToSet(f.events) : f \in fs}
Held(s) == IF Kind[s] = "kafka" THEN ToSet(topic[s]) ELSE EventsAt(files[s])
Keeping == {s \in Sinks : Kind[s] \in {"kafka", "parquet"}}

(* Whatever failed and was tried again, what the checkpoint covers was     *)
(* quarantined or has reached its sinks: all events that the processors    *)
(* emitted for it when it was last sent (sinks/mod.rs 45-51: Ok only after *)
(* the commit point).                                                      *)
NothingLost ==
  \A l \in 1..checkpoint :
    /\ settled[l] # Unsent
    /\ \A s \in Keeping : ToSet(Events(settled[l], l, s)) \subseteq Held(s)

(* While the configuration stays, a topic shows events in log order.       *)
InLogOrder ==
  changes = 0 =>
    \A s \in Sinks : \A i, j \in DOMAIN topic[s] : i < j => topic[s][i].lsn <= topic[s][j].lsn

(* While the configuration stays, a file named after two LSNs holds the    *)
(* events of all records from the one to the other, and no part of them,   *)
(* each once and in the order of the log.                                  *)
Precedes(e, f) == e.lsn < f.lsn \/ (e.lsn = f.lsn /\ e.n < f.n)
FilesAreWhole ==
  changes = 0 =>
    \A s \in Sinks : \A f \in files[s] :
      /\ ToSet(f.events) = UNION {ToSet(Now.emits[l][s]) : l \in f.name[1]..f.name[2]}
      /\ \A i, j \in DOMAIN f.events : i < j => Precedes(f.events[i], f.events[j])

(* A retry of the same windows finds its files: no event is in two.        *)
NoFileTwice ==
  changes = 0 /\ appends = 0 =>
    \A s \in Sinks : \A f, g \in files[s] : f # g => ToSet(f.events) \cap ToSet(g.events) = {}

(* The configurations whose sinks take every event meant for them.         *)
Sound ==
  {c \in Names :
     /\ Configs[c].sinks # {}
     /\ \A l \in Lsns, s \in Configs[c].sinks :
          Configs[c].emits[l][s] # <<>> =>
            /\ ~(Kind[s] = "blackhole" /\ s \in Configs[c].failing)
            /\ Kind[s] = "parquet" => Encodable(c, s, Configs[c].emits[l][s])}

(* Once the configuration is sound, everything in the log is handled: an   *)
(* event a sink cannot take holds up the others no longer than that.       *)
EventuallyDelivered == <>[](config \in Sound) => []<>(checkpoint = available)
=============================================================================
