----------------------------- MODULE IngestLog -----------------------------
(***************************************************************************)
(* What the WAL promises to those who send records and to replay, without  *)
(* segments, offsets, buffers or syncs (docs/wal.md; src/src/wal/mod.rs    *)
(* keeps it): one queue, read from the front, whose unacknowledged part    *)
(* may vanish, and in which everything else stays in the order it was      *)
(* written.  The queue is a set of records with its order, because that is *)
(* what a change of the queue is about: who is in it, and who comes first. *)
(***************************************************************************)

CONSTANT Records

VARIABLES
  answer,  \* what each record's sender knows
  log,     \* the records replay has still to read
  order,   \* the pairs of them of which the first was written first
  done     \* the records replay is through with

vars == <<answer, log, order, done>>

Answers == {"none", "pending", "ok", "err", "lost"}
Promised == {r \in Records : answer[r] = "ok"}

Init ==
  /\ answer = [r \in Records |-> "none"]
  /\ log = {} /\ order = {} /\ done = {}

(* Some records leave the log; the others keep their order.                *)
Keep(kept) ==
  /\ log' = kept
  /\ order' = order \cap (kept \X kept)

(* A record is sent, and its sender waits.                                 *)
Send(r) ==
  /\ answer[r] = "none"
  /\ answer' = [answer EXCEPT ![r] = "pending"]
  /\ UNCHANGED <<log, order, done>>

(* A record somebody waits for enters the log, at the end and once.        *)
Write(r) ==
  /\ answer[r] = "pending" /\ r \notin log \cup done
  /\ log' = log \cup {r}
  /\ order' = order \cup (log \X {r})
  /\ UNCHANGED <<answer, done>>

(* Some waiting senders hear that their records are in the log, or replay  *)
(* has been faster.                                                        *)
Acknowledge ==
  /\ \E rs \in SUBSET (log \cup done) :
       /\ \A r \in rs : answer[r] = "pending"
       /\ answer' = [r \in Records |-> IF r \in rs THEN "ok" ELSE answer[r]]
  /\ UNCHANGED <<log, order, done>>

(* Some hear of a failure, or nothing any more; their records are not to   *)
(* be counted on.                                                          *)
Disappoint ==
  \E rs \in SUBSET {r \in Records : answer[r] = "pending"}, how \in {"err", "lost"} :
    answer' = [r \in Records |-> IF r \in rs THEN how ELSE answer[r]]

(* Records nobody has been promised leave the log.                         *)
Forget == \E kept \in SUBSET log : Promised \cap log \subseteq kept /\ Keep(kept)

Fail ==
  /\ Disappoint \/ UNCHANGED answer
  /\ Forget
  /\ UNCHANGED done

(* Replay carries the first record to its sinks.                           *)
Deliver ==
  /\ \E r \in log :
       /\ \A a \in log : <<a, r>> \notin order
       /\ done' = done \cup {r}
       /\ Keep(log \ {r})
  /\ UNCHANGED answer

Next == (\E r \in Records : Send(r) \/ Write(r)) \/ Acknowledge \/ Fail \/ Deliver

Spec == Init /\ [][Next]_vars
=============================================================================
