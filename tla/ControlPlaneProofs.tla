------------------------- MODULE ControlPlaneProofs -------------------------
(***************************************************************************)
(* Theorems about ControlPlane, for every set of handlers, rows, request   *)
(* bodies and bounds; but for types, with serializable transactions.       *)
(***************************************************************************)
EXTENDS ControlPlane, RepositoriesProofs, TLAPS

(***************************************************************************)
(* Lemmas about the transactions.                                          *)
(***************************************************************************)
IsWrite(w) == w.do \in {"insert", "update", "delete"} /\ w.table \in Tables
Decides(w) == w.do # "refuse" => IsWrite(w)

LEMMA ProjectDecisions ==
  ASSUME NEW S, NEW row, NEW i, NEW set
  PROVE  /\ Decides(CreateProject(S, row))
         /\ Decides(UpdateProject(S, i, set))
         /\ Decides(DeleteProject(S, i))
BY DEF Decides, IsWrite, CreateProject, UpdateProject, DeleteProject, Refuse, Insert, Update,
       Delete, Tables

LEMMA ScriptDecisions ==
  ASSUME NEW S, NEW row, NEW i, NEW set, NEW ids, NEW status
  PROVE  /\ Decides(CreateScript(S, row, ids))
         /\ Decides(UpdateScript(S, i, set, ids))
         /\ Decides(UpdateScriptStatus(S, i, status))
BY DEF Decides, IsWrite, CreateScript, UpdateScript, UpdateScriptStatus, Refuse, Insert, Update,
       Tables

LEMMA BindingDecisions ==
  ASSUME NEW S, NEW p, NEW i, NEW enabled
  PROVE  /\ Decides(AssignProcessor(S, p, i, enabled))
         /\ Decides(AssignDefaultProcessor(S, i, p))
         /\ Decides(DeleteBinding(S, p))
BY DEF Decides, IsWrite, AssignProcessor, AssignDefaultProcessor, DeleteBinding, Refuse, Insert,
       Update, Delete, Tables

LEMMA SinkDecisions ==
  ASSUME NEW S, NEW row, NEW i, NEW set
  PROVE  /\ Decides(CreateTarget(S, row))
         /\ Decides(UpdateTarget(S, i, set))
         /\ Decides(DeleteTarget(S, i))
         /\ Decides(CreateSink(S, row))
         /\ Decides(UpdateSink(S, i, set))
         /\ Decides(DeleteSink(S, i))
BY DEF Decides, IsWrite, CreateTarget, UpdateTarget, DeleteTarget, CreateSink, UpdateSink,
       DeleteSink, Refuse, Insert, Update, Delete, Tables

LEMMA CounterTyped == ASSUME NEW t \in Tables PROVE CounterOf(t) \in Counters
BY DEF CounterOf, Tables, Counters

(* A commit leaves alone what the registries of other counters read.       *)
LEMMA OthersKept ==
  ASSUME NEW D, NEW w, IsWrite(w), NEW seen, NEW t \in {"projects", "targets", "sinks"},
         CounterOf(w.table) # CounterOf(t)
  PROVE  Commit(D, w, seen).rows[t] = D.rows[t]
<1>1. t \in Tables BY DEF Tables
<1>2. t # w.table OBVIOUS
<1>3. Written(D, w, t) = D.rows[t]  BY <1>2 DEF Written, IsWrite
<1> QED BY <1>1, <1>3 DEF Commit

LEMMA ViewsDependOnRows ==
  ASSUME NEW D, NEW E
  PROVE  /\ D.rows["projects"] = E.rows["projects"] => View("projects", D) = View("projects", E)
         /\ D.rows["sinks"] = E.rows["sinks"] => EnabledSinks(D) = EnabledSinks(E)
         /\ D.rows["sinks"] = E.rows["sinks"] /\ D.rows["targets"] = E.rows["targets"] =>
              View("sinks", D) = View("sinks", E)
<1>1. ASSUME D.rows["projects"] = E.rows["projects"]
      PROVE  View("projects", D) = View("projects", E)
  BY <1>1, Zenon DEF View, ProjectSnapshot, EnabledProjects, Live, Row
<1>2. ASSUME D.rows["sinks"] = E.rows["sinks"]
      PROVE  EnabledSinks(D) = EnabledSinks(E)
  BY <1>2, Zenon DEF EnabledSinks, RuntimeSink, Live, Row
<1>3. ASSUME D.rows["sinks"] = E.rows["sinks"], D.rows["targets"] = E.rows["targets"]
      PROVE  View("sinks", D) = View("sinks", E)
  <2>1. EnabledSinks(D) = EnabledSinks(E)  BY <1>2, <1>3
  <2>2. ASSUME NEW s PROVE EnabledTarget(D, s) = EnabledTarget(E, s)
    BY <1>3, Zenon DEF EnabledTarget, Live, Row
  <2>3. RuntimeSinks(D, EnabledSinks(D)) = RuntimeSinks(E, EnabledSinks(E))
    BY <1>3, <2>1, <2>2, Zenon DEF RuntimeSinks, Row, EnabledTarget, Live
  <2> QED BY <2>3 DEF View
<1> QED BY <1>1, <1>2, <1>3

(***************************************************************************)
(* The counters.  A version only grows; a handler has reached no version   *)
(* the database has not, a registry serves none, and what was answered for *)
(* is served.                                                              *)
(***************************************************************************)
IsHandler(x) ==
  /\ DOMAIN x = DOMAIN Idle
  /\ x.base \in [Counters -> Nat] /\ x.reached \in [Counters -> Nat]
  /\ x.pc = "commit" => IsWrite(x.txn)

IsLoad(x) ==
  /\ DOMAIN x = {"by", "before", "step", "rows"}
  /\ x.by \in Handlers \cup {Loop, Nobody} /\ x.before \in Nat /\ x.step \in Nat
  /\ x.by = Nobody => x.step = 0

Shapes ==
  /\ db.version \in [Counters -> Nat]
  /\ DOMAIN handler = Handlers /\ \A h \in Handlers : IsHandler(handler[h])
  /\ DOMAIN registry = Registries /\ DOMAIN load = Registries
  /\ \A r \in Registries : registry[r].version \in Nat /\ IsLoad(load[r])
  /\ answered \in [Registries -> Nat]

CountersGrow ==
  /\ \A h \in Handlers, c \in Counters : handler[h].reached[c] <= db.version[c]
  /\ \A r \in Registries : /\ registry[r].version <= db.version[r]
                           /\ load[r].before <= db.version[r]

CountInv == Shapes /\ CountersGrow /\ AnsweredInForce

(* Under serializable transactions a commit moves one counter on by one.   *)
LEMMA CommitCounts ==
  ASSUME Shapes, NEW h \in Handlers, handler[h].pc = "commit", Committable(h),
         Isolation = "serializable",
         db' = Commit(db, handler[h].txn, handler[h].base[CounterOf(handler[h].txn.table)])
  PROVE  LET c == CounterOf(handler[h].txn.table)
         IN /\ c \in Counters
            /\ db'.version = [db.version EXCEPT ![c] = db.version[c] + 1]
            /\ db'.version \in [Counters -> Nat]
            /\ \A d \in Counters : db.version[d] <= db'.version[d]
<1> DEFINE c == CounterOf(handler[h].txn.table)
<1>1. c \in Counters  BY CounterTyped DEF Shapes, IsHandler, IsWrite
<1>2. handler[h].base = db.version  BY DEF Committable
<1>3. db'.version = [db.version EXCEPT ![c] = db.version[c] + 1]
  BY <1>2 DEF Commit, Bumped
<1>4. db.version \in [Counters -> Nat]  BY DEF Shapes
<1> HIDE DEF c
<1>5. db'.version \in [Counters -> Nat] /\ \A d \in Counters : db.version[d] <= db'.version[d]
  BY <1>1, <1>3, <1>4
<1> QED BY <1>1, <1>3, <1>5 DEF c

(* A step that touches nothing but one handler.                            *)
LEMMA IdleIsHandler == IsHandler(Idle) /\ \A c \in Counters : Idle.reached[c] = 0
BY DEF IsHandler, Idle

LEMMA HandlerChanges ==
  ASSUME CountInv, NEW h, NEW new, IsHandler(new),
         \A c \in Counters : new.reached[c] <= db.version[c],
         handler' = [handler EXCEPT ![h] = new],
         UNCHANGED <<db, registry, load, answered>>
  PROVE  CountInv'
<1>1. Shapes'  BY DEF CountInv, Shapes
<1>2. CountersGrow'  BY DEF CountInv, Shapes, CountersGrow
<1> QED BY <1>1, <1>2 DEF CountInv, AnsweredInForce

LEMMA BecomesIdle ==
  ASSUME CountInv, NEW h, handler' = [handler EXCEPT ![h] = Idle],
         UNCHANGED <<db, registry, load, answered>>
  PROVE  CountInv'
<1>1. \A c \in Counters : Idle.reached[c] <= db.version[c]
  BY IdleIsHandler DEF CountInv, Shapes
<1> QED BY <1>1, HandlerChanges, IdleIsHandler

LEMMA BeginCounts ==
  ASSUME CountInv, NEW h \in Handlers, NEW txn, NEW bind, NEW todo,
         Begin(h, txn, bind, todo), Decides(txn)
  PROVE  CountInv'
<1> DEFINE new == [handler[h] EXCEPT !.pc = "commit", !.txn = txn, !.base = db.version,
                          !.ids = {}, !.bind = bind, !.todo = Refreshed(h, todo)]
<1>1. UNCHANGED <<db, registry, load, answered>>  BY DEF Begin
<1>2. CASE txn.do = "refuse"
  BY <1>1, <1>2, BecomesIdle DEF Begin
<1>3. CASE txn.do # "refuse"
  <2>1. handler' = [handler EXCEPT ![h] = new]  BY <1>3 DEF Begin
  <2>2. IsWrite(txn)  BY <1>3 DEF Decides
  <2>3. IsHandler(handler[h]) /\ db.version \in [Counters -> Nat]  BY DEF CountInv, Shapes
  <2>4. /\ DOMAIN new = DOMAIN Idle /\ new.base = db.version /\ new.txn = txn
        /\ new.reached = handler[h].reached
    BY <2>3 DEF IsHandler, Idle
  <2>5. IsHandler(new) /\ \A c \in Counters : new.reached[c] <= db.version[c]
    BY <2>2, <2>3, <2>4 DEF CountInv, CountersGrow, IsHandler
  <2> HIDE DEF new
  <2> QED BY <1>1, <2>1, <2>5, HandlerChanges
<1> QED BY <1>2, <1>3

LEMMA RequestCounts ==
  ASSUME CountInv, NEW h \in Handlers, Request(h)
  PROVE  CountInv'
<1>1. CASE BeginCreateProject(h)
  BY <1>1, BeginCounts, ProjectDecisions DEF BeginCreateProject, Direct
<1>2. CASE BeginUpdateProject(h)
  BY <1>2, BeginCounts, ProjectDecisions DEF BeginUpdateProject, Direct
<1>3. CASE BeginDeleteProject(h)
  BY <1>3, BeginCounts, ProjectDecisions DEF BeginDeleteProject, Direct
<1>4. CASE BeginUpdateScriptStatus(h)
  BY <1>4, BeginCounts, ScriptDecisions DEF BeginUpdateScriptStatus, Direct
<1>5. CASE BeginAssign(h)
  BY <1>5, BeginCounts, BindingDecisions DEF BeginAssign, Direct
<1>6. CASE BeginDeleteBinding(h)
  BY <1>6, BeginCounts, BindingDecisions DEF BeginDeleteBinding, Direct
<1>7. CASE BeginCreateTarget(h)
  BY <1>7, BeginCounts, SinkDecisions DEF BeginCreateTarget, Direct
<1>8. CASE BeginUpdateTarget(h)
  BY <1>8, BeginCounts, SinkDecisions DEF BeginUpdateTarget, Direct
<1>9. CASE BeginDeleteTarget(h)
  BY <1>9, BeginCounts, SinkDecisions DEF BeginDeleteTarget, Direct
<1>10. CASE BeginCreateSink(h)
  BY <1>10, BeginCounts, SinkDecisions DEF BeginCreateSink, Direct
<1>11. CASE BeginUpdateSink(h)
  BY <1>11, BeginCounts, SinkDecisions DEF BeginUpdateSink, Direct
<1>12. CASE BeginDeleteSink(h)
  BY <1>12, BeginCounts, SinkDecisions DEF BeginDeleteSink, Direct
<1>13. CASE ReadSinkIds(h)
  <2> DEFINE new == [handler[h] EXCEPT !.pc = "script", !.ids = EnabledSinkIds(db)]
  <2>1. /\ handler' = [handler EXCEPT ![h] = new]
        /\ UNCHANGED <<db, registry, load, answered>>
    BY <1>13 DEF ReadSinkIds
  <2>2. IsHandler(handler[h])  BY DEF CountInv, Shapes
  <2>3. /\ DOMAIN new = DOMAIN Idle /\ new.base = handler[h].base
        /\ new.reached = handler[h].reached /\ new.pc = "script"
    BY <2>2 DEF IsHandler, Idle
  <2>4. IsHandler(new) /\ \A c \in Counters : new.reached[c] <= db.version[c]
    BY <2>2, <2>3 DEF CountInv, CountersGrow, IsHandler
  <2> HIDE DEF new
  <2> QED BY <2>1, <2>4, HandlerChanges
<1> QED
  BY <1>1, <1>2, <1>3, <1>4, <1>5, <1>6, <1>7, <1>8, <1>9, <1>10, <1>11, <1>12, <1>13 DEF Request

LEMMA CommitCountsOn ==
  ASSUME CountInv, NEW h \in Handlers, CommitTransaction(h), Isolation = "serializable"
  PROVE  CountInv'
<1> DEFINE c == CounterOf(handler[h].txn.table)
           new == AfterCommit(h)
<1>1. /\ c \in Counters
      /\ db'.version = [db.version EXCEPT ![c] = db.version[c] + 1]
      /\ db'.version \in [Counters -> Nat]
      /\ \A d \in Counters : db.version[d] <= db'.version[d]
  BY CommitCounts DEF CommitTransaction, CountInv
<1>2. handler' = [handler EXCEPT ![h] = new] /\ UNCHANGED <<registry, load, answered>>
  BY DEF CommitTransaction
<1>3. IsHandler(new) /\ \A d \in Counters : new.reached[d] <= db'.version[d]
  <2>1. IsHandler(handler[h]) /\ db.version \in [Counters -> Nat]  BY DEF CountInv, Shapes
  <2>2. handler[h].base = db.version  BY DEF CommitTransaction, Committable
  <2> DEFINE reached == [handler[h].reached EXCEPT ![c] = handler[h].base[c] + 1]
  <2>3. /\ reached \in [Counters -> Nat]
        /\ \A d \in Counters : reached[d] <= db'.version[d]
    <3> HIDE DEF c
    <3> QED BY <1>1, <2>1, <2>2 DEF IsHandler, CountInv, CountersGrow
  <2>4. \/ new = Idle
        \/ new = [handler[h] EXCEPT !.pc = "assign", !.txn = Refuse("none"), !.reached = reached,
                               !.bind = FALSE, !.project = Len(db.rows["projects"]) + 1]
        \/ new = [handler[h] EXCEPT !.pc = "refresh", !.txn = Refuse("none"),
                                      !.reached = reached]
    BY Zenon DEF AfterCommit
  <2> HIDE DEF new, reached, c
  <2>5. CASE new = Idle
    BY <1>1, <2>5, IdleIsHandler
  <2>6. CASE new # Idle
    <3>1. /\ DOMAIN new = DOMAIN Idle /\ new.base = handler[h].base /\ new.reached = reached
          /\ new.pc \in {"assign", "refresh"}
      BY <2>1, <2>4, <2>6 DEF IsHandler, Idle
    <3> QED BY <2>1, <2>3, <3>1 DEF IsHandler
  <2> QED BY <2>5, <2>6
<1> HIDE DEF c, new
<1>4. Shapes'  BY <1>1, <1>2, <1>3 DEF CountInv, Shapes
<1>5. CountersGrow'
  BY <1>1, <1>2, <1>3 DEF CountInv, Shapes, CountersGrow, Registries, IsLoad, IsHandler
<1> QED BY <1>2, <1>4, <1>5 DEF CountInv, AnsweredInForce

LEMMA ProceedCounts ==
  ASSUME CountInv, NEW h \in Handlers, Proceed(h), Isolation = "serializable"
  PROVE  CountInv'
<1>1. CASE BeginCreateScript(h)
  BY <1>1, BeginCounts, ScriptDecisions DEF BeginCreateScript
<1>2. CASE BeginUpdateScript(h)
  BY <1>2, BeginCounts, ScriptDecisions DEF BeginUpdateScript
<1>3. CASE BeginAssignDefault(h)
  BY <1>3, BeginCounts, BindingDecisions DEF BeginAssignDefault
<1>4. CASE CommitTransaction(h)
  BY <1>4, CommitCountsOn
<1>5. CASE RefuseTransaction(h)
  BY <1>5, BecomesIdle DEF RefuseTransaction
<1> QED BY <1>1, <1>2, <1>3, <1>4, <1>5 DEF Proceed

(* Going on to the next registry, or answering, forgets no version.        *)
LEMMA OnwardKeeps ==
  ASSUME CountInv, NEW by \in Handlers \cup {Loop}, Onward(by)
  PROVE  /\ DOMAIN handler' = Handlers
         /\ \A h \in Handlers : /\ IsHandler(handler'[h])
                                /\ \A c \in Counters : handler'[h].reached[c] <= db.version[c]
<1>1. CASE by = Loop
  BY <1>1 DEF Onward, CountInv, Shapes, CountersGrow
<1>2. CASE by # Loop
  <2> DEFINE next == [handler[by] EXCEPT !.todo = Tail(@)]
             new == IF Len(handler[by].todo) = 1 THEN Idle ELSE next
  <2>1. by \in Handlers  BY <1>2
  <2>2. handler' = [handler EXCEPT ![by] = new]  BY <1>2 DEF Onward
  <2>3. IsHandler(handler[by])  BY <2>1 DEF CountInv, Shapes
  <2>4. /\ DOMAIN next = DOMAIN Idle /\ next.base = handler[by].base
        /\ next.reached = handler[by].reached /\ next.pc = handler[by].pc
        /\ next.txn = handler[by].txn
    BY <2>3 DEF IsHandler, Idle
  <2>5. IsHandler(next) /\ \A c \in Counters : next.reached[c] <= db.version[c]
    BY <2>1, <2>3, <2>4 DEF IsHandler, CountInv, CountersGrow
  <2>6. IsHandler(new) /\ \A c \in Counters : new.reached[c] <= db.version[c]
    BY <2>5, IdleIsHandler DEF CountInv, Shapes
  <2> HIDE DEF new
  <2> QED BY <2>1, <2>2, <2>6 DEF CountInv, Shapes, CountersGrow
<1> QED BY <1>1, <1>2

(* What is answered for is served, if what the database holds is.          *)
LEMMA AnswersKeep ==
  ASSUME CountInv, NEW by \in Handlers \cup {Loop}, NEW r \in Registries, Answers(by, r),
         NEW served \in Nat, db.version[r] <= served, registry[r].version <= served
  PROVE  /\ answered' \in [Registries -> Nat]
         /\ answered'[r] <= served
         /\ \A q \in Registries \ {r} : answered'[q] = answered[q]
<1>1. answered \in [Registries -> Nat] /\ answered[r] <= registry[r].version
      /\ registry[r].version \in Nat /\ db.version[r] \in Nat
  BY DEF CountInv, Shapes, AnsweredInForce, Registries
<1>2. CASE by = Loop \/ handler[by].reached[r] < answered[r]
  BY <1>1, <1>2 DEF Answers
<1>3. CASE ~(by = Loop \/ handler[by].reached[r] < answered[r])
  <2>1. handler[by].reached[r] \in Nat /\ handler[by].reached[r] <= db.version[r]
    BY <1>3 DEF CountInv, Shapes, IsHandler, CountersGrow, Registries
  <2> QED BY <1>1, <1>3, <2>1 DEF Answers
<1> QED BY <1>2, <1>3

LEMMA FreeIsLoad ==
  /\ \A r, by : by \in Handlers \cup {Loop, Nobody} =>
                IsLoad(Fresh(r, by)) /\ Fresh(r, by).before = 0
  /\ \A r : IsLoad(Free(r)) /\ Free(r).before = 0
BY DEF IsLoad, Fresh, Free

(* A step that touches one load only.                                      *)
LEMMA LoadChanges ==
  ASSUME CountInv, NEW r \in Registries, NEW new, IsLoad(new), new.before <= db.version[r],
         load' = [load EXCEPT ![r] = new], UNCHANGED <<db, handler, registry, answered>>
  PROVE  CountInv'
<1>1. Shapes'  BY DEF CountInv, Shapes
<1>2. CountersGrow'  BY DEF CountInv, Shapes, CountersGrow
<1> QED BY <1>1, <1>2 DEF CountInv, AnsweredInForce

(* A refresh that ends, with what it installs or without.                  *)
LEMMA RefreshEnds ==
  ASSUME CountInv, NEW r \in Registries, NEW by \in Handlers \cup {Loop}, Onward(by),
         (load' = [load EXCEPT ![r] = Free(r)]) \/ UNCHANGED load,
         UNCHANGED db,
         \/ /\ UNCHANGED registry \/ registry' = [registry EXCEPT ![r] = registry[r]]
            /\ \/ UNCHANGED answered
               \/ Answers(by, r) /\ db.version[r] <= registry[r].version
         \/ /\ \E rows : registry' = [registry EXCEPT ![r] = [version |-> db.version[r],
                                                              rows |-> rows]]
            /\ Answers(by, r)
  PROVE  CountInv'
<1>1. /\ DOMAIN handler' = Handlers
      /\ \A h \in Handlers : /\ IsHandler(handler'[h])
                             /\ \A c \in Counters : handler'[h].reached[c] <= db.version[c]
  BY OnwardKeeps
<1>2. /\ DOMAIN load' = Registries
      /\ \A q \in Registries : IsLoad(load'[q]) /\ load'[q].before <= db.version[q]
  <2>1. IsLoad(Free(r)) /\ Free(r).before <= db.version[r]
    <3>1. db.version[r] \in Nat  BY DEF CountInv, Shapes, Registries
    <3> QED BY <3>1, FreeIsLoad
  <2> QED BY <2>1 DEF CountInv, Shapes, CountersGrow
<1>3. /\ DOMAIN registry' = Registries
      /\ answered' \in [Registries -> Nat]
      /\ \A q \in Registries : /\ registry'[q].version \in Nat
                               /\ registry'[q].version <= db.version[q]
                               /\ answered'[q] <= registry'[q].version
  <2> DEFINE same == UNCHANGED registry \/ registry' = [registry EXCEPT ![r] = registry[r]]
  <2>1. CASE same /\ UNCHANGED answered
    BY <2>1 DEF CountInv, Shapes, CountersGrow, AnsweredInForce
  <2>2. CASE same /\ Answers(by, r) /\ db.version[r] <= registry[r].version
    <3>1. registry[r].version \in Nat  BY DEF CountInv, Shapes
    <3>2. /\ answered' \in [Registries -> Nat] /\ answered'[r] <= registry[r].version
          /\ \A q \in Registries \ {r} : answered'[q] = answered[q]
      BY <2>2, <3>1, AnswersKeep
    <3> QED BY <2>2, <3>2 DEF CountInv, Shapes, CountersGrow, AnsweredInForce
  <2>3. ASSUME NEW rows,
               registry' = [registry EXCEPT ![r] = [version |-> db.version[r], rows |-> rows]],
               Answers(by, r)
        PROVE  /\ DOMAIN registry' = Registries
               /\ answered' \in [Registries -> Nat]
               /\ \A q \in Registries : /\ registry'[q].version \in Nat
                                        /\ registry'[q].version <= db.version[q]
                                        /\ answered'[q] <= registry'[q].version
    <3>1. db.version[r] \in Nat /\ registry[r].version <= db.version[r]
      BY DEF CountInv, Shapes, CountersGrow, Registries
    <3>2. /\ answered' \in [Registries -> Nat] /\ answered'[r] <= db.version[r]
          /\ \A q \in Registries \ {r} : answered'[q] = answered[q]
      BY <2>3, <3>1, AnswersKeep
    <3> DEFINE new == [version |-> db.version[r], rows |-> rows]
    <3>3. new.version = db.version[r]  OBVIOUS
    <3>4. registry' = [registry EXCEPT ![r] = new]  BY <2>3
    <3> HIDE DEF new
    <3> QED BY <3>1, <3>2, <3>3, <3>4 DEF CountInv, Shapes, CountersGrow, AnsweredInForce
  <2> QED BY <2>1, <2>2, <2>3
<1>4. Shapes' /\ CountersGrow'
  BY <1>1, <1>2, <1>3 DEF CountInv, Shapes, CountersGrow
<1> QED BY <1>3, <1>4 DEF CountInv, AnsweredInForce

LEMMA RefreshCounts ==
  ASSUME CountInv, NEW r \in Registries, Refresh(r) \/ ReadFails(r)
  PROVE  CountInv'
<1>0. IsLoad(load[r]) /\ db.version \in [Counters -> Nat] /\ Counters = Registries
  BY DEF CountInv, Shapes, Registries
<1>1. ASSUME NEW by \in Handlers \cup {Loop}, StartRefresh(r, by)
      PROVE  CountInv'
  <2>1. CASE UpToDate(r)
    <3>1. Onward(by) /\ Answers(by, r) /\ UNCHANGED <<load, db, registry>>
      BY <1>1, <2>1 DEF StartRefresh
    <3>2. db.version[r] <= registry[r].version
      BY <1>0, <2>1 DEF UpToDate, CountInv, Shapes
    <3> QED BY <3>1, <3>2, RefreshEnds
  <2>2. CASE ~UpToDate(r)
    <3>1. /\ load' = [load EXCEPT ![r] = Fresh(r, by)]
          /\ UNCHANGED <<db, handler, registry, answered>>
      BY <1>1, <2>2 DEF StartRefresh
    <3>2. IsLoad(Fresh(r, by)) /\ Fresh(r, by).before <= db.version[r]
      BY <1>0, FreeIsLoad
    <3> QED BY <3>1, <3>2, LoadChanges
  <2> QED BY <2>1, <2>2
<1>2. CASE ReadBefore(r)
  <2> DEFINE new == [load[r] EXCEPT !.before = db.version[r], !.step = 1]
  <2>1. load' = [load EXCEPT ![r] = new] /\ UNCHANGED <<db, handler, registry, answered>>
    BY <1>2 DEF ReadBefore
  <2>2. IsLoad(new) /\ new.before <= db.version[r]
    BY <1>0, <1>2 DEF IsLoad, ReadBefore
  <2> HIDE DEF new
  <2> QED BY <2>1, <2>2, LoadChanges
<1>3. CASE ReadRows(r)
  <2> DEFINE new == [load[r] EXCEPT !.rows = Read(r, load[r].step, @, db), !.step = @ + 1]
  <2>1. load' = [load EXCEPT ![r] = new] /\ UNCHANGED <<db, handler, registry, answered>>
    BY <1>3 DEF ReadRows
  <2>2. load[r].step >= 1 /\ load[r].before <= db.version[r]
    BY <1>3 DEF ReadRows, CountInv, CountersGrow
  <2>3. IsLoad(new) /\ new.before <= db.version[r]
    BY <1>0, <2>2 DEF IsLoad
  <2> HIDE DEF new
  <2> QED BY <2>1, <2>3, LoadChanges
<1>4. CASE ReadAgain(r)
  <2>1. /\ load' = [load EXCEPT ![r] = Fresh(r, load[r].by)]
        /\ UNCHANGED <<db, handler, registry, answered>>
    BY <1>4 DEF ReadAgain
  <2>2. IsLoad(Fresh(r, load[r].by)) /\ Fresh(r, load[r].by).before <= db.version[r]
    BY <1>0, FreeIsLoad DEF IsLoad
  <2> QED BY <2>1, <2>2, LoadChanges
<1>5. ASSUME load[r].step = Queries(r) + 1 PROVE load[r].by \in Handlers \cup {Loop}
  BY <1>0, <1>5 DEF IsLoad, Queries, Registries, Counters
<1>6. CASE Install(r)
  <2>1. /\ Onward(load[r].by) /\ Answers(load[r].by, r)
        /\ load' = [load EXCEPT ![r] = Free(r)] /\ UNCHANGED db
        /\ load[r].by \in Handlers \cup {Loop}
    BY <1>5, <1>6 DEF Install
  <2>2. CASE Newer(r)
    <3>1. registry' = [registry EXCEPT ![r] = [version |-> db.version[r],
                                               rows |-> load[r].rows]]
      BY <1>6, <2>2 DEF Install
    <3> QED BY <2>1, <3>1, RefreshEnds
  <2>3. CASE ~Newer(r)
    <3>1. registry' = [registry EXCEPT ![r] = registry[r]]
      BY <1>6, <2>3 DEF Install
    <3>2. db.version[r] <= registry[r].version
      BY <1>0, <2>3 DEF Newer, CountInv, Shapes
    <3> QED BY <2>1, <3>1, <3>2, RefreshEnds
  <2> QED BY <2>2, <2>3
<1>7. CASE BuildFails(r)
  BY <1>5, <1>7, RefreshEnds DEF BuildFails
<1>8. CASE ReadFails(r)
  <2>1. load[r].by \in Handlers \cup {Loop}  BY <1>0, <1>8 DEF ReadFails, IsLoad
  <2> QED BY <1>8, <2>1, RefreshEnds DEF ReadFails
<1> QED BY <1>1, <1>2, <1>3, <1>4, <1>6, <1>7, <1>8 DEF Refresh

LEMMA StopCounts == ASSUME CountInv, Stop PROVE CountInv'
<1>1. Shapes'
  BY IdleIsHandler, FreeIsLoad DEF Stop, CountInv, Shapes
<1>2. CountersGrow'
  BY IdleIsHandler, FreeIsLoad DEF Stop, CountInv, Shapes, CountersGrow, Registries
<1> QED BY <1>1, <1>2 DEF Stop, CountInv, AnsweredInForce

LEMMA StartCounts == ASSUME CountInv, Start PROVE CountInv'
<1>1. \A r \in Registries : /\ registry'[r].version \in Nat
                            /\ registry[r].version <= registry'[r].version
                            /\ registry'[r].version <= db.version[r]
  <2> TAKE r \in Registries
  <2>1. /\ db.version[r] \in Nat /\ registry[r].version \in Nat
        /\ registry[r].version <= db.version[r]
    BY DEF CountInv, Shapes, CountersGrow, Registries
  <2>2. CASE r \in scenario.watch
    <3>1. registry'[r] = [version |-> db.version[r], rows |-> View(r, db)]
      BY <2>2 DEF Start
    <3> QED BY <2>1, <3>1
  <2>3. CASE r \notin scenario.watch
    <3>1. registry'[r] = registry[r]  BY <2>3 DEF Start
    <3> QED BY <2>1, <3>1
  <2> QED BY <2>2, <2>3
<1>2. Shapes'  BY <1>1 DEF Start, CountInv, Shapes
<1>3. CountersGrow'  BY <1>1 DEF Start, CountInv, Shapes, CountersGrow
<1>4. AnsweredInForce'
  <2>1. UNCHANGED answered  BY DEF Start
  <2> QED BY <1>1, <2>1 DEF CountInv, Shapes, AnsweredInForce
<1> QED BY <1>2, <1>3, <1>4 DEF CountInv

LEMMA StepCounts ==
  ASSUME CountInv, [Next]_vars, Isolation = "serializable"
  PROVE  CountInv'
<1>1. ASSUME NEW h \in Handlers, TransactionFails(h) PROVE CountInv'
  BY <1>1, BecomesIdle DEF TransactionFails
<1>2. CASE UNCHANGED vars
  BY <1>2 DEF vars, CountInv, Shapes, CountersGrow, AnsweredInForce
<1> QED
  BY <1>1, <1>2, RequestCounts, ProceedCounts, RefreshCounts, StopCounts, StartCounts DEF Next

LEMMA InitCounts == ASSUME Init PROVE CountInv
<1>1. \A r \in Registries : IsLoad(Free(r)) /\ Free(r).before = 0  BY FreeIsLoad
<1>2. db.version = [c \in Counters |-> 0]  BY DEF Init, InitialDatabase
<1>3. Shapes  BY <1>1, <1>2, IdleIsHandler DEF Init, Shapes
<1>4. CountersGrow  BY <1>1, <1>2, IdleIsHandler DEF Init, CountersGrow, Registries
<1>5. AnsweredInForce  BY DEF Init, AnsweredInForce
<1> QED BY <1>3, <1>4, <1>5 DEF CountInv

(* What a handler has changed, refreshed and answered for stays in force   *)
(* on its node (sinks/state.rs refresh_if_needed and its two siblings).    *)
THEOREM AnsweredStays ==
  ASSUME Isolation = "serializable"
  PROVE  Spec => []AnsweredInForce
<1>1. Init => CountInv  BY InitCounts
<1>2. CountInv /\ [Next]_vars => CountInv'  BY StepCounts
<1>3. CountInv => AnsweredInForce  BY DEF CountInv
<1> QED BY <1>1, <1>2, <1>3, PTL DEF Spec

(***************************************************************************)
(* The contents.  A registry whose version is the database's serves its    *)
(* rows; a refresh whose first version still is the database's has read    *)
(* them, as far as it got.                                                 *)
(***************************************************************************)
ReadSoFar(r) == IF r = "sinks" /\ load[r].step = 2 THEN EnabledSinks(db) ELSE View(r, db)

ServedRight(r) ==
  r \in scenario.watch /\ registry[r].version = db.version[r] =>
    registry[r].rows = View(r, db)
ReadRight(r) ==
  load[r].step >= 2 /\ load[r].before = db.version[r] => load[r].rows = ReadSoFar(r)

Followed == {"projects", "sinks"}
ContentInv == \A r \in Followed : ServedRight(r) /\ ReadRight(r)

LEMMA NothingRead ==
  ASSUME ContentInv, UNCHANGED <<db, registry, load, scenario>>
  PROVE  ContentInv'
BY DEF ContentInv, ServedRight, ReadRight, ReadSoFar

LEMMA RequestChanges ==
  ASSUME NEW h \in Handlers,
         \/ Request(h) \/ BeginCreateScript(h) \/ BeginUpdateScript(h) \/ BeginAssignDefault(h)
         \/ RefuseTransaction(h) \/ TransactionFails(h)
  PROVE  UNCHANGED <<db, registry, load, scenario>>
<1> USE DEF Direct, Begin, bounds
<1>1. CASE \/ BeginCreateProject(h) \/ BeginUpdateProject(h) \/ BeginDeleteProject(h)
           \/ BeginUpdateScriptStatus(h) \/ BeginAssign(h) \/ BeginDeleteBinding(h)
  BY <1>1 DEF BeginCreateProject, BeginUpdateProject, BeginDeleteProject,
              BeginUpdateScriptStatus, BeginAssign, BeginDeleteBinding
<1>2. CASE \/ BeginCreateTarget(h) \/ BeginUpdateTarget(h) \/ BeginDeleteTarget(h)
           \/ BeginCreateSink(h) \/ BeginUpdateSink(h) \/ BeginDeleteSink(h)
  BY <1>2 DEF BeginCreateTarget, BeginUpdateTarget, BeginDeleteTarget,
              BeginCreateSink, BeginUpdateSink, BeginDeleteSink
<1>3. CASE \/ ReadSinkIds(h) \/ BeginCreateScript(h) \/ BeginUpdateScript(h)
           \/ BeginAssignDefault(h) \/ RefuseTransaction(h) \/ TransactionFails(h)
  BY <1>3 DEF ReadSinkIds, BeginCreateScript, BeginUpdateScript, BeginAssignDefault,
              RefuseTransaction, TransactionFails
<1> QED BY <1>1, <1>2, <1>3 DEF Request

(* A commit moves the counter of what it changes, and so makes everything  *)
(* that was read before it old; what the other registries read is as it    *)
(* was.                                                                    *)
LEMMA CommitContent ==
  ASSUME CountInv, ContentInv, NEW h \in Handlers, CommitTransaction(h),
         Isolation = "serializable"
  PROVE  ContentInv'
<1> DEFINE c == CounterOf(handler[h].txn.table)
           seen == handler[h].base[c]
<1>1. /\ c \in Counters
      /\ db'.version = [db.version EXCEPT ![c] = db.version[c] + 1]
      /\ db.version \in [Counters -> Nat]
  BY CommitCounts DEF CommitTransaction, CountInv, Shapes
<1>2. UNCHANGED <<registry, load, scenario>>  BY DEF CommitTransaction, bounds
<1>3. db' = Commit(db, handler[h].txn, seen)  BY DEF CommitTransaction
<1>4. IsWrite(handler[h].txn)  BY DEF CommitTransaction, CountInv, Shapes, IsHandler
<1> SUFFICES ASSUME NEW r \in Followed PROVE ServedRight(r)' /\ ReadRight(r)'
  BY DEF ContentInv
<1>5. /\ r \in Registries /\ registry[r].version <= db.version[r]
      /\ load[r].before <= db.version[r]
      /\ registry[r].version \in Nat /\ load[r].before \in Nat
  BY DEF Followed, Registries, Counters, CountInv, CountersGrow, Shapes, IsLoad
<1>6. CASE r = c
  <2>1. db'.version[r] = db.version[r] + 1 /\ db.version[r] \in Nat  BY <1>1, <1>6
  <2> QED BY <1>2, <1>5, <2>1 DEF ServedRight, ReadRight
<1>7. CASE r # c
  <2>1. db'.version[r] = db.version[r]  BY <1>1, <1>5, <1>7 DEF Registries
  <2>2. \A t \in {"projects", "targets", "sinks"} :
          CounterOf(t) = r => db'.rows[t] = db.rows[t]
    BY <1>3, <1>4, <1>7, OthersKept
  <2>3. CASE r = "projects"
    <3>1. db'.rows["projects"] = db.rows["projects"]
      BY <2>2, <2>3 DEF CounterOf
    <3>2. View(r, db') = View(r, db)  BY <2>3, <3>1, ViewsDependOnRows
    <3> QED BY <1>2, <2>1, <2>3, <3>2 DEF ContentInv, ServedRight, ReadRight, ReadSoFar
  <2>4. CASE r = "sinks"
    <3>1. db'.rows["sinks"] = db.rows["sinks"] /\ db'.rows["targets"] = db.rows["targets"]
      BY <2>2, <2>4 DEF CounterOf
    <3>2. View(r, db') = View(r, db) /\ EnabledSinks(db') = EnabledSinks(db)
      BY <2>4, <3>1, ViewsDependOnRows
    <3> QED BY <1>2, <2>1, <2>4, <3>2 DEF ContentInv, ServedRight, ReadRight, ReadSoFar
  <2> QED BY <2>3, <2>4 DEF Followed
<1> QED BY <1>6, <1>7

(* A refresh of r leaves the other registries and their refreshes alone.   *)
LEMMA OneRefresh ==
  ASSUME ContentInv, NEW r, UNCHANGED <<db, scenario>>,
         \A q \in Followed \ {r} : registry'[q] = registry[q] /\ load'[q] = load[q],
         r \in Followed => ServedRight(r)' /\ ReadRight(r)'
  PROVE  ContentInv'
BY DEF ContentInv, ServedRight, ReadRight, ReadSoFar

LEMMA RefreshContent ==
  ASSUME CountInv, ContentInv, NEW r \in Registries, Refresh(r) \/ ReadFails(r)
  PROVE  ContentInv'
<1>0. /\ IsLoad(load[r]) /\ db.version \in [Counters -> Nat] /\ Counters = Registries
      /\ DOMAIN load = Registries /\ DOMAIN registry = Registries
      /\ registry[r].version \in Nat /\ Followed \subseteq Registries
  BY DEF CountInv, Shapes, Registries, Followed, Counters
<1>1. UNCHANGED <<db, scenario>>
  BY DEF Refresh, StartRefresh, ReadBefore, ReadRows, ReadAgain, Install, BuildFails, ReadFails,
         bounds
<1>2. \A q \in Followed \ {r} : registry'[q] = registry[q] /\ load'[q] = load[q]
  BY <1>0 DEF Refresh, StartRefresh, ReadBefore, ReadRows, ReadAgain, Install, BuildFails,
              ReadFails
<1>3. ASSUME NEW s, NEW by, load'[r] = Fresh(s, by), UNCHANGED registry
      PROVE  r \in Followed => ServedRight(r)' /\ ReadRight(r)'
  BY <1>1, <1>3 DEF Fresh, ContentInv, ServedRight, ReadRight
<1>4. ASSUME NEW by, StartRefresh(r, by)
      PROVE  ContentInv'
  <2>1. CASE UpToDate(r)
    BY <1>1, <1>4, <2>1, NothingRead DEF StartRefresh
  <2>2. CASE ~UpToDate(r)
    <3>1. load'[r] = Fresh(r, by) /\ UNCHANGED registry
      BY <1>0, <1>4, <2>2 DEF StartRefresh
    <3> QED BY <1>1, <1>2, <1>3, <3>1, OneRefresh
  <2> QED BY <2>1, <2>2
<1>5. CASE ReadBefore(r)
  <2>1. load'[r].step = 1 /\ UNCHANGED registry
    BY <1>0, <1>5 DEF ReadBefore, IsLoad
  <2>2. r \in Followed => ServedRight(r)' /\ ReadRight(r)'
    BY <1>1, <2>1 DEF ContentInv, ServedRight, ReadRight
  <2> QED BY <1>1, <1>2, <2>2, OneRefresh
<1>6. CASE ReadRows(r)
  <2>1. /\ load'[r].rows = Read(r, load[r].step, load[r].rows, db)
        /\ load'[r].step = load[r].step + 1 /\ load'[r].before = load[r].before
        /\ UNCHANGED registry
    BY <1>0, <1>6 DEF ReadRows, IsLoad
  <2>2. ASSUME r \in Followed, load[r].before = db.version[r]
        PROVE  load'[r].rows = ReadSoFar(r)'
    <3>1. CASE r = "projects"
      <4>1. load'[r].rows = ProjectSnapshot(db)  BY <2>1, <3>1 DEF Read
      <4>2. ReadSoFar(r)' = View(r, db')  BY <3>1 DEF ReadSoFar
      <4>3. View(r, db') = ProjectSnapshot(db)  BY <1>1, <3>1 DEF View
      <4> QED BY <4>1, <4>2, <4>3
    <3>2. CASE r = "sinks" /\ load[r].step = 1
      <4>1. load'[r].rows = EnabledSinks(db)  BY <2>1, <3>2 DEF Read
      <4>2. ReadSoFar(r)' = EnabledSinks(db')  BY <2>1, <3>2 DEF ReadSoFar
      <4> QED BY <1>1, <4>1, <4>2
    <3>3. CASE r = "sinks" /\ load[r].step = 2
      <4>1. load[r].rows = EnabledSinks(db)
        BY <2>2, <3>3 DEF ContentInv, ReadRight, ReadSoFar, Followed
      <4>2. load'[r].rows = RuntimeSinks(db, EnabledSinks(db))  BY <2>1, <3>3, <4>1 DEF Read
      <4>3. ReadSoFar(r)' = View(r, db')  BY <2>1, <3>3 DEF ReadSoFar
      <4>4. View(r, db') = RuntimeSinks(db, EnabledSinks(db))  BY <1>1, <3>3 DEF View
      <4> QED BY <4>2, <4>3, <4>4
    <3>4. load[r].step \in 1 .. Queries(r)  BY <1>6 DEF ReadRows
    <3>5. r = "sinks" => Queries(r) = 2  BY DEF Queries
    <3> QED BY <2>2, <3>1, <3>2, <3>3, <3>4, <3>5 DEF Followed
  <2>3. r \in Followed => ServedRight(r)' /\ ReadRight(r)'
    BY <1>1, <2>1, <2>2 DEF ContentInv, ServedRight, ReadRight
  <2> QED BY <1>1, <1>2, <2>3, OneRefresh
<1>7. CASE ReadAgain(r)
  <2>1. load'[r] = Fresh(r, load[r].by) /\ UNCHANGED registry
    BY <1>0, <1>7 DEF ReadAgain
  <2> QED BY <1>1, <1>2, <1>3, <2>1, OneRefresh
<1>8. CASE Install(r)
  <2>1. load'[r] = Fresh(r, Nobody)
    BY <1>0, <1>8 DEF Install, Free
  <2>2. CASE Newer(r) /\ r \in Followed
    <3>1. registry'[r].rows = load[r].rows
      BY <1>0, <1>8, <2>2 DEF Install
    <3>2. /\ load[r].before = db.version[r] /\ load[r].step = Queries(r) + 1
      BY <1>8 DEF Install, UnchangedSince
    <3>3. Queries(r) = IF r = "sinks" THEN 2 ELSE 1
      BY <2>2 DEF Queries, Followed
    <3>4. load[r].rows = View(r, db)
      BY <2>2, <3>2, <3>3 DEF ContentInv, ReadRight, ReadSoFar
    <3>5. ServedRight(r)'  BY <1>1, <3>1, <3>4 DEF ServedRight
    <3>6. ReadRight(r)'  BY <2>1 DEF ReadRight, Fresh
    <3> QED BY <1>1, <1>2, <3>5, <3>6, OneRefresh
  <2>3. CASE ~Newer(r) \/ r \notin Followed
    <3>1. r \in Followed => registry'[r] = registry[r]
      BY <1>0, <1>8, <2>3 DEF Install
    <3>2. r \in Followed => ServedRight(r)'
      BY <1>1, <3>1 DEF ContentInv, ServedRight
    <3>3. ReadRight(r)'  BY <2>1 DEF ReadRight, Fresh
    <3> QED BY <1>1, <1>2, <3>2, <3>3, OneRefresh
  <2> QED BY <2>2, <2>3
<1>9. CASE BuildFails(r) \/ ReadFails(r)
  <2>1. load'[r] = Fresh(r, Nobody) /\ UNCHANGED registry
    BY <1>0, <1>9 DEF BuildFails, ReadFails, Free
  <2> QED BY <1>1, <1>2, <1>3, <2>1, OneRefresh
<1> QED BY <1>4, <1>5, <1>6, <1>7, <1>8, <1>9 DEF Refresh

LEMMA StopStartContent ==
  ASSUME CountInv, ContentInv, Stop \/ Start
  PROVE  ContentInv'
<1>1. CASE Stop
  <2>1. \A r \in Followed : load'[r].step = 0
    BY <1>1 DEF Stop, Followed, Registries, Counters, Free, Fresh
  <2> QED BY <1>1, <2>1 DEF Stop, ContentInv, ServedRight, ReadRight
<1>2. CASE Start
  <2> SUFFICES ASSUME NEW r \in Followed PROVE ServedRight(r)' /\ ReadRight(r)'
    BY DEF ContentInv
  <2>1. UNCHANGED <<db, load, scenario>>  BY <1>2 DEF Start, bounds
  <2>2. r \in scenario.watch => registry'[r] = [version |-> db.version[r], rows |-> View(r, db)]
    BY <1>2 DEF Start, Followed, Registries, Counters
  <2>3. r \in scenario.watch => registry'[r].rows = View(r, db)  BY <2>2
  <2> QED BY <2>1, <2>3 DEF ContentInv, ServedRight, ReadRight, ReadSoFar
<1> QED BY <1>1, <1>2

LEMMA StepContent ==
  ASSUME CountInv, ContentInv, [Next]_vars, Isolation = "serializable"
  PROVE  ContentInv'
<1>1. ASSUME NEW h \in Handlers, Request(h) \/ Proceed(h) \/ TransactionFails(h)
      PROVE  ContentInv'
  <2>1. CASE CommitTransaction(h)  BY <2>1, CommitContent
  <2>2. CASE ~CommitTransaction(h)
    BY <1>1, <2>2, RequestChanges, NothingRead DEF Proceed
  <2> QED BY <2>1, <2>2
<1>2. CASE UNCHANGED vars
  BY <1>2, NothingRead DEF vars, bounds
<1> QED BY <1>1, <1>2, RefreshContent, StopStartContent DEF Next

LEMMA InitContent == ASSUME Init PROVE ContentInv
<1>1. db = InitialDatabase  BY DEF Init
<1>2. \A r \in Registries : registry[r].rows = View(r, InitialDatabase) /\ load[r].step = 0
  BY DEF Init, Free, Fresh
<1>3. Followed \subseteq Registries  BY DEF Followed, Registries, Counters
<1> QED BY <1>1, <1>2, <1>3 DEF ContentInv, ServedRight, ReadRight

(* A registry of projects or sinks whose version compares equal serves     *)
(* what the database holds, whatever handlers and refreshes overlap        *)
(* (services/project.rs, sinks/state.rs: the early return is right).       *)
THEOREM CurrentIsEqual ==
  ASSUME Isolation = "serializable"
  PROVE  Spec => []CurrentMeansEqual
<1>1. Init => CountInv /\ ContentInv  BY InitCounts, InitContent
<1>2. CountInv /\ ContentInv /\ [Next]_vars => CountInv' /\ ContentInv'
  BY StepCounts, StepContent
<1>3. ContentInv => CurrentMeansEqual
  BY DEF ContentInv, ServedRight, CurrentMeansEqual, Followed
<1> QED BY <1>1, <1>2, <1>3, PTL DEF Spec

(***************************************************************************)
(* The tables.  What a handler decided on the database as it is would keep *)
(* the tables sound; what it decided on an older one is not committed, for *)
(* every commit moves a counter past the handler's.                        *)
(***************************************************************************)
SoundHandler(x) ==
  /\ x.pc = "script" => x.ids \subseteq SinkIds
  /\ x.pc = "commit" => /\ \A c \in Counters : x.base[c] <= db.version[c]
                        /\ x.base = db.version => KeepsSound(db, x.txn)

SoundInv == IsDatabase(db) /\ Sound(db) /\ \A h \in Handlers : SoundHandler(handler[h])

(* A handler goes on without deciding anything.                            *)
SameDecision(x, y) ==
  y.pc \in {"script", "commit"} =>
    x.pc = y.pc /\ x.ids = y.ids /\ x.base = y.base /\ x.txn = y.txn

LEMMA NothingDecided ==
  ASSUME SoundInv, UNCHANGED db, \A h \in Handlers : SameDecision(handler[h], handler'[h])
  PROVE  SoundInv'
BY DEF SoundInv, SoundHandler, SameDecision

LEMMA SinkIdsTyped == ASSUME NEW D, IsDatabase(D) PROVE EnabledSinkIds(D) \subseteq SinkIds
<1>1. \A i \in Live(D, "sinks") : Row(D, "sinks", i).id \in SinkIds
  <2>1. \A i \in Live(D, "sinks") : Row(D, "sinks", i) \in SinkRow
    <3>1. "sinks" \in Tables /\ Rows["sinks"] = SinkRow  BY TablesAre
    <3> QED BY <3>1, TableTyped
  <2> QED BY <2>1 DEF SinkRow
<1> QED BY <1>1 DEF EnabledSinkIds

LEMMA BeginSound ==
  ASSUME CountInv, SoundInv, NEW h \in Handlers, NEW txn, NEW bind, NEW todo,
         Begin(h, txn, bind, todo), KeepsSound(db, txn)
  PROVE  SoundInv'
<1>1. UNCHANGED db /\ DOMAIN handler = Handlers /\ IsHandler(handler[h])
      /\ db.version \in [Counters -> Nat]
  BY DEF Begin, CountInv, Shapes
<1>2. \A k \in Handlers \ {h} : handler'[k] = handler[k]  BY <1>1 DEF Begin
<1>3. SoundHandler(handler[h])'
  <2>1. CASE txn.do = "refuse"
    BY <1>1, <2>1 DEF Begin, SoundHandler, Idle
  <2>2. CASE txn.do # "refuse"
    <3>1. handler'[h].pc = "commit" /\ handler'[h].base = db.version /\ handler'[h].txn = txn
      BY <1>1, <2>2 DEF Begin, IsHandler, Idle
    <3> QED BY <1>1, <3>1 DEF SoundHandler
  <2> QED BY <2>1, <2>2
<1> QED BY <1>1, <1>2, <1>3 DEF SoundInv, SoundHandler

LEMMA RequestSound ==
  ASSUME CountInv, SoundInv, NEW h \in Handlers, Request(h)
  PROVE  SoundInv'
<1>0. IsDatabase(db) /\ Sound(db)  BY DEF SoundInv
<1>1. CASE BeginCreateProject(h)
  BY <1>0, <1>1, BeginSound, ProjectsKeep, RequestAssumption DEF BeginCreateProject, Direct
<1>2. CASE BeginUpdateProject(h)
  BY <1>0, <1>2, BeginSound, ProjectsKeep, RequestAssumption DEF BeginUpdateProject, Direct
<1>3. CASE BeginDeleteProject(h)
  BY <1>0, <1>3, BeginSound, ProjectsKeep DEF BeginDeleteProject, Direct
<1>4. CASE BeginUpdateScriptStatus(h)
  <2>1. \A i : \A status \in Statuses : KeepsSound(db, UpdateScriptStatus(db, i, status))
    <3>1. {} \subseteq SinkIds  OBVIOUS
    <3> QED BY <1>0, <3>1, ScriptsKeep
  <2> QED BY <1>4, <2>1, BeginSound DEF BeginUpdateScriptStatus, Direct
<1>5. CASE BeginAssign(h)
  BY <1>0, <1>5, BeginSound, BindingsKeep DEF BeginAssign, Direct
<1>6. CASE BeginDeleteBinding(h)
  BY <1>0, <1>6, BeginSound, BindingsKeep DEF BeginDeleteBinding, Direct
<1>7. CASE BeginCreateTarget(h)
  BY <1>0, <1>7, BeginSound, TargetsKeep, RequestAssumption DEF BeginCreateTarget, Direct
<1>8. CASE BeginUpdateTarget(h)
  BY <1>0, <1>8, BeginSound, TargetsKeep, RequestAssumption DEF BeginUpdateTarget, Direct
<1>9. CASE BeginDeleteTarget(h)
  BY <1>0, <1>9, BeginSound, TargetsKeep DEF BeginDeleteTarget, Direct
<1>10. CASE BeginCreateSink(h)
  BY <1>0, <1>10, BeginSound, SinksKeep, RequestAssumption DEF BeginCreateSink, Direct
<1>11. CASE BeginUpdateSink(h)
  BY <1>0, <1>11, BeginSound, SinksKeep, RequestAssumption DEF BeginUpdateSink, Direct
<1>12. CASE BeginDeleteSink(h)
  BY <1>0, <1>12, BeginSound, SinksKeep DEF BeginDeleteSink, Direct
<1>13. CASE ReadSinkIds(h)
  <2>1. DOMAIN handler = Handlers /\ IsHandler(handler[h])  BY DEF CountInv, Shapes
  <2>2. /\ UNCHANGED db /\ \A k \in Handlers \ {h} : handler'[k] = handler[k]
        /\ handler'[h].pc = "script" /\ handler'[h].ids = EnabledSinkIds(db)
    BY <1>13, <2>1 DEF ReadSinkIds, IsHandler, Idle
  <2> QED BY <1>0, <2>2, SinkIdsTyped DEF SoundInv, SoundHandler
<1> QED
  BY <1>1, <1>2, <1>3, <1>4, <1>5, <1>6, <1>7, <1>8, <1>9, <1>10, <1>11, <1>12, <1>13 DEF Request

LEMMA CommitSound ==
  ASSUME CountInv, SoundInv, NEW h \in Handlers, CommitTransaction(h),
         Isolation = "serializable"
  PROVE  SoundInv'
<1> DEFINE c == CounterOf(handler[h].txn.table)
           seen == handler[h].base[c]
<1>1. /\ c \in Counters
      /\ db'.version = [db.version EXCEPT ![c] = db.version[c] + 1]
      /\ db.version \in [Counters -> Nat]
  BY CommitCounts DEF CommitTransaction, CountInv, Shapes
<1>2. /\ db' = Commit(db, handler[h].txn, seen) /\ seen \in Nat
      /\ Allowed(db, handler[h].txn) /\ handler[h].base = db.version
      /\ handler[h].pc = "commit"
  BY <1>1 DEF CommitTransaction, Committable
<1>3. KeepsSound(db, handler[h].txn)  BY <1>2 DEF SoundInv, SoundHandler
<1>4. IsDatabase(db') /\ Sound(db')
  <2> HIDE DEF seen
  <2> QED BY <1>2, <1>3 DEF KeepsSound
<1>5. /\ DOMAIN handler = Handlers /\ IsHandler(handler[h])
      /\ handler' = [handler EXCEPT ![h] = AfterCommit(h)]
  BY DEF CommitTransaction, CountInv, Shapes
<1>6. AfterCommit(h).pc \notin {"script", "commit"}
  BY <1>5 DEF AfterCommit, IsHandler, Idle
<1>7. ASSUME NEW k \in Handlers PROVE SoundHandler(handler[k])'
  <2>1. CASE k = h  BY <1>5, <1>6, <2>1 DEF SoundHandler
  <2>2. CASE k # h
    <3>1. handler'[k] = handler[k] /\ SoundHandler(handler[k])
      BY <1>5, <2>2 DEF SoundInv
    <3>2. IsHandler(handler[k])  BY DEF CountInv, Shapes
    <3>3. ASSUME handler[k].pc = "commit"
          PROVE  /\ \A d \in Counters : handler[k].base[d] <= db'.version[d]
                 /\ handler[k].base # db'.version
      <4>1. handler[k].base \in [Counters -> Nat]
            /\ \A d \in Counters : handler[k].base[d] <= db.version[d]
        BY <3>1, <3>2, <3>3 DEF SoundHandler, IsHandler
      <4> HIDE DEF c
      <4>2. \A d \in Counters : handler[k].base[d] <= db'.version[d]
        BY <1>1, <4>1
      <4>3. db'.version[c] = db.version[c] + 1 /\ handler[k].base[c] <= db.version[c]
            /\ db.version[c] \in Nat /\ handler[k].base[c] \in Nat
        BY <1>1, <4>1
      <4> QED BY <4>2, <4>3
    <3> QED BY <3>1, <3>3 DEF SoundHandler
  <2> QED BY <2>1, <2>2
<1> QED BY <1>4, <1>7 DEF SoundInv

LEMMA ProceedSound ==
  ASSUME CountInv, SoundInv, NEW h \in Handlers, Proceed(h), Isolation = "serializable"
  PROVE  SoundInv'
<1>0. IsDatabase(db) /\ Sound(db)  BY DEF SoundInv
<1>1. CASE BeginCreateScript(h)
  <2>1. handler[h].ids \subseteq SinkIds
    BY <1>1 DEF BeginCreateScript, SoundInv, SoundHandler
  <2>2. \A row \in NewScripts : KeepsSound(db, CreateScript(db, row, handler[h].ids))
    BY <1>0, <2>1, ScriptsKeep, RequestAssumption
  <2> QED BY <1>1, <2>2, BeginSound DEF BeginCreateScript
<1>2. CASE BeginUpdateScript(h)
  <2>1. handler[h].ids \subseteq SinkIds
    BY <1>2 DEF BeginUpdateScript, SoundInv, SoundHandler
  <2>2. \A i : \A set \in ScriptChanges : KeepsSound(db, UpdateScript(db, i, set, handler[h].ids))
    BY <1>0, <2>1, ScriptsKeep, RequestAssumption
  <2> QED BY <1>2, <2>2, BeginSound DEF BeginUpdateScript
<1>3. CASE BeginAssignDefault(h)
  BY <1>0, <1>3, BeginSound, BindingsKeep DEF BeginAssignDefault
<1>4. CASE CommitTransaction(h)  BY <1>4, CommitSound
<1>5. CASE RefuseTransaction(h)
  <2>1. UNCHANGED db /\ \A k \in Handlers : SameDecision(handler[k], handler'[k])
    BY <1>5 DEF RefuseTransaction, SameDecision, Idle, CountInv, Shapes
  <2> QED BY <2>1, NothingDecided
<1> QED BY <1>1, <1>2, <1>3, <1>4, <1>5 DEF Proceed

LEMMA OnwardDecidesNothing ==
  ASSUME CountInv, NEW by, Onward(by), NEW h \in Handlers
  PROVE  SameDecision(handler[h], handler'[h])
<1>1. DOMAIN handler = Handlers /\ IsHandler(handler[h])  BY DEF CountInv, Shapes
<1>2. CASE by = Loop  BY <1>2 DEF Onward, SameDecision
<1>3. CASE by # Loop
  BY <1>1, <1>3 DEF Onward, SameDecision, IsHandler, Idle
<1> QED BY <1>2, <1>3

LEMMA RefreshSound ==
  ASSUME CountInv, SoundInv, NEW r \in Registries, Refresh(r) \/ ReadFails(r)
  PROVE  SoundInv'
<1>1. UNCHANGED db
  BY DEF Refresh, StartRefresh, ReadBefore, ReadRows, ReadAgain, Install, BuildFails, ReadFails
<1>2. UNCHANGED handler \/ \E by : Onward(by)
  BY DEF Refresh, StartRefresh, ReadBefore, ReadRows, ReadAgain, Install, BuildFails, ReadFails
<1>3. \A h \in Handlers : SameDecision(handler[h], handler'[h])
  BY <1>2, OnwardDecidesNothing DEF SameDecision
<1> QED BY <1>1, <1>3, NothingDecided

LEMMA StepSound ==
  ASSUME CountInv, SoundInv, [Next]_vars, Isolation = "serializable"
  PROVE  SoundInv'
<1>1. ASSUME NEW h \in Handlers, TransactionFails(h) PROVE SoundInv'
  <2>1. UNCHANGED db /\ \A k \in Handlers : SameDecision(handler[k], handler'[k])
    BY <1>1 DEF TransactionFails, SameDecision, Idle, CountInv, Shapes
  <2> QED BY <2>1, NothingDecided
<1>2. CASE Stop
  <2>1. UNCHANGED db /\ \A k \in Handlers : SameDecision(handler[k], handler'[k])
    BY <1>2 DEF Stop, SameDecision, Idle
  <2> QED BY <2>1, NothingDecided
<1>3. CASE Start \/ UNCHANGED vars
  <2>1. UNCHANGED <<db, handler>>  BY <1>3 DEF Start, vars
  <2> QED BY <2>1, NothingDecided DEF SameDecision
<1> QED BY <1>1, <1>2, <1>3, RequestSound, ProceedSound, RefreshSound DEF Next

LEMMA InitSound == ASSUME Init, Sound(InitialDatabase) PROVE SoundInv
<1>1. \A h \in Handlers : SoundHandler(handler[h])  BY DEF Init, SoundHandler, Idle
<1> QED BY <1>1, ControlPlaneAssumption DEF Init, SoundInv

(* Whatever administrators do at once, on this node or another, and        *)
(* whatever fails in between: an enabled binding runs an active script of  *)
(* a project that exists, the default script stays, and a sink has a       *)
(* target that accepts it (repositories/, each check before its write).    *)
THEOREM BindingsStaySound ==
  ASSUME Isolation = "serializable", Sound(InitialDatabase)
  PROVE  Spec => []BindingsSound
<1>1. Init => CountInv /\ SoundInv  BY InitCounts, InitSound
<1>2. CountInv /\ SoundInv /\ [Next]_vars => CountInv' /\ SoundInv'
  BY StepCounts, StepSound
<1>3. SoundInv => BindingsSound  BY DEF SoundInv, BindingsSound
<1> QED BY <1>1, <1>2, <1>3, PTL DEF Spec

(***************************************************************************)
(* Who is let in.  No two projects share a key, so the project that        *)
(* authenticate finds by the key of a request is the only one there is.    *)
(***************************************************************************)
KeysDiffer(D) ==
  \A i, j \in Live(D, "projects") : Row(D, "projects", i).key = Row(D, "projects", j).key => i = j

(* What a write makes of the projects.                                     *)
LEMMA ProjectsWritten ==
  ASSUME NEW D, IsDatabase(D), NEW w, IsWrite(w), Allowed(D, w), NEW seen,
         NEW E, E = Commit(D, w, seen)
  PROVE  LET n == Len(D.rows["projects"]) + 1
             s == E.rows["projects"]
         IN \/ s = D.rows["projects"]
            \/ /\ w.do = "insert" /\ w.table = "projects" /\ ~Duplicate(D, "projects", 0, w.row)
               /\ DOMAIN s = 1 .. n /\ s[n] = w.row
               /\ \A i \in 1 .. (n - 1) : s[i] = D.rows["projects"][i]
            \/ \E i \in Live(D, "projects") : \E new :
                 /\ ~Duplicate(D, "projects", i, new)
                 /\ DOMAIN s = 1 .. (n - 1) /\ s[i] = new
                 /\ \A j \in 1 .. (n - 1) : j # i => s[j] = D.rows["projects"][j]
            \/ /\ w.do = "delete" /\ w.table = "projects"
               /\ DOMAIN s = 1 .. (n - 1)
               /\ \A j \in 1 .. (n - 1) : s[j] = IF j = w.id THEN Deleted ELSE D.rows["projects"][j]
<1> DEFINE t == D.rows["projects"]
           n == Len(t) + 1
           s == E.rows["projects"]
<1>1. /\ t \in Seq(ProjectRow \cup {Deleted}) /\ Len(t) \in Nat /\ DOMAIN t = 1 .. (n - 1)
      /\ n - 1 = Len(t)
  BY TableTyped, TablesAre
<1>2. s = Written(D, w, "projects")  BY TablesAre DEF Commit
<1>3. CASE w.table # "projects"
  BY <1>2, <1>3 DEF Written, IsWrite
<1>4. CASE w.do = "insert" /\ w.table = "projects"
  <2>1. s = Append(t, w.row)  BY <1>2, <1>4 DEF Written
  <2>2. ~Duplicate(D, "projects", 0, w.row)  BY <1>4 DEF Allowed
  <2> HIDE DEF t, s
  <2>3. /\ DOMAIN Append(t, w.row) = 1 .. n /\ Append(t, w.row)[n] = w.row
        /\ \A i \in 1 .. (n - 1) : Append(t, w.row)[i] = t[i]
    BY <1>1
  <2> QED BY <1>4, <2>1, <2>2, <2>3 DEF t, s
<1>5. CASE w.do = "update" /\ w.table = "projects"
  <2> DEFINE new == With(Row(D, "projects", w.id), w.set)
  <2>1. /\ s = [t EXCEPT ![w.id] = new] /\ w.id \in Live(D, "projects")
        /\ ~Duplicate(D, "projects", w.id, new)
    BY <1>2, <1>5 DEF Written, Allowed
  <2>2. w.id \in DOMAIN t  BY <2>1 DEF Live
  <2> HIDE DEF new, n, t, s
  <2>3. DOMAIN s = DOMAIN t /\ s[w.id] = new /\ \A j \in DOMAIN t : j # w.id => s[j] = t[j]
    BY <2>1, <2>2
  <2> QED BY <1>1, <2>1, <2>3 DEF t, s, n
<1>6. CASE w.do = "delete" /\ w.table = "projects"
  <2>1. s = [i \in DOMAIN t |-> IF i = w.id THEN Deleted ELSE t[i]]
    BY <1>2, <1>6 DEF Written
  <2> QED BY <1>1, <1>6, <2>1
<1> QED BY <1>3, <1>4, <1>5, <1>6 DEF IsWrite

LEMMA KeysStayDifferent ==
  ASSUME NEW D, IsDatabase(D), NEW w, IsWrite(w), Allowed(D, w), NEW seen, KeysDiffer(D),
         NEW E, E = Commit(D, w, seen)
  PROVE  KeysDiffer(E)
<1> DEFINE t == D.rows["projects"]
           n == Len(t) + 1
           s == E.rows["projects"]
<1>1. Len(t) \in Nat /\ DOMAIN t = 1 .. (n - 1) /\ n \in Nat  BY TableTyped, TablesAre
<1>2. ASSUME NEW i, NEW new, ~Duplicate(D, "projects", i, new), NEW j \in Live(D, "projects"), j # i
      PROVE  t[j].key # new.key
  BY <1>2 DEF Duplicate, UniqueColumns, Row
<1>3. CASE s = t
  BY <1>3 DEF KeysDiffer, Live, Row
<1>4. CASE /\ ~Duplicate(D, "projects", 0, w.row)
           /\ DOMAIN s = 1 .. n /\ s[n] = w.row
           /\ \A i \in 1 .. (n - 1) : s[i] = t[i]
  <2>1. \A j \in Live(E, "projects") : j # n => j \in Live(D, "projects") /\ s[j] = t[j] /\ j # 0
    BY <1>1, <1>4 DEF Live
  <2>2. \A j \in Live(E, "projects") : j # n => s[j].key # s[n].key
    BY <1>2, <1>4, <2>1
  <2> QED BY <2>1, <2>2 DEF KeysDiffer, Row
<1>5. ASSUME NEW i \in Live(D, "projects"), NEW new, ~Duplicate(D, "projects", i, new),
             DOMAIN s = 1 .. (n - 1), s[i] = new,
             \A j \in 1 .. (n - 1) : j # i => s[j] = t[j]
      PROVE  KeysDiffer(E)
  <2>1. \A j \in Live(E, "projects") : j # i => j \in Live(D, "projects") /\ s[j] = t[j]
    BY <1>1, <1>5 DEF Live
  <2>2. \A j \in Live(E, "projects") : j # i => s[j].key # s[i].key
    BY <1>2, <1>5, <2>1
  <2> QED BY <2>1, <2>2 DEF KeysDiffer, Row
<1>6. CASE /\ DOMAIN s = 1 .. (n - 1)
           /\ \A j \in 1 .. (n - 1) : s[j] = IF j = w.id THEN Deleted ELSE t[j]
  <2>1. \A j \in Live(E, "projects") : j \in Live(D, "projects") /\ s[j] = t[j]
    BY <1>1, <1>6 DEF Live
  <2> QED BY <2>1 DEF KeysDiffer, Row
<1> QED BY <1>3, <1>4, <1>5, <1>6, ProjectsWritten

LEMMA StepKeys ==
  ASSUME CountInv, SoundInv, KeysDiffer(db), [Next]_vars, Isolation = "serializable"
  PROVE  KeysDiffer(db')
<1>1. ASSUME NEW h \in Handlers, CommitTransaction(h) PROVE KeysDiffer(db')
  <2>1. IsWrite(handler[h].txn) /\ Allowed(db, handler[h].txn) /\ IsDatabase(db)
    BY <1>1 DEF CommitTransaction, Committable, CountInv, Shapes, IsHandler, SoundInv
  <2>2. db' = Commit(db, handler[h].txn, handler[h].base[CounterOf(handler[h].txn.table)])
    BY <1>1 DEF CommitTransaction
  <2> QED BY <2>1, <2>2, KeysStayDifferent
<1>2. ASSUME NEW h \in Handlers, ~CommitTransaction(h),
             Request(h) \/ Proceed(h) \/ TransactionFails(h)
      PROVE  UNCHANGED db
  BY <1>2, RequestChanges DEF Proceed
<1>3. ASSUME NEW r \in Registries, Refresh(r) \/ ReadFails(r) PROVE UNCHANGED db
  BY <1>3 DEF Refresh, StartRefresh, ReadBefore, ReadRows, ReadAgain, Install, BuildFails, ReadFails
<1>4. CASE Stop \/ Start \/ UNCHANGED vars
  BY <1>4 DEF Stop, Start, vars
<1> QED BY <1>1, <1>2, <1>3, <1>4 DEF Next

(* What authorize_project asks of the project it found, said at once.      *)
Welcome(row, req) ==
  /\ row.ips = {} \/ req.ip \in row.ips
  /\ row.public \/ {req.header, req.field} \ {NoToken} = {row.token}

LEMMA WelcomeIsAuthorized ==
  ASSUME NEW row, NEW req
  PROVE  Unauthorized(row, req) = "none" <=> Welcome(row, req)
<1>1. CASE row.ips # {} /\ req.ip \notin row.ips
  BY <1>1 DEF Unauthorized, Welcome
<1>2. CASE ~(row.ips # {} /\ req.ip \notin row.ips) /\ row.public
  BY <1>2 DEF Unauthorized, Welcome
<1>3. CASE ~(row.ips # {} /\ req.ip \notin row.ips) /\ ~row.public
  <2>1. Unauthorized(row, req) = "none"
          <=> ~Conflicting(req) /\ Token(req) # NoToken /\ Token(req) = row.token
    BY <1>3 DEF Unauthorized
  <2>2. ~Conflicting(req) /\ Token(req) # NoToken /\ Token(req) = row.token
          <=> {req.header, req.field} \ {NoToken} = {row.token}
    <3>1. CASE req.header = NoToken  BY <3>1 DEF Conflicting, Token
    <3>2. CASE req.header # NoToken /\ req.field = NoToken  BY <3>2 DEF Conflicting, Token
    <3>3. CASE req.header # NoToken /\ req.field # NoToken  BY <3>3 DEF Conflicting, Token
    <3> QED BY <3>1, <3>2, <3>3
  <2> QED BY <1>3, <2>1, <2>2 DEF Welcome
<1> QED BY <1>1, <1>2, <1>3

LEMMA AnswerIsEntitled ==
  ASSUME KeysDiffer(db), NEW req, Undecodable(req) = "none", ~(req.size > MaxEventBytes)
  PROVE  Answer(ProjectSnapshot(db), req)[1] = "append" <=> Entitled(req)
<1> DEFINE P == ProjectSnapshot(db)
           found == {p \in P : p[2].key = req.key}
           project == CHOOSE p \in found : TRUE
<1>1. Answer(P, req)[1] = "append" <=> found # {} /\ Unauthorized(project[2], req) = "none"
  BY DEF Answer
<1>2. Entitled(req) <=> \E i \in EnabledProjects(db) :
                          /\ Row(db, "projects", i).key = req.key
                          /\ Welcome(Row(db, "projects", i), req)
  BY DEF Entitled, Welcome
<1>3. \A p : p \in found <=> \E i \in EnabledProjects(db) :
                               /\ p = <<i, Row(db, "projects", i)>>
                               /\ Row(db, "projects", i).key = req.key
  BY DEF ProjectSnapshot
<1> HIDE DEF P, found, project
<1>4. ASSUME NEW i \in EnabledProjects(db), Row(db, "projects", i).key = req.key
      PROVE  found # {} /\ project[2] = Row(db, "projects", i)
  <2>1. <<i, Row(db, "projects", i)>> \in found  BY <1>3, <1>4
  <2>2. project \in found  BY <2>1, Zenon DEF project
  <2>3. PICK j \in EnabledProjects(db) : /\ project = <<j, Row(db, "projects", j)>>
                                         /\ Row(db, "projects", j).key = req.key
    BY <1>3, <2>2
  <2>4. i = j
    <3>1. i \in Live(db, "projects") /\ j \in Live(db, "projects")  BY DEF EnabledProjects
    <3>2. Row(db, "projects", i).key = Row(db, "projects", j).key  BY <1>4, <2>3
    <3> QED BY <3>1, <3>2 DEF KeysDiffer
  <2> QED BY <2>1, <2>3, <2>4
<1>5. ASSUME found # {}
      PROVE  \E i \in EnabledProjects(db) : Row(db, "projects", i).key = req.key
  BY <1>3, <1>5
<1> QED BY <1>1, <1>2, <1>4, <1>5, WelcomeIsAuthorized DEF P

(* While the last change of the projects has been answered, exactly the    *)
(* senders that the database entitles may log events, for every request:   *)
(* the refreshed registry serves the rows, and the handler's checks, one   *)
(* after the other, come to what an administrator means by them            *)
(* (ingest/endpoint.rs authenticate, authorize_project).                   *)
THEOREM EntitledAreAccepted ==
  ASSUME Isolation = "serializable", Sound(InitialDatabase), KeysDiffer(InitialDatabase),
         MaxEventBytes \in Int, \A req \in Requests : req.size \in Int
  PROVE  Spec => []AcceptedIffEntitled
<1>1. Init => CountInv /\ ContentInv /\ SoundInv /\ KeysDiffer(db)
  BY InitCounts, InitContent, InitSound DEF Init
<1>2. CountInv /\ ContentInv /\ SoundInv /\ KeysDiffer(db) /\ [Next]_vars
        => CountInv' /\ ContentInv' /\ SoundInv' /\ KeysDiffer(db)'
  BY StepCounts, StepContent, StepSound, StepKeys
<1>3. CountInv /\ ContentInv /\ KeysDiffer(db) => AcceptedIffEntitled
  <2> SUFFICES ASSUME CountInv, ContentInv, KeysDiffer(db),
                      "projects" \in scenario.watch,
                      answered["projects"] = db.version["projects"],
                      NEW req \in Requests, Undecodable(req) = "none", req.size <= MaxEventBytes
               PROVE  Answer(registry["projects"].rows, req)[1] = "append" <=> Entitled(req)
    BY DEF AcceptedIffEntitled
  <2>1. "projects" \in Registries /\ "projects" \in Counters  BY DEF Registries, Counters
  <2>2. registry["projects"].version = db.version["projects"]
    BY <2>1 DEF CountInv, Shapes, CountersGrow, AnsweredInForce
  <2>3. registry["projects"].rows = View("projects", db)
    BY <2>2 DEF ContentInv, ServedRight, Followed
  <2>4. registry["projects"].rows = ProjectSnapshot(db)
    BY <2>3 DEF View
  <2>5. ~(req.size > MaxEventBytes)  OBVIOUS
  <2> QED BY <2>4, <2>5, AnswerIsEntitled
<1> QED BY <1>1, <1>2, <1>3, PTL DEF Spec

(***************************************************************************)
(* The router of processors.  Its counter moves with the scripts and the   *)
(* bindings; projects come and go without it.  What was read of a project  *)
(* therefore stays right as long as the project is there: its binding and  *)
(* its script can change only with the counter.                            *)
(***************************************************************************)
Bound(D, p) ==
  \E b \in Live(D, "bindings") :
    /\ Row(D, "bindings", b).enabled
    /\ p = <<Row(D, "bindings", b).project, Row(D, "bindings", b).script,
             Row(D, "scripts", Row(D, "bindings", b).script).source>>
    /\ Row(D, "bindings", b).script \in Live(D, "scripts")
    /\ Row(D, "scripts", Row(D, "bindings", b).script).status = "active"

(* A project that was read is bound as it was, or is gone for good.        *)
StillBound(D, p) ==
  /\ p[1] \in DOMAIN D.rows["projects"]
  /\ p[1] \in Live(D, "projects") => Bound(D, p)

DefaultRight(D, rows) == rows.default = SourceOf(D, DefaultScript(D))
BoundRight(D, rows) == \A p \in rows.projects : StillBound(D, p)

RouterInv ==
  /\ DOMAIN registry["scripts"].rows = {"ids", "default", "projects"}
  /\ DOMAIN load["scripts"].rows = {"ids", "default", "projects"}
  /\ "scripts" \in scenario.watch /\ registry["scripts"].version = db.version["scripts"] =>
       DefaultRight(db, registry["scripts"].rows) /\ BoundRight(db, registry["scripts"].rows)
  /\ load["scripts"].before = db.version["scripts"] =>
       /\ load["scripts"].step >= 3 => DefaultRight(db, load["scripts"].rows)
       /\ load["scripts"].step >= 4 => BoundRight(db, load["scripts"].rows)

LEMMA RuntimeIsBound ==
  ASSUME NEW D, NEW p
  PROVE  p \in RuntimeProcessors(D) <=> Bound(D, p) /\ p[1] \in EnabledProjects(D)
BY DEF RuntimeProcessors, Bound

LEMMA RuntimeStillBound ==
  ASSUME NEW D, NEW p \in RuntimeProcessors(D)
  PROVE  StillBound(D, p)
BY RuntimeIsBound DEF StillBound, EnabledProjects, Live

(* The scripts and the bindings of the projects that are left are as they  *)
(* were after a commit that another counter counts.                        *)
LEMMA CommitElsewhere ==
  ASSUME NEW D, IsDatabase(D), NEW w, IsWrite(w), Allowed(D, w), NEW seen,
         CounterOf(w.table) # "scripts", NEW E, E = Commit(D, w, seen)
  PROVE  /\ E.rows["scripts"] = D.rows["scripts"]
         /\ \A b \in Live(D, "bindings") :
              \/ b \in Live(E, "bindings") /\ Row(E, "bindings", b) = Row(D, "bindings", b)
              \/ Row(D, "bindings", b).project \notin Live(E, "projects")
         /\ DOMAIN D.rows["projects"] \subseteq DOMAIN E.rows["projects"]
         /\ Live(E, "projects") \cap DOMAIN D.rows["projects"] \subseteq Live(D, "projects")
<1>1. w.table \in {"projects", "targets", "sinks"}
  BY DEF CounterOf, IsWrite, Tables
<1>2. E.rows["scripts"] = Written(D, w, "scripts") /\ E.rows["bindings"] = Written(D, w, "bindings")
  BY TablesAre DEF Commit
<1>3. E.rows["scripts"] = D.rows["scripts"]
  BY <1>1, <1>2 DEF Written, IsWrite
<1>4. /\ Len(D.rows["projects"]) \in Nat
      /\ DOMAIN D.rows["projects"] = 1 .. Len(D.rows["projects"])
  BY TableTyped, TablesAre
<1>5. /\ DOMAIN D.rows["projects"] \subseteq DOMAIN E.rows["projects"]
      /\ Live(E, "projects") \cap DOMAIN D.rows["projects"] \subseteq Live(D, "projects")
  <2> DEFINE t == D.rows["projects"]
             n == Len(t) + 1
             s == E.rows["projects"]
  <2>1. CASE s = t
    BY <2>1 DEF Live
  <2>2. CASE /\ DOMAIN s = 1 .. n
             /\ \A i \in 1 .. (n - 1) : s[i] = t[i]
    BY <1>4, <2>2 DEF Live
  <2>3. ASSUME NEW i \in Live(D, "projects"), NEW new, DOMAIN s = 1 .. (n - 1), s[i] = new,
               \A j \in 1 .. (n - 1) : j # i => s[j] = t[j]
        PROVE  /\ DOMAIN t \subseteq DOMAIN s
               /\ Live(E, "projects") \cap DOMAIN t \subseteq Live(D, "projects")
    BY <1>4, <2>3 DEF Live
  <2>4. CASE /\ DOMAIN s = 1 .. (n - 1)
             /\ \A j \in 1 .. (n - 1) : s[j] = IF j = w.id THEN Deleted ELSE t[j]
    BY <1>4, <2>4 DEF Live
  <2> QED BY <2>1, <2>2, <2>3, <2>4, ProjectsWritten
<1>6. CASE w.do = "delete" /\ w.table = "projects"
  <2>1. E.rows["bindings"] = [b \in DOMAIN D.rows["bindings"] |->
                                IF b \in BindingOf(D, w.id) THEN Deleted ELSE D.rows["bindings"][b]]
    BY <1>2, <1>6 DEF Written
  <2>2. E.rows["projects"] = [b \in DOMAIN D.rows["projects"] |->
                                IF b = w.id THEN Deleted ELSE D.rows["projects"][b]]
    BY <1>6, TablesAre DEF Written, Commit
  <2>3. w.id \notin Live(E, "projects")  BY <2>2 DEF Live
  <2>4. ASSUME NEW b \in Live(D, "bindings"), Row(D, "bindings", b).project # w.id
        PROVE  b \in Live(E, "bindings") /\ Row(E, "bindings", b) = Row(D, "bindings", b)
    BY <2>1, <2>4 DEF Live, Row, BindingOf
  <2> QED BY <1>3, <1>5, <2>3, <2>4
<1>7. CASE ~(w.do = "delete" /\ w.table = "projects")
  <2>1. E.rows["bindings"] = D.rows["bindings"]
    BY <1>1, <1>2, <1>7 DEF Written, IsWrite
  <2> QED BY <1>3, <1>5, <2>1 DEF Live, Row
<1> QED BY <1>6, <1>7

LEMMA StaysBound ==
  ASSUME NEW D, IsDatabase(D), NEW w, IsWrite(w), Allowed(D, w), NEW seen,
         CounterOf(w.table) # "scripts", NEW E, E = Commit(D, w, seen)
  PROVE  /\ \A p : StillBound(D, p) => StillBound(E, p)
         /\ SourceOf(E, DefaultScript(E)) = SourceOf(D, DefaultScript(D))
<1>1. /\ E.rows["scripts"] = D.rows["scripts"]
      /\ \A b \in Live(D, "bindings") :
           \/ b \in Live(E, "bindings") /\ Row(E, "bindings", b) = Row(D, "bindings", b)
           \/ Row(D, "bindings", b).project \notin Live(E, "projects")
      /\ DOMAIN D.rows["projects"] \subseteq DOMAIN E.rows["projects"]
      /\ Live(E, "projects") \cap DOMAIN D.rows["projects"] \subseteq Live(D, "projects")
  BY CommitElsewhere
<1>2. /\ Live(E, "scripts") = Live(D, "scripts")
      /\ \A i : Row(E, "scripts", i) = Row(D, "scripts", i)
  BY <1>1 DEF Live, Row
<1>3. DefaultScript(E) = DefaultScript(D)
  <2> DEFINE found(t) == {i \in {i \in DOMAIN t : t[i] # Deleted} :
                            t[i].key = DefaultKey /\ t[i].status = "active"}
             default(t) == IF found(t) = {} THEN 0 ELSE CHOOSE i \in found(t) : TRUE
  <2>1. DefaultScript(D) = default(D.rows["scripts"])  BY DEF DefaultScript, Live, Row
  <2>2. DefaultScript(E) = default(E.rows["scripts"])  BY DEF DefaultScript, Live, Row
  <2>3. E.rows["scripts"] = D.rows["scripts"]  BY <1>1
  <2> HIDE DEF default
  <2> QED BY <2>1, <2>2, <2>3
<1>4. SourceOf(E, DefaultScript(E)) = SourceOf(D, DefaultScript(D))
  BY <1>2, <1>3 DEF SourceOf
<1>5. ASSUME NEW p, StillBound(D, p) PROVE StillBound(E, p)
  <2>1. p[1] \in DOMAIN D.rows["projects"]  BY <1>5 DEF StillBound
  <2>2. ASSUME p[1] \in Live(E, "projects") PROVE Bound(E, p)
    <3>1. Bound(D, p)  BY <1>1, <1>5, <2>1, <2>2 DEF StillBound
    <3>2. PICK b \in Live(D, "bindings") :
            /\ Row(D, "bindings", b).enabled
            /\ p = <<Row(D, "bindings", b).project, Row(D, "bindings", b).script,
                     Row(D, "scripts", Row(D, "bindings", b).script).source>>
            /\ Row(D, "bindings", b).script \in Live(D, "scripts")
            /\ Row(D, "scripts", Row(D, "bindings", b).script).status = "active"
      BY <3>1 DEF Bound
    <3>3. p[1] = Row(D, "bindings", b).project  BY <3>2
    <3>4. b \in Live(E, "bindings") /\ Row(E, "bindings", b) = Row(D, "bindings", b)
      BY <1>1, <2>2, <3>3
    <3> QED BY <1>2, <3>2, <3>4 DEF Bound
  <2> QED BY <1>1, <2>1, <2>2 DEF StillBound
<1> QED BY <1>4, <1>5

LEMMA ViewIsRight ==
  ASSUME NEW D
  PROVE  /\ DOMAIN View("scripts", D) = {"ids", "default", "projects"}
         /\ DefaultRight(D, View("scripts", D)) /\ BoundRight(D, View("scripts", D))
<1>1. View("scripts", D) = [ids |-> EnabledSinkIds(D), default |-> SourceOf(D, DefaultScript(D)),
                            projects |-> RuntimeProcessors(D)]
  BY DEF View
<1> QED BY <1>1, RuntimeStillBound DEF DefaultRight, BoundRight

LEMMA SameRouter ==
  ASSUME RouterInv, UNCHANGED <<db, scenario>>,
         registry'["scripts"] = registry["scripts"], load'["scripts"] = load["scripts"]
  PROVE  RouterInv'
BY DEF RouterInv, DefaultRight, BoundRight

LEMMA CommitRouter ==
  ASSUME CountInv, SoundInv, RouterInv, NEW h \in Handlers, CommitTransaction(h),
         Isolation = "serializable"
  PROVE  RouterInv'
<1> DEFINE c == CounterOf(handler[h].txn.table)
           seen == handler[h].base[c]
<1>1. /\ c \in Counters
      /\ db'.version = [db.version EXCEPT ![c] = db.version[c] + 1]
      /\ db.version \in [Counters -> Nat]
  BY CommitCounts DEF CommitTransaction, CountInv, Shapes
<1>2. UNCHANGED <<registry, load, scenario>>  BY DEF CommitTransaction, bounds
<1>3. /\ db' = Commit(db, handler[h].txn, seen) /\ Allowed(db, handler[h].txn)
      /\ IsWrite(handler[h].txn) /\ IsDatabase(db)
  BY DEF CommitTransaction, Committable, CountInv, Shapes, IsHandler, SoundInv
<1>4. /\ "scripts" \in Counters
      /\ registry["scripts"].version \in Nat /\ load["scripts"].before \in Nat
      /\ registry["scripts"].version <= db.version["scripts"]
      /\ load["scripts"].before <= db.version["scripts"]
  BY DEF CountInv, Shapes, CountersGrow, IsLoad, Registries, Counters
<1>5. CASE c = "scripts"
  <2>1. db'.version["scripts"] = db.version["scripts"] + 1 /\ db.version["scripts"] \in Nat
    BY <1>1, <1>4, <1>5
  <2> QED BY <1>2, <1>4, <2>1 DEF RouterInv
<1>6. CASE c # "scripts"
  <2>1. db'.version["scripts"] = db.version["scripts"]  BY <1>1, <1>4, <1>6
  <2>2. /\ \A p : StillBound(db, p) => StillBound(db', p)
        /\ SourceOf(db', DefaultScript(db')) = SourceOf(db, DefaultScript(db))
    <3> HIDE DEF seen
    <3> QED BY <1>3, <1>6, StaysBound
  <2>3. \A rows : /\ DefaultRight(db, rows) => DefaultRight(db', rows)
                  /\ BoundRight(db, rows) => BoundRight(db', rows)
    BY <2>2 DEF DefaultRight, BoundRight
  <2> QED BY <1>2, <2>1, <2>3 DEF RouterInv, DefaultRight, BoundRight
<1> QED BY <1>5, <1>6

LEMMA RefreshRouter ==
  ASSUME CountInv, RouterInv, NEW r \in Registries, Refresh(r) \/ ReadFails(r)
  PROVE  RouterInv'
<1>0. /\ db.version \in [Counters -> Nat] /\ Counters = Registries /\ "scripts" \in Counters
      /\ DOMAIN load = Registries /\ DOMAIN registry = Registries
      /\ registry["scripts"].version \in Nat
      /\ IsLoad(load["scripts"])
  BY DEF CountInv, Shapes, Registries, Counters
<1>1. UNCHANGED <<db, scenario>>
  BY DEF Refresh, StartRefresh, ReadBefore, ReadRows, ReadAgain, Install, BuildFails, ReadFails,
         bounds
<1>2. CASE r # "scripts"
  <2>1. registry'["scripts"] = registry["scripts"] /\ load'["scripts"] = load["scripts"]
    BY <1>0, <1>2 DEF Refresh, StartRefresh, ReadBefore, ReadRows, ReadAgain, Install, BuildFails,
              ReadFails
  <2> QED BY <1>1, <2>1, SameRouter
<1> DEFINE old == load["scripts"]
           new == load'["scripts"]
<1>3. ASSUME NEW by, new = Fresh("scripts", by), registry'["scripts"] = registry["scripts"]
      PROVE  RouterInv'
  <2>1. DOMAIN new.rows = {"ids", "default", "projects"} /\ new.step = 0
    BY <1>3 DEF Fresh, NoRows
  <2> QED BY <1>1, <1>3, <2>1 DEF RouterInv
<1>4. ASSUME r = "scripts", NEW by, StartRefresh(r, by) PROVE RouterInv'
  <2>1. CASE UpToDate(r)
    BY <1>1, <1>4, <2>1, SameRouter DEF StartRefresh
  <2>2. CASE ~UpToDate(r)
    <3>1. new = Fresh("scripts", by) /\ UNCHANGED registry
      BY <1>0, <1>4, <2>2 DEF StartRefresh
    <3> QED BY <1>3, <3>1
  <2> QED BY <2>1, <2>2
<1>5. CASE r = "scripts" /\ ReadBefore(r)
  <2>1. new.rows = old.rows /\ new.step = 1 /\ UNCHANGED registry
    BY <1>0, <1>5 DEF ReadBefore, IsLoad
  <2> QED BY <1>1, <2>1 DEF RouterInv
<1>6. CASE r = "scripts" /\ ReadRows(r)
  <2>1. /\ new.before = old.before /\ new.rows = Read("scripts", old.step, old.rows, db)
        /\ new.step = old.step + 1 /\ UNCHANGED registry /\ old.step \in {1, 2, 3}
    BY <1>0, <1>6 DEF ReadRows, IsLoad, Queries
  <2>2. DOMAIN old.rows = {"ids", "default", "projects"}  BY DEF RouterInv
  <2>3. CASE old.step = 1
    <3>1. new.rows = [old.rows EXCEPT !.ids = EnabledSinkIds(db)]
      BY <2>1, <2>3 DEF Read
    <3>2. DOMAIN new.rows = {"ids", "default", "projects"} /\ new.step = 2
      BY <2>1, <2>2, <2>3, <3>1
    <3> QED BY <1>1, <2>1, <3>2 DEF RouterInv
  <2>4. CASE old.step = 2
    <3>1. new.rows = [old.rows EXCEPT !.default = SourceOf(db, DefaultScript(db))]
      BY <2>1, <2>4 DEF Read
    <3>2. /\ DOMAIN new.rows = {"ids", "default", "projects"} /\ new.step = 3
          /\ new.rows.default = SourceOf(db, DefaultScript(db))
      BY <2>1, <2>2, <2>4, <3>1
    <3> QED BY <1>1, <2>1, <3>2 DEF RouterInv, DefaultRight
  <2>5. CASE old.step = 3
    <3>1. new.rows = [old.rows EXCEPT !.projects = RuntimeProcessors(db)]
      BY <2>1, <2>5 DEF Read
    <3>2. /\ DOMAIN new.rows = {"ids", "default", "projects"} /\ new.step = 4
          /\ new.rows.default = old.rows.default
          /\ new.rows.projects = RuntimeProcessors(db)
      BY <2>1, <2>2, <2>5, <3>1
    <3>3. BoundRight(db, new.rows)  BY <3>2, RuntimeStillBound DEF BoundRight
    <3>4. old.before = db.version["scripts"] => DefaultRight(db, new.rows)
      BY <2>5, <3>2 DEF RouterInv, DefaultRight
    <3> QED BY <1>1, <2>1, <3>2, <3>3, <3>4 DEF RouterInv, DefaultRight, BoundRight
  <2> QED BY <2>1, <2>3, <2>4, <2>5
<1>7. CASE r = "scripts" /\ ReadAgain(r)
  <2>1. new = Fresh("scripts", old.by) /\ UNCHANGED registry
    BY <1>0, <1>7 DEF ReadAgain
  <2> QED BY <1>3, <2>1
<1>8. CASE r = "scripts" /\ Install(r)
  <2>1. new = Fresh("scripts", Nobody) /\ Queries(r) = 3
    BY <1>0, <1>8 DEF Install, Free, Queries
  <2>2. CASE Newer(r)
    <3>1. registry'["scripts"] = [version |-> db.version["scripts"], rows |-> old.rows]
      BY <1>0, <1>8, <2>2 DEF Install
    <3>2. old.before = db.version["scripts"] /\ old.step = 4
      BY <1>8, <2>1 DEF Install, UnchangedSince
    <3>3. registry'["scripts"].rows = old.rows  BY <3>1
    <3>4. /\ DefaultRight(db, old.rows) /\ BoundRight(db, old.rows)
          /\ DOMAIN old.rows = {"ids", "default", "projects"}
      BY <3>2 DEF RouterInv
    <3>5. DOMAIN new.rows = {"ids", "default", "projects"} /\ new.step = 0
      BY <2>1 DEF Fresh, NoRows
    <3> QED BY <1>1, <3>3, <3>4, <3>5 DEF RouterInv, DefaultRight, BoundRight
  <2>3. CASE ~Newer(r)
    <3>1. registry'["scripts"] = registry["scripts"]  BY <1>0, <1>8, <2>3 DEF Install
    <3> QED BY <1>3, <2>1, <3>1
  <2> QED BY <2>2, <2>3
<1>9. CASE r = "scripts" /\ (BuildFails(r) \/ ReadFails(r))
  <2>1. new = Fresh("scripts", Nobody) /\ UNCHANGED registry
    BY <1>0, <1>9 DEF BuildFails, ReadFails, Free
  <2> QED BY <1>3, <2>1
<1> QED BY <1>2, <1>4, <1>5, <1>6, <1>7, <1>8, <1>9 DEF Refresh

LEMMA StepRouter ==
  ASSUME CountInv, SoundInv, RouterInv, [Next]_vars, Isolation = "serializable"
  PROVE  RouterInv'
<1>1. ASSUME NEW h \in Handlers, Request(h) \/ Proceed(h) \/ TransactionFails(h)
      PROVE  RouterInv'
  <2>1. CASE CommitTransaction(h)  BY <2>1, CommitRouter
  <2>2. CASE ~CommitTransaction(h)
    BY <1>1, <2>2, RequestChanges, SameRouter DEF Proceed
  <2> QED BY <2>1, <2>2
<1>2. CASE Stop
  <2>1. load'["scripts"] = Fresh("scripts", Nobody) /\ UNCHANGED <<db, scenario, registry>>
    BY <1>2 DEF Stop, Registries, Counters, Free
  <2>2. /\ DOMAIN load'["scripts"].rows = {"ids", "default", "projects"}
        /\ load'["scripts"].step = 0
    BY <2>1 DEF Fresh, NoRows
  <2> QED BY <2>1, <2>2 DEF RouterInv
<1>3. CASE Start
  <2>1. UNCHANGED <<db, load, scenario>>  BY <1>3 DEF Start, bounds
  <2>2. CASE "scripts" \in scenario.watch
    <3>1. registry'["scripts"] = [version |-> db.version["scripts"], rows |-> View("scripts", db)]
      BY <1>3, <2>2 DEF Start, Registries, Counters
    <3>2. registry'["scripts"].rows = View("scripts", db)  BY <3>1
    <3> QED BY <2>1, <3>2, ViewIsRight DEF RouterInv, DefaultRight, BoundRight
  <2>3. CASE "scripts" \notin scenario.watch
    <3>1. registry'["scripts"] = registry["scripts"]
      BY <1>3, <2>3 DEF Start, Registries, Counters
    <3> QED BY <2>1, <3>1, SameRouter
  <2> QED BY <2>2, <2>3
<1>4. CASE UNCHANGED vars
  BY <1>4, SameRouter DEF vars, bounds
<1> QED BY <1>1, <1>2, <1>3, <1>4, RefreshRouter DEF Next

LEMMA InitRouter == ASSUME Init PROVE RouterInv
<1>1. /\ registry["scripts"] = [version |-> 0, rows |-> View("scripts", InitialDatabase)]
      /\ load["scripts"] = Fresh("scripts", Nobody) /\ db = InitialDatabase
  BY DEF Init, Registries, Counters, Free
<1>2. registry["scripts"].rows = View("scripts", db)  BY <1>1
<1>3. DOMAIN load["scripts"].rows = {"ids", "default", "projects"} /\ load["scripts"].step = 0
  BY <1>1 DEF Fresh, NoRows
<1> QED BY <1>2, <1>3, ViewIsRight DEF RouterInv

(* A router of processors whose version compares equal runs, for every     *)
(* project that is enabled and that it knows, the script the project is    *)
(* bound to, and the default script for the others, whatever commits come  *)
(* between its queries and after them (ingest/processor.rs refresh).       *)
THEOREM RouterIsRight ==
  ASSUME Isolation = "serializable", Sound(InitialDatabase)
  PROVE  Spec => []RouterFollowsBindings
<1>1. Init => CountInv /\ SoundInv /\ RouterInv
  BY InitCounts, InitSound, InitRouter
<1>2. CountInv /\ SoundInv /\ RouterInv /\ [Next]_vars => CountInv' /\ SoundInv' /\ RouterInv'
  BY StepCounts, StepSound, StepRouter
<1>3. RouterInv => RouterFollowsBindings
  <2> SUFFICES ASSUME RouterInv, "scripts" \in scenario.watch,
                      registry["scripts"].version = db.version["scripts"]
               PROVE  /\ registry["scripts"].rows.default = SourceOf(db, DefaultScript(db))
                      /\ \A p \in registry["scripts"].rows.projects :
                           p[1] \in EnabledProjects(db) => p \in RuntimeProcessors(db)
    BY DEF RouterFollowsBindings
  <2> QED BY RuntimeIsBound DEF RouterInv, DefaultRight, BoundRight, StillBound, EnabledProjects
<1> QED BY <1>1, <1>2, <1>3, PTL DEF Spec

(***************************************************************************)
(* The types, for every isolation and whatever the tables say together:    *)
(* what a handler holds is well typed whichever database it has read.      *)
(***************************************************************************)
HandlerTyped(D, x) ==
  /\ DOMAIN x = DOMAIN Idle
  /\ x.pc \in {"idle", "script", "commit", "assign", "refresh"}
  /\ DecidesTyped(D, x.txn)
  /\ x.base \in [Counters -> Nat] /\ x.reached \in [Counters -> Nat]
  /\ x.ids \subseteq SinkIds /\ x.todo \in Seq(Registries)
  /\ x.pc = "refresh" => x.todo # <<>>
  /\ x.pc = "commit" => x.txn.do # "refuse"

SinksRead == [id : SinkIds, target : Nat, dest : Dests]

LoadTyped(r, x) ==
  /\ IsLoad(x) /\ x.step \in 0 .. Queries(r) + 1
  /\ r = "scripts" \/ x.step = Queries(r) + 1 => x.rows \in Snapshot(r)
  /\ r = "sinks" /\ x.step = 2 => x.rows \subseteq SinksRead

HandlersTyped == DOMAIN handler = Handlers /\ \A h \in Handlers : HandlerTyped(db, handler[h])
RegistriesTyped ==
  /\ DOMAIN registry = Registries
  /\ \A r \in Registries : registry[r].version \in Nat /\ registry[r].rows \in Snapshot(r)
LoadsTyped ==
  /\ DOMAIN load = Registries
  /\ \A r \in Registries : /\ LoadTyped(r, load[r])
                           /\ load[r].by \in Handlers => NextRefresh(load[r].by, r)
Bounded ==
  /\ up \in BOOLEAN /\ scenario \in Scenarios
  /\ changes \in 0 .. MaxChanges /\ errors \in 0 .. MaxErrors /\ restarts \in 0 .. MaxRestarts

TypeInv ==
  /\ IsDatabase(db) /\ HandlersTyped /\ RegistriesTyped /\ LoadsTyped
  /\ answered \in [Registries -> Nat] /\ Bounded

LEMMA RegistriesAre == Registries = {"projects", "scripts", "sinks"} /\ Counters = Registries
BY DEF Registries, Counters

LEMMA TypeInvImplies == TypeInv => TypeOK
<1> SUFFICES ASSUME TypeInv PROVE TypeOK  OBVIOUS
<1>1. ASSUME NEW h \in Handlers PROVE HandlerTyped(db, handler[h]) /\ IsTxn(handler[h].txn)
  <2>1. HandlerTyped(db, handler[h])  BY DEF TypeInv, HandlersTyped
  <2>2. DecidesTyped(db, handler[h].txn)  BY <2>1 DEF HandlerTyped
  <2> DEFINE txn == handler[h].txn
  <2>3. ASSUME NEW t \in Tables, NEW row \in Rows[t], txn = Insert(t, row) PROVE IsTxn(txn)
    BY <2>3 DEF IsTxn, Insert
  <2>4. ASSUME NEW t \in Tables, NEW i \in DOMAIN db.rows[t], NEW set, txn = Update(t, i, set)
        PROVE  IsTxn(txn)
    BY <2>4 DEF IsTxn, Update
  <2>5. ASSUME NEW t \in Tables, NEW i \in Nat, txn = Delete(t, i) PROVE IsTxn(txn)
    BY <2>5 DEF IsTxn, Delete
  <2>6. txn.do = "refuse" => IsTxn(txn)  BY DEF IsTxn
  <2>7. IsTxn(txn)
    <3> HIDE DEF txn
    <3> QED BY <2>2, <2>3, <2>4, <2>5, <2>6 DEF DecidesTyped, TypedWrite, txn
  <2> QED BY <2>1, <2>7
<1>2. ASSUME NEW r \in Registries
      PROVE  /\ registry[r].version \in Nat /\ registry[r].rows \in Snapshot(r)
             /\ LoadTyped(r, load[r]) /\ answered[r] \in Nat
  BY <1>2 DEF TypeInv, RegistriesTyped, LoadsTyped
<1> QED BY <1>1, <1>2 DEF TypeOK, TypeInv, HandlerTyped, LoadTyped, IsLoad, Bounded

---------------------------------------------------------------------------
(* What is read from typed tables is typed.                                *)
LEMMA RowsAreTyped ==
  ASSUME NEW D, IsDatabase(D)
  PROVE  /\ \A i \in Live(D, "projects") : i \in Nat /\ Row(D, "projects", i) \in ProjectRow
         /\ \A i \in Live(D, "scripts") : i \in Nat /\ Row(D, "scripts", i) \in ScriptRow
         /\ \A i \in Live(D, "bindings") : i \in Nat /\ Row(D, "bindings", i) \in BindingRow
         /\ \A i \in Live(D, "targets") : i \in Nat /\ Row(D, "targets", i) \in TargetRow
         /\ \A i \in Live(D, "sinks") : i \in Nat /\ Row(D, "sinks", i) \in SinkRow
BY TableTyped, TablesAre

LEMMA SinksReadTyped ==
  ASSUME NEW D, IsDatabase(D) PROVE EnabledSinks(D) \subseteq SinksRead
<1>1. \A i \in Live(D, "sinks") : Row(D, "sinks", i) \in SinkRow  BY RowsAreTyped
<1>2. \A i \in Live(D, "sinks") : RuntimeSink(D, i) \in SinksRead
  BY <1>1 DEF SinkRow, RuntimeSink, SinksRead
<1> QED BY <1>2 DEF EnabledSinks

LEMMA RuntimeSinksTyped ==
  ASSUME NEW D, IsDatabase(D), NEW sinks, sinks \subseteq SinksRead
  PROVE  RuntimeSinks(D, sinks) \in Snapshot("sinks")
<1>1. ASSUME NEW s \in sinks, EnabledTarget(D, s.target)
      PROVE  [id |-> s.id, type |-> Row(D, "targets", s.target).type,
              config |-> Row(D, "targets", s.target).config, dest |-> s.dest]
               \in [id : SinkIds, type : Types, config : Configs, dest : Dests]
  <2>1. Row(D, "targets", s.target) \in TargetRow  BY <1>1, RowsAreTyped DEF EnabledTarget
  <2>2. s.id \in SinkIds /\ s.dest \in Dests  BY DEF SinksRead
  <2> QED BY <2>1, <2>2 DEF TargetRow
<1>2. RuntimeSinks(D, sinks) \subseteq [id : SinkIds, type : Types, config : Configs, dest : Dests]
  BY <1>1 DEF RuntimeSinks
<1> QED BY <1>2 DEF Snapshot

LEMMA SourceTyped ==
  ASSUME NEW D, IsDatabase(D)
  PROVE  SourceOf(D, DefaultScript(D)) \in SUBSET ConstantNames
<1> DEFINE found == {i \in Live(D, "scripts") :
                       /\ Row(D, "scripts", i).key = DefaultKey
                       /\ Row(D, "scripts", i).status = "active"}
<1>1. DefaultScript(D) # 0 => DefaultScript(D) \in found
  <2>1. DefaultScript(D) = IF found = {} THEN 0 ELSE CHOOSE i \in found : TRUE
    BY DEF DefaultScript
  <2> HIDE DEF found
  <2> QED BY <2>1
<1>2. DefaultScript(D) # 0 => Row(D, "scripts", DefaultScript(D)) \in ScriptRow
  BY <1>1, RowsAreTyped
<1> QED BY <1>2 DEF SourceOf, ScriptRow

LEMMA ProcessorsTyped ==
  ASSUME NEW D, IsDatabase(D)
  PROVE  RuntimeProcessors(D) \in SUBSET (Nat \X Nat \X SUBSET ConstantNames)
<1>1. ASSUME NEW p \in RuntimeProcessors(D)
      PROVE  p \in Nat \X Nat \X SUBSET ConstantNames
  <2>1. PICK b \in Live(D, "bindings") :
          /\ p = <<Row(D, "bindings", b).project, Row(D, "bindings", b).script,
                   Row(D, "scripts", Row(D, "bindings", b).script).source>>
          /\ Row(D, "bindings", b).script \in Live(D, "scripts")
    BY <1>1 DEF RuntimeProcessors
  <2>2. Row(D, "bindings", b) \in BindingRow  BY RowsAreTyped
  <2>3. Row(D, "scripts", Row(D, "bindings", b).script) \in ScriptRow  BY <2>1, RowsAreTyped
  <2>4. /\ Row(D, "bindings", b).project \in Nat /\ Row(D, "bindings", b).script \in Nat
        /\ Row(D, "scripts", Row(D, "bindings", b).script).source \in SUBSET ConstantNames
    BY <2>2, <2>3 DEF BindingRow, ScriptRow
  <2> QED BY <2>1, <2>4
<1> QED BY <1>1

LEMMA ProjectsReadTyped ==
  ASSUME NEW D, IsDatabase(D) PROVE ProjectSnapshot(D) \in Snapshot("projects")
<1>1. \A i \in EnabledProjects(D) : i \in Nat /\ Row(D, "projects", i) \in ProjectRow
  BY RowsAreTyped DEF EnabledProjects
<1> QED BY <1>1 DEF ProjectSnapshot, Snapshot

LEMMA ScriptsSnapshot ==
  ASSUME NEW ids, ids \subseteq SinkIds, NEW default \in SUBSET ConstantNames,
         NEW projects \in SUBSET (Nat \X Nat \X SUBSET ConstantNames)
  PROVE  [ids |-> ids, default |-> default, projects |-> projects] \in Snapshot("scripts")
BY DEF Snapshot

LEMMA ViewTyped ==
  ASSUME NEW D, IsDatabase(D), NEW r \in Registries PROVE View(r, D) \in Snapshot(r)
<1>1. CASE r = "projects"  BY <1>1, ProjectsReadTyped DEF View
<1>2. CASE r = "sinks"  BY <1>2, SinksReadTyped, RuntimeSinksTyped DEF View
<1>3. CASE r = "scripts"
  BY <1>3, SinkIdsTyped, SourceTyped, ProcessorsTyped, ScriptsSnapshot DEF View
<1> QED BY <1>1, <1>2, <1>3, RegistriesAre

LEMMA NextReadTyped ==
  ASSUME IsDatabase(db), NEW r \in Registries, NEW x, LoadTyped(r, x), x.step \in 1 .. Queries(r),
         NEW y, DOMAIN y = DOMAIN x, y.by = x.by, y.before = x.before, y.step = x.step + 1,
         y.rows = Read(r, x.step, x.rows, db)
  PROVE  LoadTyped(r, y)
<1>1. /\ DOMAIN y = DOMAIN x /\ y.by = x.by /\ y.before = x.before /\ y.step = x.step + 1
      /\ y.rows = Read(r, x.step, x.rows, db) /\ IsLoad(x)
  BY DEF LoadTyped
<1>2. x.step \in Nat /\ x.step # 0 /\ Queries(r) \in Nat /\ y.step \in 0 .. Queries(r) + 1
  BY <1>1, RegistriesAre DEF Queries
<1>3. IsLoad(y)  BY <1>1, <1>2 DEF IsLoad
<1>4. CASE r = "projects"
  <2>1. x.step = 1 /\ Queries(r) = 1  BY <1>4 DEF Queries
  <2>2. y.rows \in Snapshot(r)  BY <1>1, <1>4, <2>1, ProjectsReadTyped DEF Read
  <2> QED BY <1>1, <1>2, <1>3, <1>4, <2>2 DEF LoadTyped
<1>5. CASE r = "sinks"
  <2>1. x.step \in {1, 2} /\ Queries(r) = 2  BY <1>5 DEF Queries
  <2>2. x.step = 1 => y.rows \subseteq SinksRead
    BY <1>1, <1>5, SinksReadTyped DEF Read
  <2>3. x.step = 2 => y.rows \in Snapshot(r)
    <3>1. x.step = 2 => x.rows \subseteq SinksRead  BY <1>5 DEF LoadTyped
    <3> QED BY <1>1, <1>5, <3>1, RuntimeSinksTyped DEF Read
  <2> QED BY <1>1, <1>2, <1>3, <1>5, <2>1, <2>2, <2>3 DEF LoadTyped
<1>6. CASE r = "scripts"
  <2>1. x.step \in {1, 2, 3} /\ Queries(r) = 3  BY <1>6 DEF Queries
  <2>2. x.rows \in Snapshot("scripts")  BY <1>6 DEF LoadTyped
  <2>3. /\ DOMAIN x.rows = {"ids", "default", "projects"}
        /\ x.rows = [ids |-> x.rows.ids, default |-> x.rows.default, projects |-> x.rows.projects]
        /\ x.rows.ids \subseteq SinkIds /\ x.rows.default \in SUBSET ConstantNames
        /\ x.rows.projects \in SUBSET (Nat \X Nat \X SUBSET ConstantNames)
    BY <2>2 DEF Snapshot
  <2>4. CASE x.step = 1
    <3>1. y.rows = [ids |-> EnabledSinkIds(db), default |-> x.rows.default,
                    projects |-> x.rows.projects]
      BY <1>1, <1>6, <2>3, <2>4 DEF Read
    <3>2. EnabledSinkIds(db) \subseteq SinkIds  BY SinkIdsTyped
    <3>3. y.rows \in Snapshot(r)  BY <1>6, <2>3, <3>1, <3>2, ScriptsSnapshot
    <3> QED BY <1>1, <1>2, <1>3, <1>6, <3>3 DEF LoadTyped
  <2>5. CASE x.step = 2
    <3>1. y.rows = [ids |-> x.rows.ids, default |-> SourceOf(db, DefaultScript(db)),
                    projects |-> x.rows.projects]
      BY <1>1, <1>6, <2>3, <2>5 DEF Read
    <3>2. y.rows \in Snapshot(r)  BY <1>6, <2>3, <3>1, SourceTyped, ScriptsSnapshot
    <3> QED BY <1>1, <1>2, <1>3, <1>6, <3>2 DEF LoadTyped
  <2>6. CASE x.step = 3
    <3>1. y.rows = [ids |-> x.rows.ids, default |-> x.rows.default,
                    projects |-> RuntimeProcessors(db)]
      BY <1>1, <1>6, <2>3, <2>6 DEF Read
    <3>2. y.rows \in Snapshot(r)  BY <1>6, <2>3, <3>1, ProcessorsTyped, ScriptsSnapshot
    <3> QED BY <1>1, <1>2, <1>3, <1>6, <3>2 DEF LoadTyped
  <2> QED BY <2>1, <2>4, <2>5, <2>6
<1> QED BY <1>4, <1>5, <1>6, RegistriesAre

LEMMA FreshTyped ==
  ASSUME NEW r \in Registries, NEW by \in Handlers \cup {Loop, Nobody}
  PROVE  LoadTyped(r, Fresh(r, by)) /\ Fresh(r, by).by = by
<1>1. IsLoad(Fresh(r, by))  BY FreeIsLoad
<1>2. NoRows("scripts") \in Snapshot("scripts")  BY ScriptsSnapshot DEF NoRows
<1>3. Queries(r) \in Nat /\ Queries(r) # 0  BY RegistriesAre DEF Queries
<1>4. Fresh(r, by).step = 0 /\ Fresh(r, by).by = by /\ Fresh(r, by).rows = NoRows(r)
  BY DEF Fresh
<1> QED BY <1>1, <1>2, <1>3, <1>4 DEF LoadTyped

---------------------------------------------------------------------------
(* Step by step.                                                           *)
LEMMA IdleTyped == ASSUME NEW D PROVE HandlerTyped(D, Idle)
BY RefuseIsTyped DEF HandlerTyped, Idle

(* One handler goes on that is not refreshing.                             *)
LEMMA HandlerStep ==
  ASSUME TypeInv, NEW h \in Handlers, handler[h].pc # "refresh", NEW new, HandlerTyped(db, new),
         handler' = [handler EXCEPT ![h] = new],
         UNCHANGED <<db, registry, load, answered>>, Bounded'
  PROVE  TypeInv'
<1>1. HandlersTyped'  BY DEF TypeInv, HandlersTyped
<1>2. RegistriesTyped'  BY DEF TypeInv, RegistriesTyped
<1>3. LoadsTyped'
  <2> SUFFICES ASSUME NEW r \in Registries, load[r].by \in Handlers
               PROVE  NextRefresh(load[r].by, r)'
    BY DEF TypeInv, LoadsTyped
  <2>1. NextRefresh(load[r].by, r)  BY DEF TypeInv, LoadsTyped
  <2>2. load[r].by # h  BY <2>1 DEF NextRefresh
  <2> QED BY <2>1, <2>2 DEF NextRefresh, TypeInv, HandlersTyped
<1> QED BY <1>1, <1>2, <1>3 DEF TypeInv

LEMMA BeginTyped ==
  ASSUME TypeInv, NEW h \in Handlers, handler[h].pc # "refresh", NEW txn, NEW bind, NEW todo,
         Begin(h, txn, bind, todo), DecidesTyped(db, txn), todo \in Seq(Registries), Bounded'
  PROVE  TypeInv'
<1>1. UNCHANGED <<db, registry, load, answered>>  BY DEF Begin
<1>2. CASE txn.do = "refuse"
  <2>1. handler' = [handler EXCEPT ![h] = Idle]  BY <1>2 DEF Begin
  <2> QED BY <1>1, <2>1, HandlerStep, IdleTyped
<1>3. CASE txn.do # "refuse"
  <2> DEFINE new == [handler[h] EXCEPT !.pc = "commit", !.txn = txn, !.base = db.version,
                            !.ids = {}, !.bind = bind, !.todo = Refreshed(h, todo)]
  <2>1. handler' = [handler EXCEPT ![h] = new]  BY <1>3 DEF Begin
  <2>2. HandlerTyped(db, handler[h]) /\ db.version \in [Counters -> Nat]
    BY DEF TypeInv, HandlersTyped, IsDatabase
  <2>3. /\ DOMAIN new = DOMAIN Idle /\ new.pc = "commit" /\ new.txn = txn
        /\ new.base = db.version /\ new.reached = handler[h].reached /\ new.ids = {}
        /\ new.todo = Refreshed(h, todo)
    BY <2>2 DEF HandlerTyped, Idle
  <2>4. Refreshed(h, todo) \in Seq(Registries)  BY DEF Refreshed
  <2> HIDE DEF new
  <2>5. HandlerTyped(db, new)  BY <1>3, <2>2, <2>3, <2>4 DEF HandlerTyped
  <2> QED BY <1>1, <2>1, <2>5, HandlerStep
<1> QED BY <1>2, <1>3

LEMMA TodoTyped ==
  /\ \A r \in Registries : Watched(r) \in Seq(Registries)
  /\ \A r, q \in Registries : Watched(r) \o Watched(q) \in Seq(Registries)
  /\ <<>> \in Seq(Registries)
<1>1. \A r \in Registries : Watched(r) \in Seq(Registries)  BY DEF Watched
<1> QED BY <1>1

(* The requests that begin with a transaction.                             *)
LEMMA DirectTyped ==
  ASSUME TypeInv, NEW h \in Handlers, NEW op, NEW txn, NEW bind, NEW todo,
         Direct(h, op, txn, bind, todo), DecidesTyped(db, txn), todo \in Seq(Registries)
  PROVE  TypeInv'
<1>1. Begin(h, txn, bind, todo) /\ handler[h].pc # "refresh"  BY DEF Direct
<1>2. Bounded'
  <2>1. /\ changes' = changes + 1 /\ changes < MaxChanges
        /\ UNCHANGED <<up, scenario, errors, restarts>>
    BY DEF Direct, Begin, MayBegin
  <2>2. Bounded /\ MaxChanges \in Nat
    BY ControlPlaneAssumption DEF TypeInv, ControlPlaneAssumption
  <2> QED BY <2>1, <2>2 DEF Bounded
<1> QED BY <1>1, <1>2, BeginTyped

LEMMA RequestTyped ==
  ASSUME TypeInv, NEW h \in Handlers, Request(h)
  PROVE  TypeInv'
<1>0. IsDatabase(db)  BY DEF TypeInv
<1> DEFINE P == Watched("projects")
           C == Watched("scripts")
           K == Watched("sinks")
<1>t. /\ P \in Seq(Registries) /\ C \in Seq(Registries) /\ K \in Seq(Registries)
      /\ C \o P \in Seq(Registries) /\ <<>> \in Seq(Registries)
  BY TodoTyped, RegistriesAre
<1>1. CASE BeginCreateProject(h)
  BY <1>0, <1>t, <1>1, DirectTyped, ProjectsTyped, RequestAssumption DEF BeginCreateProject
<1>2. CASE BeginUpdateProject(h)
  BY <1>0, <1>t, <1>2, DirectTyped, ProjectsTyped, RequestAssumption DEF BeginUpdateProject
<1>3. CASE BeginDeleteProject(h)
  BY <1>0, <1>t, <1>3, DirectTyped, ProjectsTyped DEF BeginDeleteProject
<1>4. CASE BeginUpdateScriptStatus(h)
  <2>1. \A i : \A status \in Statuses : DecidesTyped(db, UpdateScriptStatus(db, i, status))
    BY <1>0, ScriptsTyped
  <2> QED BY <1>t, <1>4, <2>1, DirectTyped DEF BeginUpdateScriptStatus
<1>5. CASE BeginAssign(h)
  BY <1>0, <1>t, <1>5, DirectTyped, BindingsTyped DEF BeginAssign
<1>6. CASE BeginDeleteBinding(h)
  BY <1>0, <1>t, <1>6, DirectTyped, BindingsTyped DEF BeginDeleteBinding
<1>7. CASE BeginCreateTarget(h)
  BY <1>0, <1>t, <1>7, DirectTyped, TargetsTyped, RequestAssumption DEF BeginCreateTarget
<1>8. CASE BeginUpdateTarget(h)
  BY <1>0, <1>t, <1>8, DirectTyped, TargetsTyped, RequestAssumption DEF BeginUpdateTarget
<1>9. CASE BeginDeleteTarget(h)
  BY <1>0, <1>t, <1>9, DirectTyped, TargetsTyped DEF BeginDeleteTarget
<1>10. CASE BeginCreateSink(h)
  BY <1>0, <1>t, <1>10, DirectTyped, SinksTyped, RequestAssumption DEF BeginCreateSink
<1>11. CASE BeginUpdateSink(h)
  BY <1>0, <1>t, <1>11, DirectTyped, SinksTyped, RequestAssumption DEF BeginUpdateSink
<1>12. CASE BeginDeleteSink(h)
  BY <1>0, <1>t, <1>12, DirectTyped, SinksTyped DEF BeginDeleteSink
<1>13. CASE ReadSinkIds(h)
  <2> DEFINE new == [handler[h] EXCEPT !.pc = "script", !.ids = EnabledSinkIds(db)]
  <2>1. /\ handler' = [handler EXCEPT ![h] = new] /\ handler[h].pc # "refresh"
        /\ UNCHANGED <<db, registry, load, answered>>
    BY <1>13 DEF ReadSinkIds
  <2>2. HandlerTyped(db, handler[h])  BY DEF TypeInv, HandlersTyped
  <2>3. /\ DOMAIN new = DOMAIN Idle /\ new.pc = "script" /\ new.txn = handler[h].txn
        /\ new.base = handler[h].base /\ new.reached = handler[h].reached
        /\ new.ids = EnabledSinkIds(db) /\ new.todo = handler[h].todo
    BY <2>2 DEF HandlerTyped, Idle
  <2> HIDE DEF new
  <2>4. HandlerTyped(db, new)  BY <1>0, <2>2, <2>3, SinkIdsTyped DEF HandlerTyped
  <2>5. Bounded'
    <3>1. /\ changes' = changes + 1 /\ changes < MaxChanges
          /\ UNCHANGED <<up, scenario, errors, restarts>>
      BY <1>13 DEF ReadSinkIds, MayBegin
    <3>2. Bounded /\ MaxChanges \in Nat
      BY ControlPlaneAssumption DEF TypeInv, ControlPlaneAssumption
    <3> QED BY <3>1, <3>2 DEF Bounded
  <2> QED BY <2>1, <2>4, <2>5, HandlerStep
<1> QED
  BY <1>1, <1>2, <1>3, <1>4, <1>5, <1>6, <1>7, <1>8, <1>9, <1>10, <1>11, <1>12, <1>13 DEF Request

(* A commit by one handler leaves what the others decided on typed.        *)
LEMMA CommitKeepsTypes ==
  ASSUME TypeInv, NEW h \in Handlers, CommitTransaction(h)
  PROVE  TypeInv'
<1> DEFINE txn == handler[h].txn
           c == CounterOf(txn.table)
           seen == handler[h].base[c]
           new == AfterCommit(h)
<1>1. HandlerTyped(db, handler[h]) /\ IsDatabase(db)  BY DEF TypeInv, HandlersTyped
<1>2. TypedWrite(db, txn) /\ Allowed(db, txn)
  BY <1>1 DEF CommitTransaction, Committable, HandlerTyped, DecidesTyped
<1>3. txn.table \in Tables
  <2>1. \A t, row, i, set : /\ Insert(t, row).table = t /\ Update(t, i, set).table = t
                            /\ Delete(t, i).table = t
    BY DEF Insert, Update, Delete
  <2> HIDE DEF txn
  <2> QED BY <1>2, <2>1 DEF TypedWrite
<1>4. c \in Counters /\ seen \in Nat
  BY <1>1, <1>3, CounterTyped DEF HandlerTyped
<1>5. /\ db' = Commit(db, txn, seen) /\ handler' = [handler EXCEPT ![h] = new]
      /\ UNCHANGED <<registry, load, answered, up, bounds>> /\ handler[h].pc = "commit"
  BY DEF CommitTransaction
<1>6. /\ IsDatabase(db')
      /\ \A t \in Tables : DOMAIN db.rows[t] \subseteq DOMAIN db'.rows[t]
  BY <1>1, <1>2, <1>4, <1>5, CommitsTyped
<1>7. ASSUME NEW w, DecidesTyped(db, w) PROVE DecidesTyped(db', w)
  BY <1>6, <1>7 DEF DecidesTyped, TypedWrite
<1>8. \A x : HandlerTyped(db, x) => HandlerTyped(db', x)
  BY <1>7 DEF HandlerTyped
<1>9. HandlerTyped(db', new) /\ new.pc # "commit"
  <2> DEFINE reached == [handler[h].reached EXCEPT ![c] = handler[h].base[c] + 1]
  <2>1. reached \in [Counters -> Nat]
    <3> HIDE DEF c
    <3> QED BY <1>1, <1>4 DEF HandlerTyped
  <2>2. \/ new = Idle
        \/ new = [handler[h] EXCEPT !.pc = "assign", !.txn = Refuse("none"), !.reached = reached,
                               !.bind = FALSE, !.project = Len(db.rows["projects"]) + 1]
        \/ /\ handler[h].todo # <<>>
           /\ new = [handler[h] EXCEPT !.pc = "refresh", !.txn = Refuse("none"),
                                       !.reached = reached]
    BY Zenon DEF AfterCommit
  <2> HIDE DEF new, reached, c
  <2>3. CASE new = Idle  BY <2>3, IdleTyped DEF Idle
  <2>4. CASE new # Idle
    <3>1. /\ DOMAIN new = DOMAIN Idle /\ new.base = handler[h].base /\ new.reached = reached
          /\ new.pc \in {"assign", "refresh"} /\ new.txn = Refuse("none")
          /\ new.ids = handler[h].ids /\ new.todo = handler[h].todo
          /\ new.pc = "refresh" => new.todo # <<>>
      BY <1>1, <2>2, <2>4 DEF HandlerTyped, Idle
    <3> QED BY <1>1, <2>1, <3>1, RefuseIsTyped DEF HandlerTyped
  <2> QED BY <2>3, <2>4
<1> HIDE DEF new
<1>10. HandlersTyped'  BY <1>5, <1>8, <1>9 DEF TypeInv, HandlersTyped
<1>11. RegistriesTyped' /\ Bounded'  BY <1>5 DEF TypeInv, RegistriesTyped, Bounded, bounds
<1>12. LoadsTyped'
  <2> SUFFICES ASSUME NEW r \in Registries, load[r].by \in Handlers
               PROVE  NextRefresh(load[r].by, r)'
    BY <1>5 DEF TypeInv, LoadsTyped
  <2>1. NextRefresh(load[r].by, r)  BY DEF TypeInv, LoadsTyped
  <2>2. load[r].by # h  BY <1>5, <2>1 DEF NextRefresh
  <2> QED BY <1>5, <2>1, <2>2 DEF NextRefresh, TypeInv, HandlersTyped
<1> QED BY <1>5, <1>6, <1>10, <1>11, <1>12 DEF TypeInv

LEMMA ProceedTyped ==
  ASSUME TypeInv, NEW h \in Handlers, Proceed(h) \/ TransactionFails(h)
  PROVE  TypeInv'
<1>0. IsDatabase(db) /\ HandlerTyped(db, handler[h]) /\ Bounded
  BY DEF TypeInv, HandlersTyped
<1>t. Watched("scripts") \in Seq(Registries)  BY TodoTyped, RegistriesAre
<1>1. CASE BeginCreateScript(h)
  <2>1. \A row \in NewScripts : DecidesTyped(db, CreateScript(db, row, handler[h].ids))
    BY <1>0, ScriptsTyped, RequestAssumption DEF HandlerTyped
  <2>2. handler[h].pc # "refresh" /\ Bounded'
    BY <1>0, <1>1 DEF BeginCreateScript, Begin, Bounded
  <2> QED BY <1>t, <1>1, <2>1, <2>2, BeginTyped DEF BeginCreateScript
<1>2. CASE BeginUpdateScript(h)
  <2>1. \A i : \A set \in ScriptChanges : DecidesTyped(db, UpdateScript(db, i, set, handler[h].ids))
    BY <1>0, ScriptsTyped, RequestAssumption DEF HandlerTyped
  <2>2. handler[h].pc # "refresh" /\ Bounded'
    BY <1>0, <1>2 DEF BeginUpdateScript, Begin, Bounded
  <2> QED BY <1>t, <1>2, <2>1, <2>2, BeginTyped DEF BeginUpdateScript
<1>3. CASE BeginAssignDefault(h)
  <2>1. handler[h].pc # "refresh" /\ Bounded' /\ handler[h].todo \in Seq(Registries)
    BY <1>0, <1>3 DEF BeginAssignDefault, Begin, Bounded, HandlerTyped
  <2> QED BY <1>0, <1>3, <2>1, BeginTyped, BindingsTyped DEF BeginAssignDefault
<1>4. CASE CommitTransaction(h)  BY <1>4, CommitKeepsTypes
<1>5. CASE RefuseTransaction(h)
  <2>1. Bounded'  BY <1>0, <1>5 DEF RefuseTransaction, Bounded, bounds
  <2> QED BY <1>5, <2>1, HandlerStep, IdleTyped DEF RefuseTransaction
<1>6. CASE TransactionFails(h)
  <2>1. Bounded'
    BY <1>0, <1>6, ControlPlaneAssumption DEF TransactionFails, Bounded, ControlPlaneAssumption
  <2> QED BY <1>6, <2>1, HandlerStep, IdleTyped DEF TransactionFails
<1> QED BY <1>1, <1>2, <1>3, <1>4, <1>5, <1>6 DEF Proceed

(* Going on to the next registry, or answering.                            *)
LEMMA OnwardTyped ==
  ASSUME TypeInv, NEW r \in Registries, NEW by \in Handlers \cup {Loop}, Onward(by),
         by # Loop => NextRefresh(by, r), UNCHANGED db
  PROVE  /\ HandlersTyped'
         /\ \A h \in Handlers \ {by} : handler'[h] = handler[h]
<1>0. HandlersTyped  BY DEF TypeInv
<1>1. CASE by = Loop
  <2>1. handler' = handler  BY <1>1 DEF Onward
  <2> QED BY <1>0, <2>1 DEF HandlersTyped
<1>2. CASE by # Loop
  <2> DEFINE next == [handler[by] EXCEPT !.todo = Tail(@)]
             new == IF Len(handler[by].todo) = 1 THEN Idle ELSE next
  <2>1. by \in Handlers /\ HandlerTyped(db, handler[by])  BY <1>0, <1>2 DEF HandlersTyped
  <2>2. handler' = [handler EXCEPT ![by] = new]  BY <1>2 DEF Onward
  <2>3. handler[by].pc = "refresh" /\ handler[by].todo \in Seq(Registries)
        /\ handler[by].todo # <<>>
    BY <1>2, <2>1 DEF NextRefresh, HandlerTyped
  <2>4. /\ DOMAIN next = DOMAIN Idle /\ next.pc = handler[by].pc /\ next.txn = handler[by].txn
        /\ next.base = handler[by].base /\ next.reached = handler[by].reached
        /\ next.ids = handler[by].ids /\ next.todo = Tail(handler[by].todo)
    BY <2>1 DEF HandlerTyped, Idle
  <2>5. /\ Tail(handler[by].todo) \in Seq(Registries)
        /\ Len(handler[by].todo) # 1 => Tail(handler[by].todo) # <<>>
    <3> DEFINE s == handler[by].todo
    <3>1. s \in Seq(Registries) /\ s # <<>>  BY <2>3
    <3> HIDE DEF s
    <3>2. Tail(s) \in Seq(Registries) /\ Len(Tail(s)) = Len(s) - 1 /\ Len(s) \in Nat  BY <3>1
    <3>3. Len(<<>>) = 0  OBVIOUS
    <3>4. Len(s) # 0  BY <3>1
    <3>5. Len(s) # 1 => Tail(s) # <<>>  BY <3>2, <3>3, <3>4
    <3> QED BY <3>2, <3>5 DEF s
  <2>6. Len(handler[by].todo) # 1 => HandlerTyped(db, next)
    <3> HIDE DEF next
    <3> QED BY <2>1, <2>3, <2>4, <2>5 DEF HandlerTyped
  <2>7. HandlerTyped(db, new)
    <3> HIDE DEF next
    <3> QED BY <2>6, IdleTyped
  <2> HIDE DEF new
  <2> QED BY <1>0, <2>1, <2>2, <2>7 DEF HandlersTyped
<1> QED BY <1>1, <1>2

LEMMA AnswersTyped ==
  ASSUME TypeInv, NEW r \in Registries, NEW by \in Handlers \cup {Loop}, Answers(by, r)
  PROVE  answered' \in [Registries -> Nat]
<1>1. answered \in [Registries -> Nat]  BY DEF TypeInv
<1>2. CASE by = Loop  BY <1>1, <1>2 DEF Answers
<1>3. CASE by # Loop
  <2>1. handler[by].reached[r] \in Nat
    BY <1>3, RegistriesAre DEF TypeInv, HandlersTyped, HandlerTyped
  <2> QED BY <1>1, <2>1 DEF Answers
<1> QED BY <1>2, <1>3

(* A step of one load that leaves the handlers alone.                      *)
LEMMA LoadStep ==
  ASSUME TypeInv, NEW r \in Registries, NEW new, LoadTyped(r, new),
         load' = [load EXCEPT ![r] = new], new.by \in Handlers => NextRefresh(new.by, r),
         UNCHANGED <<db, handler, registry, answered, up, bounds>>
  PROVE  TypeInv'
<1>1. HandlersTyped' /\ RegistriesTyped' /\ Bounded'
  BY DEF TypeInv, HandlersTyped, RegistriesTyped, Bounded, bounds
<1>2. LoadsTyped'  BY DEF TypeInv, LoadsTyped, NextRefresh
<1> QED BY <1>1, <1>2 DEF TypeInv

(* A refresh that ends, with something installed or without.               *)
LEMMA RefreshEndsTyped ==
  ASSUME TypeInv, NEW r \in Registries, NEW by \in Handlers \cup {Loop}, Onward(by),
         by # Loop => NextRefresh(by, r), UNCHANGED db,
         (load' = [load EXCEPT ![r] = Free(r)]) \/ (load' = load /\ load[r].by = Nobody),
         RegistriesTyped', answered' \in [Registries -> Nat], Bounded'
  PROVE  TypeInv'
<1>1. HandlersTyped' /\ \A h \in Handlers \ {by} : handler'[h] = handler[h]
  BY OnwardTyped
<1>2. LoadTyped(r, Free(r)) /\ Free(r).by = Nobody  BY FreshTyped DEF Free
<1>3. /\ DOMAIN load' = Registries /\ LoadTyped(r, load'[r]) /\ load'[r].by = Nobody
      /\ \A q \in Registries \ {r} : load'[q] = load[q]
  BY <1>2 DEF TypeInv, LoadsTyped
<1>4. ASSUME NEW q \in Registries, load'[q].by \in Handlers
      PROVE  NextRefresh(load[q].by, q)'
  <2>1. q # r  BY <1>3, <1>4, ControlPlaneAssumption DEF ControlPlaneAssumption
  <2>2. load'[q] = load[q] /\ NextRefresh(load[q].by, q)
    BY <1>3, <1>4, <2>1 DEF TypeInv, LoadsTyped
  <2>3. load[q].by # by
    BY <1>4, <2>1, <2>2, ControlPlaneAssumption DEF NextRefresh, ControlPlaneAssumption
  <2> QED BY <1>1, <1>4, <2>2, <2>3 DEF NextRefresh
<1>5. LoadsTyped'
  <2>1. \A q \in Registries : LoadTyped(q, load'[q])  BY <1>3 DEF TypeInv, LoadsTyped
  <2> QED BY <1>3, <1>4, <2>1 DEF LoadsTyped
<1>6. IsDatabase(db)'  BY DEF TypeInv
<1> QED BY <1>1, <1>5, <1>6 DEF TypeInv

LEMMA RefreshTyped ==
  ASSUME TypeInv, NEW r \in Registries, Refresh(r) \/ ReadFails(r)
  PROVE  TypeInv'
<1>0. /\ LoadTyped(r, load[r]) /\ IsLoad(load[r]) /\ IsDatabase(db) /\ Bounded
      /\ load[r].by \in Handlers => NextRefresh(load[r].by, r)
      /\ db.version[r] \in Nat /\ Queries(r) \in Nat /\ RegistriesTyped
      /\ answered \in [Registries -> Nat]
  BY RegistriesAre DEF TypeInv, LoadsTyped, LoadTyped, IsDatabase, Queries
<1>l. Loop \notin Handlers /\ Nobody \notin Handlers /\ Nobody # Loop
  BY ControlPlaneAssumption DEF ControlPlaneAssumption
<1> DEFINE by == load[r].by
<1>b. by # Nobody => by \in Handlers \cup {Loop} /\ (by # Loop => NextRefresh(by, r))
  BY <1>0 DEF IsLoad
<1>s. load[r].step # 0 => by # Nobody  BY <1>0 DEF IsLoad
<1>1. ASSUME NEW k \in Handlers \cup {Loop}, StartRefresh(r, k)
      PROVE  TypeInv'
  <2>1. /\ load[r].by = Nobody
        /\ k # Loop => NextRefresh(k, r)
        /\ UNCHANGED <<db, registry, up, bounds>>
    BY <1>1 DEF StartRefresh, Wants
  <2>2. RegistriesTyped' /\ Bounded'
    BY <1>0, <2>1 DEF RegistriesTyped, Bounded, bounds
  <2>3. CASE UpToDate(r)
    <3>1. Onward(k) /\ Answers(k, r) /\ load' = load  BY <1>1, <2>3 DEF StartRefresh
    <3>2. answered' \in [Registries -> Nat]  BY <3>1, AnswersTyped
    <3> QED BY <1>1, <2>1, <2>2, <3>1, <3>2, RefreshEndsTyped
  <2>4. CASE ~UpToDate(r)
    <3>1. /\ load' = [load EXCEPT ![r] = Fresh(r, k)]
          /\ UNCHANGED <<db, handler, registry, answered, up, bounds>>
      BY <1>1, <2>4 DEF StartRefresh
    <3>2. LoadTyped(r, Fresh(r, k)) /\ Fresh(r, k).by = k  BY FreshTyped
    <3>3. k \in Handlers => NextRefresh(k, r)  BY <1>l, <2>1
    <3> QED BY <3>1, <3>2, <3>3, LoadStep
  <2> QED BY <2>3, <2>4
<1>2. CASE ReadBefore(r)
  <2> DEFINE new == [load[r] EXCEPT !.before = db.version[r], !.step = 1]
  <2>1. load' = [load EXCEPT ![r] = new] /\ load[r].by # Nobody /\ load[r].step = 0
        /\ UNCHANGED <<db, handler, registry, answered, up, bounds>>
    BY <1>2 DEF ReadBefore
  <2>2. /\ DOMAIN new = DOMAIN load[r] /\ new.by = by /\ new.before = db.version[r]
        /\ new.step = 1 /\ new.rows = load[r].rows
    BY <1>0 DEF IsLoad
  <2>3. Queries(r) # 0  BY RegistriesAre DEF Queries
  <2> HIDE DEF new
  <2>4. IsLoad(new)  BY <1>0, <2>1, <2>2 DEF IsLoad
  <2>5. LoadTyped(r, new)  BY <1>0, <2>2, <2>3, <2>4 DEF LoadTyped
  <2> QED BY <1>0, <2>1, <2>2, <2>5, LoadStep
<1>3. CASE ReadRows(r)
  <2> DEFINE new == [load[r] EXCEPT !.rows = Read(r, load[r].step, @, db), !.step = @ + 1]
  <2>1. load' = [load EXCEPT ![r] = new] /\ load[r].step \in 1 .. Queries(r)
        /\ UNCHANGED <<db, handler, registry, answered, up, bounds>>
    BY <1>3 DEF ReadRows
  <2>2. /\ DOMAIN new = DOMAIN load[r] /\ new.by = by /\ new.before = load[r].before
        /\ new.step = load[r].step + 1 /\ new.rows = Read(r, load[r].step, load[r].rows, db)
    BY <1>0 DEF IsLoad
  <2> HIDE DEF new
  <2>3. LoadTyped(r, new)  BY <1>0, <2>1, <2>2, NextReadTyped
  <2> QED BY <1>0, <2>1, <2>2, <2>3, LoadStep
<1>4. CASE ReadAgain(r)
  <2>1. load' = [load EXCEPT ![r] = Fresh(r, by)] /\ load[r].step = Queries(r) + 1
        /\ UNCHANGED <<db, handler, registry, answered, up, bounds>>
    BY <1>4 DEF ReadAgain
  <2>2. LoadTyped(r, Fresh(r, by)) /\ Fresh(r, by).by = by  BY <1>0, FreshTyped DEF IsLoad
  <2> QED BY <1>0, <2>1, <2>2, LoadStep
<1>5. CASE Install(r)
  <2>1. /\ load[r].step = Queries(r) + 1 /\ Onward(by) /\ Answers(by, r)
        /\ load' = [load EXCEPT ![r] = Free(r)] /\ UNCHANGED <<db, up, bounds>>
        /\ registry' = [registry EXCEPT ![r] =
             IF Newer(r) THEN [version |-> db.version[r], rows |-> load[r].rows] ELSE @]
    BY <1>5 DEF Install
  <2>2. by # Nobody  BY <1>0, <1>s, <2>1
  <2>3. load[r].rows \in Snapshot(r)  BY <1>0, <2>1 DEF LoadTyped
  <2>4. RegistriesTyped'  BY <1>0, <2>1, <2>3 DEF RegistriesTyped
  <2>5. answered' \in [Registries -> Nat]  BY <1>b, <2>1, <2>2, AnswersTyped
  <2>6. Bounded'  BY <1>0, <2>1 DEF Bounded, bounds
  <2> QED BY <1>b, <2>1, <2>2, <2>4, <2>5, <2>6, RefreshEndsTyped
<1>6. CASE BuildFails(r)
  <2>1. /\ load[r].step = Queries(r) + 1 /\ Onward(by) /\ load' = [load EXCEPT ![r] = Free(r)]
        /\ UNCHANGED <<db, registry, answered, up, bounds>>
    BY <1>6 DEF BuildFails
  <2>2. by # Nobody  BY <1>0, <1>s, <2>1
  <2>3. RegistriesTyped' /\ Bounded'  BY <1>0, <2>1 DEF RegistriesTyped, Bounded, bounds
  <2> QED BY <1>0, <1>b, <2>1, <2>2, <2>3, RefreshEndsTyped
<1>7. CASE ReadFails(r)
  <2>1. /\ by # Nobody /\ Onward(by) /\ load' = [load EXCEPT ![r] = Free(r)]
        /\ UNCHANGED <<db, registry, answered, up, scenario, changes, restarts>>
        /\ errors < MaxErrors /\ errors' = errors + 1
    BY <1>7 DEF ReadFails
  <2>2. RegistriesTyped'  BY <1>0, <2>1 DEF RegistriesTyped
  <2>3. Bounded'
    BY <1>0, <2>1, ControlPlaneAssumption DEF Bounded, ControlPlaneAssumption
  <2> QED BY <1>0, <1>b, <2>1, <2>2, <2>3, RefreshEndsTyped
<1> QED BY <1>1, <1>2, <1>3, <1>4, <1>5, <1>6, <1>7 DEF Refresh

LEMMA StopTyped == ASSUME TypeInv, Stop PROVE TypeInv'
<1>1. HandlersTyped'  BY IdleTyped DEF Stop, TypeInv, HandlersTyped
<1>2. RegistriesTyped' /\ IsDatabase(db)'  BY DEF Stop, TypeInv, RegistriesTyped
<1>3. LoadsTyped'
  <2>1. \A r \in Registries : LoadTyped(r, Free(r)) /\ Free(r).by = Nobody
    BY FreshTyped DEF Free
  <2>2. Nobody \notin Handlers  BY ControlPlaneAssumption DEF ControlPlaneAssumption
  <2> QED BY <2>1, <2>2 DEF Stop, LoadsTyped
<1>4. Bounded'
  <2>1. restarts' \in 0 .. MaxRestarts
    BY ControlPlaneAssumption DEF Stop, TypeInv, Bounded, ControlPlaneAssumption
  <2>2. up' \in BOOLEAN  BY Zenon DEF Stop
  <2> QED BY <2>1, <2>2, Zenon DEF Stop, TypeInv, Bounded
<1> QED BY <1>1, <1>2, <1>3, <1>4 DEF Stop, TypeInv

LEMMA StartTyped == ASSUME TypeInv, Start PROVE TypeInv'
<1>1. RegistriesTyped'
  <2>1. \A r \in Registries : View(r, db) \in Snapshot(r) /\ db.version[r] \in Nat
    BY ViewTyped, RegistriesAre DEF TypeInv, IsDatabase
  <2> QED BY <2>1 DEF Start, TypeInv, RegistriesTyped
<1>2. HandlersTyped' /\ LoadsTyped' /\ Bounded' /\ IsDatabase(db)'
  BY DEF Start, TypeInv, HandlersTyped, LoadsTyped, NextRefresh, Bounded, bounds
<1> QED BY <1>1, <1>2 DEF Start, TypeInv

LEMMA StepTyped == ASSUME TypeInv, [Next]_vars PROVE TypeInv'
<1>1. CASE UNCHANGED vars
  BY <1>1 DEF vars, bounds, TypeInv, HandlersTyped, RegistriesTyped, LoadsTyped, NextRefresh,
              Bounded
<1> QED BY <1>1, RequestTyped, ProceedTyped, RefreshTyped, StopTyped, StartTyped DEF Next

LEMMA InitTyped == ASSUME Init PROVE TypeInv
<1>1. db = InitialDatabase /\ IsDatabase(db)
  BY ControlPlaneAssumption DEF Init, ControlPlaneAssumption
<1>2. HandlersTyped  BY IdleTyped DEF Init, HandlersTyped
<1>3. RegistriesTyped  BY <1>1, ViewTyped DEF Init, RegistriesTyped
<1>4. LoadsTyped
  <2>1. \A r \in Registries : LoadTyped(r, Free(r)) /\ Free(r).by = Nobody
    BY FreshTyped DEF Free
  <2>2. Nobody \notin Handlers  BY ControlPlaneAssumption DEF ControlPlaneAssumption
  <2> QED BY <2>1, <2>2 DEF Init, LoadsTyped
<1>5. Bounded  BY ControlPlaneAssumption DEF Init, Bounded, ControlPlaneAssumption
<1> QED BY <1>1, <1>2, <1>3, <1>4, <1>5 DEF Init, TypeInv

(* Tables, handlers, snapshots and what a refresh has read so far are well *)
(* typed, under either isolation (admin/, repositories/, services/).       *)
THEOREM TypeCorrect == Spec => []TypeOK
<1>1. Init => TypeInv  BY InitTyped
<1>2. TypeInv /\ [Next]_vars => TypeInv'  BY StepTyped
<1>3. TypeInv => TypeOK  BY TypeInvImplies
<1> QED BY <1>1, <1>2, <1>3, PTL DEF Spec
=============================================================================
