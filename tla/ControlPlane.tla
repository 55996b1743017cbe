--------------------------- MODULE ControlPlane ---------------------------
(***************************************************************************)
(* Administrators change the configuration database while a node follows   *)
(* it: the handlers of src/src/admin/, the transactions of repositories/,  *)
(* and the three registries (services/project.rs, ingest/processor.rs,     *)
(* sinks/state.rs) that hold a snapshot each and refresh it, both in a     *)
(* loop and at the end of a handler, under one lock per registry.          *)
(*                                                                         *)
(* A registry is named after the counter it watches: projects, scripts     *)
(* (the processors) or sinks.  Handlers in Remote run on another node of   *)
(* the same database; what they refresh is not this node's.                *)
(***************************************************************************)
EXTENDS Repositories, IngestAuth

CONSTANTS Handlers,        \* admin requests that may be in progress together
          Remote,          \* those that another node serves
          Isolation,       \* "serializable" (SQLite) or "repeatable_read" (MySQL)
          Scenarios,       \* what a behaviour exercises: [watch, ops]
          InitialRows,     \* the rows every table starts with
          NewProjects, ProjectChanges,  \* request bodies
          NewScripts, ScriptChanges,
          NewTargets, TargetChanges,
          NewSinks, SinkChanges,
          Requests,        \* ingest requests to put to the project registry
          Nobody,          \* holds no lock
          Loop,            \* the refresh loop, as the holder of a lock
          MaxChanges,      \* bound on the operations administrators begin
          MaxErrors,       \* bound on database failures
          MaxRestarts      \* bound on restarts of the node

Registries == Counters
Operations == {"create_project", "update_project", "delete_project",
               "create_script", "update_script", "update_script_status",
               "assign_processor", "delete_binding",
               "create_target", "update_target", "delete_target",
               "create_sink", "update_sink", "delete_sink"}

InitialDatabase == [rows |-> InitialRows, version |-> [c \in Counters |-> 0]]

ASSUME ControlPlaneAssumption ==
  /\ Remote \subseteq Handlers /\ {Nobody, Loop} \cap Handlers = {} /\ Nobody # Loop
  /\ Isolation \in {"serializable", "repeatable_read"}
  /\ \A s \in Scenarios : s.watch \subseteq Registries /\ s.ops \subseteq Operations
  /\ IsDatabase(InitialDatabase)
  /\ {MaxChanges, MaxErrors, MaxRestarts} \subseteq Nat

(* Request bodies have the columns and types that their structs declare.   *)
ASSUME RequestAssumption ==
  /\ \A row \in NewProjects : Creates(row, ProjectBody)
  /\ \A set \in ProjectChanges : Changes(set, ProjectBody, {})
  /\ \A row \in NewScripts : Creates(row, ScriptBody)
  /\ \A set \in ScriptChanges : Sets(set, {"source", "status"}, ScriptBody)
  /\ \A row \in NewTargets : Creates(row, TargetBody)
  /\ \A set \in TargetChanges : Changes(set, TargetBody, {"id", "type"})
  /\ \A row \in NewSinks : Creates(row, SinkBody)
  /\ \A set \in SinkChanges : Changes(set, SinkBody, {"id"})

VARIABLES
  db,        \* the committed database
  handler,   \* the admin requests in progress
  registry,  \* the snapshot each registry serves, and its version
  load,      \* the refresh in progress in each registry
  answered,  \* the newest version a handler has answered for after its refresh
  up,        \* the node runs
  scenario,  \* what this behaviour exercises; chosen once
  changes, errors, restarts

bounds == <<scenario, changes, errors, restarts>>
vars == <<db, handler, registry, load, answered, up, bounds>>

---------------------------------------------------------------------------
(* A snapshot is read query by query; Read is query number n of registry   *)
(* r, given what the queries before it returned.                           *)
Queries(r) == CASE r = "projects" -> 1 [] r = "sinks" -> 2 [] r = "scripts" -> 3

ProjectSnapshot(D) == {<<i, Row(D, "projects", i)>> : i \in EnabledProjects(D)}

EnabledTarget(D, i) == i \in Live(D, "targets") /\ Row(D, "targets", i).enabled
RuntimeSinks(D, sinks) ==
  {[id |-> s.id, type |-> Row(D, "targets", s.target).type,
    config |-> Row(D, "targets", s.target).config, dest |-> s.dest] :
     s \in {s \in sinks : EnabledTarget(D, s.target)}}

SourceOf(D, i) == IF i = 0 THEN {} ELSE Row(D, "scripts", i).source

(* The loops that look up the target of each sink, and the project and the *)
(* script of each binding, are one query each: every change of a target    *)
(* moves the counter of the sinks, and of the scripts theirs, so that the  *)
(* version read last gives away a change in between.  Only what a loop     *)
(* sees of a project may be newer than the rest, and no counter tells.     *)
Read(r, n, rows, D) ==
  CASE r = "projects" -> ProjectSnapshot(D)
    [] r = "sinks" /\ n = 1 -> EnabledSinks(D)
    [] r = "sinks" /\ n = 2 -> RuntimeSinks(D, rows)
    [] r = "scripts" /\ n = 1 -> [rows EXCEPT !.ids = EnabledSinkIds(D)]
    [] r = "scripts" /\ n = 2 -> [rows EXCEPT !.default = SourceOf(D, DefaultScript(D))]
    [] r = "scripts" /\ n = 3 -> [rows EXCEPT !.projects = RuntimeProcessors(D)]

(* What a registry would serve if all its queries saw D.                   *)
View(r, D) ==
  CASE r = "projects" -> ProjectSnapshot(D)
    [] r = "sinks" -> RuntimeSinks(D, EnabledSinks(D))
    [] r = "scripts" -> [ids |-> EnabledSinkIds(D), default |-> SourceOf(D, DefaultScript(D)),
                         projects |-> RuntimeProcessors(D)]

(* Every client of the router is built anew; one that cannot be fails all. *)
Buildable(r, rows) ==
  r = "sinks" => \A s \in rows : <<s.type, s.config, s.dest>> \in Builds

NoRows(r) == IF r = "scripts" THEN [ids |-> {}, default |-> {}, projects |-> {}] ELSE {}
Fresh(r, by) == [by |-> by, before |-> 0, step |-> 0, rows |-> NoRows(r)]
Free(r) == Fresh(r, Nobody)
Idle == [pc |-> "idle", txn |-> Refuse("none"), base |-> [c \in Counters |-> 0],
         ids |-> {}, bind |-> FALSE, project |-> 0, todo |-> <<>>,
         reached |-> [c \in Counters |-> 0]]

Init ==
  /\ db = InitialDatabase
  /\ handler = [h \in Handlers |-> Idle]
  /\ registry = [r \in Registries |-> [version |-> 0, rows |-> View(r, InitialDatabase)]]
  /\ load = [r \in Registries |-> Free(r)]
  /\ answered = [r \in Registries |-> 0]
  /\ up = TRUE
  /\ scenario \in Scenarios
  /\ changes = 0 /\ errors = 0 /\ restarts = 0

---------------------------------------------------------------------------
(* A handler begins: the transaction reads its snapshot and decides.  A    *)
(* refusal is answered at once; otherwise the handler commits, then        *)
(* refreshes the registries of todo in turn.                               *)
MayBegin(h, op) ==
  /\ h \in Remote \/ up
  /\ op \in scenario.ops
  /\ changes < MaxChanges

(* What is left to refresh once an operation has committed: registries the *)
(* scenario follows, on this node.                                         *)
Watched(r) == IF r \in scenario.watch THEN <<r>> ELSE <<>>
Refreshed(h, todo) == IF h \in Remote THEN <<>> ELSE todo

Begin(h, txn, bind, todo) ==
  /\ handler' = [handler EXCEPT ![h] =
       IF txn.do = "refuse" THEN Idle
       ELSE [@ EXCEPT !.pc = "commit", !.txn = txn, !.base = db.version, !.ids = {},
                      !.bind = bind, !.todo = Refreshed(h, todo)]]
  /\ UNCHANGED <<db, registry, load, answered, up, scenario, errors, restarts>>

(* The handlers whose transaction is their first step.                     *)
Direct(h, op, txn, bind, todo) ==
  /\ handler[h].pc = "idle"
  /\ MayBegin(h, op)
  /\ txn.do # "refuse"
  /\ changes' = changes + 1
  /\ Begin(h, txn, bind, todo)

(* Of a request with a blank token the handler makes one with a new token, *)
(* or one that leaves the token as it is: the repository's refusal of      *)
(* blank ones meets only callers other than these.                         *)
BeginCreateProject(h) ==
  \E row \in NewProjects :
    Direct(h, "create_project", CreateProject(db, row), TRUE,
           Watched("scripts") \o Watched("projects"))
BeginUpdateProject(h) ==
  \E i \in Live(db, "projects"), set \in ProjectChanges :
    Direct(h, "update_project", UpdateProject(db, i, set), FALSE, Watched("projects"))
BeginDeleteProject(h) ==
  \E i \in Live(db, "projects") :
    Direct(h, "delete_project", DeleteProject(db, i), FALSE, Watched("projects"))

BeginUpdateScriptStatus(h) ==
  \E i \in Live(db, "scripts"), status \in Statuses :
    Direct(h, "update_script_status", UpdateScriptStatus(db, i, status), FALSE, Watched("scripts"))
BeginAssign(h) ==
  \E p \in Live(db, "projects"), i \in Live(db, "scripts"), enabled \in BOOLEAN :
    Direct(h, "assign_processor", AssignProcessor(db, p, i, enabled), FALSE, Watched("scripts"))
BeginDeleteBinding(h) ==
  \E p \in Live(db, "projects") :
    Direct(h, "delete_binding", DeleteBinding(db, p), FALSE, Watched("scripts"))

BeginCreateTarget(h) ==
  \E row \in NewTargets : Direct(h, "create_target", CreateTarget(db, row), FALSE, <<>>)
BeginUpdateTarget(h) ==
  \E i \in Live(db, "targets"), set \in TargetChanges :
    Direct(h, "update_target", UpdateTarget(db, i, set), FALSE, Watched("sinks"))
BeginDeleteTarget(h) ==
  \E i \in Live(db, "targets") :
    Direct(h, "delete_target", DeleteTarget(db, i), FALSE, Watched("sinks"))
BeginCreateSink(h) ==
  \E row \in NewSinks : Direct(h, "create_sink", CreateSink(db, row), FALSE, Watched("sinks"))
BeginUpdateSink(h) ==
  \E i \in Live(db, "sinks"), set \in SinkChanges :
    Direct(h, "update_sink", UpdateSink(db, i, set), FALSE, Watched("sinks"))
BeginDeleteSink(h) ==
  \E i \in Live(db, "sinks") :
    Direct(h, "delete_sink", DeleteSink(db, i), FALSE, Watched("sinks"))

(* create_script and update_script read the enabled sinks before their     *)
(* transaction begins.                                                     *)
ReadSinkIds(h) ==
  /\ handler[h].pc = "idle"
  /\ \E op \in {"create_script", "update_script"} : MayBegin(h, op)
  /\ changes' = changes + 1
  /\ handler' = [handler EXCEPT ![h].pc = "script", ![h].ids = EnabledSinkIds(db)]
  /\ UNCHANGED <<db, registry, load, answered, up, scenario, errors, restarts>>

BeginCreateScript(h) ==
  /\ handler[h].pc = "script" /\ "create_script" \in scenario.ops
  /\ \E row \in NewScripts :
       Begin(h, CreateScript(db, row, handler[h].ids), FALSE, Watched("scripts"))
  /\ UNCHANGED changes
BeginUpdateScript(h) ==
  /\ handler[h].pc = "script" /\ "update_script" \in scenario.ops
  /\ \E i \in Live(db, "scripts"), set \in ScriptChanges :
       Begin(h, UpdateScript(db, i, set, handler[h].ids), FALSE, Watched("scripts"))
  /\ UNCHANGED changes

(* create_project goes on with a second transaction, which binds the       *)
(* default script to the new project.                                      *)
BeginAssignDefault(h) ==
  /\ handler[h].pc = "assign"
  /\ Begin(h, AssignDefaultProcessor(db, DefaultScript(db), handler[h].project), FALSE,
           handler[h].todo)
  /\ UNCHANGED changes

---------------------------------------------------------------------------
(* The transaction ends.  SQLite refuses one that read before another      *)
(* committed; either database refuses one its constraints forbid.          *)
Committable(h) ==
  /\ Allowed(db, handler[h].txn)
  /\ Isolation = "serializable" => handler[h].base = db.version

AfterCommit(h) ==
  LET txn == handler[h].txn
      c == CounterOf(txn.table)
      reached == [handler[h].reached EXCEPT ![c] = handler[h].base[c] + 1]
  IN CASE handler[h].bind ->
            [handler[h] EXCEPT !.pc = "assign", !.txn = Refuse("none"), !.reached = reached,
                               !.bind = FALSE, !.project = Len(db.rows["projects"]) + 1]
       [] ~handler[h].bind /\ handler[h].todo = <<>> -> Idle
       [] OTHER -> [handler[h] EXCEPT !.pc = "refresh", !.txn = Refuse("none"),
                                      !.reached = reached]

CommitTransaction(h) ==
  /\ handler[h].pc = "commit"
  /\ Committable(h)
  /\ LET txn == handler[h].txn
     IN db' = Commit(db, txn, handler[h].base[CounterOf(txn.table)])
  /\ handler' = [handler EXCEPT ![h] = AfterCommit(h)]
  /\ UNCHANGED <<registry, load, answered, up, bounds>>

(* An error is answered 4xx or 5xx, and nothing is refreshed, not even     *)
(* what a first transaction changed.                                       *)
RefuseTransaction(h) ==
  /\ handler[h].pc = "commit"
  /\ ~Committable(h)
  /\ handler' = [handler EXCEPT ![h] = Idle]
  /\ UNCHANGED <<db, registry, load, answered, up, bounds>>

TransactionFails(h) ==
  /\ handler[h].pc = "commit"
  /\ errors < MaxErrors
  /\ errors' = errors + 1
  /\ handler' = [handler EXCEPT ![h] = Idle]
  /\ UNCHANGED <<db, registry, load, answered, up, scenario, changes, restarts>>

---------------------------------------------------------------------------
(* refresh_if_needed, by the loop or by a handler that waits for the lock. *)
NextRefresh(h, r) == handler[h].pc = "refresh" /\ handler[h].todo[1] = r
WantsWrong(by, r) == by # Loop /\ NextRefresh(by, r)
Wants(by, r) == by # Loop => NextRefresh(by, r)

(* The handler goes on to its next registry, or answers.                   *)
OnwardWrong(by) ==
  handler' = IF by = Loop THEN handler
             ELSE [handler EXCEPT ![by].todo = Tail(@)]
Onward(by) ==
  handler' = IF by = Loop THEN handler
             ELSE IF Len(handler[by].todo) = 1 THEN [handler EXCEPT ![by] = Idle]
             ELSE [handler EXCEPT ![by].todo = Tail(@)]

(* A refresh ends without an error: what the handler changed is in force.  *)
Answers(by, r) ==
  answered' = IF by = Loop \/ handler[by].reached[r] < answered[r] THEN answered
              ELSE [answered EXCEPT ![r] = handler[by].reached[r]]

UpToDate(r) == db.version[r] = registry[r].version

StartRefresh(r, by) ==
  /\ up /\ r \in scenario.watch
  /\ load[r].by = Nobody
  /\ Wants(by, r)
  /\ IF UpToDate(r)
     THEN Onward(by) /\ Answers(by, r) /\ UNCHANGED load
     ELSE /\ load' = [load EXCEPT ![r] = Fresh(r, by)]
          /\ UNCHANGED <<handler, answered>>
  /\ UNCHANGED <<db, registry, up, bounds>>

ReadBefore(r) ==
  /\ load[r].by # Nobody /\ load[r].step = 0
  /\ load' = [load EXCEPT ![r].before = db.version[r], ![r].step = 1]
  /\ UNCHANGED <<db, handler, registry, answered, up, bounds>>

ReadRows(r) ==
  /\ load[r].step \in 1 .. Queries(r)
  /\ load' = [load EXCEPT ![r].rows = Read(r, load[r].step, @, db), ![r].step = @ + 1]
  /\ UNCHANGED <<db, handler, registry, answered, up, bounds>>

(* The counter is what it was before the queries.                          *)
UnchangedSinceWrong(r) == TRUE
UnchangedSince(r) == db.version[r] = load[r].before

NewerWrong(r) == db.version[r] > registry[r].version + 1
Newer(r) == db.version[r] > registry[r].version

(* It is not: read everything again.                                       *)
ReadAgain(r) ==
  /\ load[r].step = Queries(r) + 1
  /\ ~UnchangedSince(r)
  /\ load' = [load EXCEPT ![r] = Fresh(r, load[r].by)]
  /\ UNCHANGED <<db, handler, registry, answered, up, bounds>>

(* It is: build, and install what is newer than what is served.            *)
Install(r) ==
  /\ load[r].step = Queries(r) + 1
  /\ UnchangedSince(r)
  /\ Buildable(r, load[r].rows)
  /\ registry' = [registry EXCEPT ![r] =
       IF Newer(r) THEN [version |-> db.version[r], rows |-> load[r].rows] ELSE @]
  /\ Onward(load[r].by) /\ Answers(load[r].by, r)
  /\ load' = [load EXCEPT ![r] = Free(r)]
  /\ UNCHANGED <<db, up, bounds>>

BuildFails(r) ==
  /\ load[r].step = Queries(r) + 1
  /\ UnchangedSince(r)
  /\ ~Buildable(r, load[r].rows)
  /\ Onward(load[r].by)
  /\ load' = [load EXCEPT ![r] = Free(r)]
  /\ UNCHANGED <<db, registry, answered, up, bounds>>

(* A query fails.  The handler warns and answers 2xx all the same.         *)
ReadFails(r) ==
  /\ load[r].by # Nobody
  /\ errors < MaxErrors
  /\ errors' = errors + 1
  /\ Onward(load[r].by)
  /\ load' = [load EXCEPT ![r] = Free(r)]
  /\ UNCHANGED <<db, registry, answered, up, scenario, changes, restarts>>

---------------------------------------------------------------------------
(* The process dies; what it had not committed is rolled back.             *)
Stop ==
  /\ up /\ restarts < MaxRestarts
  /\ restarts' = restarts + 1
  /\ up' = FALSE
  /\ handler' = [h \in Handlers |-> IF h \in Remote THEN handler[h] ELSE Idle]
  /\ load' = [r \in Registries |-> Free(r)]
  /\ UNCHANGED <<db, registry, answered, scenario, changes, errors>>

(* Start loads every registry, and does not serve if one cannot be built.  *)
Start ==
  /\ ~up
  /\ \A r \in Registries : Buildable(r, View(r, db))
  /\ up' = TRUE
  /\ registry' = [r \in Registries |->
       IF r \in scenario.watch THEN [version |-> db.version[r], rows |-> View(r, db)]
       ELSE registry[r]]
  /\ UNCHANGED <<db, handler, load, answered, bounds>>

Request(h) ==
  \/ BeginCreateProject(h) \/ BeginUpdateProject(h) \/ BeginDeleteProject(h)
  \/ BeginUpdateScriptStatus(h) \/ BeginAssign(h) \/ BeginDeleteBinding(h)
  \/ BeginCreateTarget(h) \/ BeginUpdateTarget(h) \/ BeginDeleteTarget(h)
  \/ BeginCreateSink(h) \/ BeginUpdateSink(h) \/ BeginDeleteSink(h)
  \/ ReadSinkIds(h)

Proceed(h) ==
  \/ BeginCreateScript(h) \/ BeginUpdateScript(h) \/ BeginAssignDefault(h)
  \/ CommitTransaction(h) \/ RefuseTransaction(h)

Refresh(r) ==
  \/ \E by \in Handlers \cup {Loop} : StartRefresh(r, by)
  \/ ReadBefore(r) \/ ReadRows(r) \/ ReadAgain(r) \/ Install(r) \/ BuildFails(r)

Next ==
  \/ \E h \in Handlers : Request(h) \/ Proceed(h) \/ TransactionFails(h)
  \/ \E r \in Registries : Refresh(r) \/ ReadFails(r)
  \/ Stop \/ Start

Spec == Init /\ [][Next]_vars

(* Handlers and refreshes run on; the loops come round; a supervisor       *)
(* starts the node again.                                                  *)
Fairness ==
  /\ \A h \in Handlers : WF_vars(Proceed(h))
  /\ \A r \in Registries :
       /\ WF_vars(StartRefresh(r, Loop))
       /\ WF_vars(ReadBefore(r) \/ ReadRows(r) \/ ReadAgain(r) \/ Install(r) \/ BuildFails(r))
  /\ WF_vars(Start)

FairSpec == Spec /\ Fairness

---------------------------------------------------------------------------
(* The type invariant.                                                     *)
Snapshot(r) == CASE r = "projects" -> SUBSET (Nat \X ProjectRow)
                 [] r = "sinks" -> SUBSET [id : SinkIds, type : Types, config : Configs,
                                           dest : Dests]
                 [] r = "scripts" -> [ids : SUBSET SinkIds, default : SUBSET ConstantNames,
                                      projects : SUBSET (Nat \X Nat \X SUBSET ConstantNames)]

IsTxn(txn) ==
  \/ txn.do = "refuse"
  \/ txn.do = "insert" /\ txn.table \in Tables /\ txn.row \in Rows[txn.table]
  \/ txn.do = "update" /\ txn.table \in Tables /\ txn.id \in DOMAIN db.rows[txn.table]
  \/ txn.do = "delete" /\ txn.table \in Tables /\ txn.id \in Nat

TypeOK ==
  /\ IsDatabase(db)
  /\ \A h \in Handlers :
       /\ handler[h].pc \in {"idle", "script", "commit", "assign", "refresh"}
       /\ IsTxn(handler[h].txn)
       /\ handler[h].base \in [Counters -> Nat] /\ handler[h].reached \in [Counters -> Nat]
       /\ handler[h].ids \subseteq SinkIds /\ handler[h].todo \in Seq(Registries)
       /\ handler[h].pc = "refresh" => handler[h].todo # <<>>
       /\ handler[h].pc = "commit" => handler[h].txn.do # "refuse"
  /\ \A r \in Registries :
       /\ registry[r].version \in Nat /\ registry[r].rows \in Snapshot(r)
       /\ load[r].by \in Handlers \cup {Loop, Nobody} /\ load[r].before \in Nat
       /\ load[r].step \in 0 .. Queries(r) + 1
       /\ load[r].step = Queries(r) + 1 => load[r].rows \in Snapshot(r)
       /\ answered[r] \in Nat
  /\ up \in BOOLEAN
  /\ scenario \in Scenarios
  /\ changes \in 0 .. MaxChanges /\ errors \in 0 .. MaxErrors /\ restarts \in 0 .. MaxRestarts

(* A registry whose version is the database's serves what the database     *)
(* holds: were it ever wrong with a version that compares equal, no        *)
(* refresh would repair it (the early return of refresh_if_needed).        *)
CurrentMeansEqual ==
  \A r \in {"projects", "sinks"} \cap scenario.watch :
    registry[r].version = db.version[r] => registry[r].rows = View(r, db)

(* The same of the processors, as far as the scripts counter reaches: the  *)
(* default script, and for each project that exists the script it is       *)
(* bound to.  Whether the project or a sink is enabled is counted by the   *)
(* other two counters, and is left out here.                               *)
RouterFollowsBindings ==
  LET rows == registry["scripts"].rows
  IN "scripts" \in scenario.watch /\ registry["scripts"].version = db.version["scripts"] =>
       /\ rows.default = SourceOf(db, DefaultScript(db))
       /\ \A p \in rows.projects : p[1] \in EnabledProjects(db) => p \in RuntimeProcessors(db)

(* Once a handler has refreshed and answered, what it changed stays in     *)
(* force on its node, whatever refreshes were under way.                   *)
AnsweredInForce == \A r \in Registries : answered[r] <= registry[r].version

(* Who may log events, said of the database instead of the handler's       *)
(* checks: an enabled project of that key, an address it allows, and its   *)
(* token in every place a token is given, unless it is public.             *)
Entitled(req) ==
  \E i \in EnabledProjects(db) :
    LET row == Row(db, "projects", i)
        given == {req.header, req.field} \ {NoToken}
    IN /\ row.key = req.key
       /\ row.ips = {} \/ req.ip \in row.ips
       /\ row.public \/ given = {row.token}

(* While the last change of the projects has been answered, a well-formed  *)
(* request is logged if and only if its sender is entitled: a replaced     *)
(* token, a disabled or deleted project lets nobody in.                    *)
AcceptedIffEntitled ==
  "projects" \in scenario.watch /\ answered["projects"] = db.version["projects"] =>
    \A req \in Requests :
      Undecodable(req) = "none" /\ req.size <= MaxEventBytes =>
        (Answer(registry["projects"].rows, req)[1] = "append" <=> Entitled(req))

(* An enabled binding runs an active script of a project that exists, the  *)
(* default script is there, and a sink has a target that accepts its       *)
(* destination, whatever two administrators do at once.                    *)
BindingsSound == Sound(db)

(* A node that is up ends with what the database holds in its registries   *)
(* of projects and sinks, if its sinks can be built.                       *)
RegistriesConverge ==
  <>[](up => \A r \in {"projects", "sinks"} \cap scenario.watch :
               Buildable(r, View(r, db)) => registry[r].rows = View(r, db))

(* The same of the processors, which docs/event-processing/ promises: each *)
(* project that is enabled runs the script it is bound to, and scripts     *)
(* know the sinks that are enabled.                                        *)
Routed(rows) == [p \in EnabledProjects(db) |-> {x \in rows.projects : x[1] = p}]
ProcessorsConverge ==
  <>[](up /\ "scripts" \in scenario.watch =>
         LET served == registry["scripts"].rows
             held == View("scripts", db)
         IN Routed(served) = Routed(held) /\ served.ids = held.ids)
=============================================================================
