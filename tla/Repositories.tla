--------------------------- MODULE Repositories ---------------------------
(***************************************************************************)
(* The configuration database of src/src/repositories/: five tables and    *)
(* the version counters of app_meta.  An operation is one transaction: it  *)
(* reads a snapshot S, decides, and changes one row and one counter.  The  *)
(* operators below are what an operation decides on its snapshot; Commit   *)
(* is what the database then makes of it, with the constraints the         *)
(* migrations declare.  Two transactions may overlap: ControlPlane says    *)
(* when, here S and the database D that is written to are two arguments.   *)
(*                                                                         *)
(* Names, tokens and configurations are values told apart by equality.     *)
(* The source of a script is the set of sink constants it emits to.        *)
(***************************************************************************)
EXTENDS Integers, Sequences, FiniteSets

CONSTANTS Blank,       \* a text that trimming and normalising leaves empty
          Tokens,      \* ingest tokens
          Keys,        \* project keys
          Ips,         \* client addresses
          ScriptKeys,  \* script keys
          DefaultKey,  \* "default", the script of projects without another
          SinkIds,     \* sink ids
          Constant,    \* the Rhai constant a sink id is known by in scripts
          TargetIds,   \* target ids
          Types,       \* registered sink types
          TargetFits,  \* the target configurations each type accepts
          SinkFits,    \* the sink configurations each type accepts
          Builds,      \* <<type, config, destination>> a client can be built from
          Deleted      \* a row that is gone; ids are never used again

ASSUME RepositoriesAssumption ==
  /\ DefaultKey \in ScriptKeys
  /\ Blank \notin Tokens \cup Keys \cup SinkIds
  /\ DOMAIN Constant = SinkIds
  /\ DOMAIN TargetFits = Types /\ DOMAIN SinkFits = Types

Tables == {"projects", "scripts", "bindings", "targets", "sinks"}
Counters == {"projects", "scripts", "sinks"}
Statuses == {"draft", "active", "archived"}

Configs == UNION {TargetFits[t] : t \in Types}
Dests == UNION {SinkFits[t] : t \in Types}
ConstantNames == {Constant[s] : s \in SinkIds}

ProjectRow == [token : Tokens, key : Keys, public : BOOLEAN, ips : SUBSET Ips,
               enabled : BOOLEAN]
ScriptRow == [key : ScriptKeys, source : SUBSET ConstantNames,
              status : Statuses]
BindingRow == [project : Nat, script : Nat, enabled : BOOLEAN]
TargetRow == [id : TargetIds, type : Types, config : Configs, enabled : BOOLEAN]
SinkRow == [id : SinkIds, target : Nat, dest : Dests, enabled : BOOLEAN]

Rows == [projects |-> ProjectRow, scripts |-> ScriptRow, bindings |-> BindingRow,
         targets |-> TargetRow, sinks |-> SinkRow]

ASSUME DeletedAssumption == \A t \in Tables : Deleted \notin Rows[t]

IsDatabase(D) ==
  /\ DOMAIN D = {"rows", "version"}
  /\ DOMAIN D.rows = Tables
  /\ \A t \in Tables : D.rows[t] \in Seq(Rows[t] \cup {Deleted})
  /\ D.version \in [Counters -> Nat]

(* A row's id is its place; the primary keys are AUTOINCREMENT.            *)
Live(D, t) == {i \in DOMAIN D.rows[t] : D.rows[t][i] # Deleted}
Row(D, t, i) == D.rows[t][i]

CounterOfWrong(t) == CASE t \in {"projects", "bindings"} -> "projects"
                       [] t = "scripts" -> "scripts"
                       [] t \in {"targets", "sinks"} -> "sinks"
CounterOf(t) == CASE t = "projects" -> "projects"
                  [] t \in {"scripts", "bindings"} -> "scripts"
                  [] t \in {"targets", "sinks"} -> "sinks"

---------------------------------------------------------------------------
(* What a transaction asks for: nothing but an error, a new row, a change  *)
(* of some columns of row id, or its removal.                              *)
Refuse(error) == [do |-> "refuse", error |-> error]
Insert(t, row) == [do |-> "insert", table |-> t, row |-> row]
Update(t, i, set) == [do |-> "update", table |-> t, id |-> i, set |-> set]
Delete(t, i) == [do |-> "delete", table |-> t, id |-> i]

(* Some columns of a row set anew.                                         *)
With(row, set) == [c \in DOMAIN row |-> IF c \in DOMAIN set THEN set[c] ELSE row[c]]

(* What the columns of a request body may hold; Blank stands for a text    *)
(* that is blank, does not parse or does not compile.                      *)
ProjectBody == [token |-> Tokens \cup {Blank}, key |-> Keys \cup {Blank}, public |-> BOOLEAN,
                ips |-> SUBSET Ips, enabled |-> BOOLEAN]
ScriptBody == [key |-> ScriptKeys, source |-> SUBSET (ConstantNames \cup {Blank}),
               status |-> Statuses]
TargetBody == [id |-> TargetIds, type |-> Types, config |-> Configs \cup {Blank},
               enabled |-> BOOLEAN]
SinkBody == [id |-> SinkIds \cup {Blank}, target |-> Int, dest |-> Dests \cup {Blank},
             enabled |-> BOOLEAN]

(* A request gives exactly the columns, or, to change a row, some that are *)
(* not fixed.                                                              *)
Sets(set, columns, body) ==
  set = [c \in columns |-> set[c]] /\ \A c \in columns : set[c] \in body[c]
Creates(row, body) == Sets(row, DOMAIN body, body)
Changes(set, body, fixed) ==
  DOMAIN set \subseteq DOMAIN body \ fixed /\ Sets(set, DOMAIN set, body)

---------------------------------------------------------------------------
(* Projects.                                                               *)
BlankIn(set, column) == column \in DOMAIN set /\ set[column] = Blank

CreateProject(S, row) ==
  IF row.token = Blank THEN Refuse("InvalidIngestToken")
  ELSE IF row.key = Blank THEN Refuse("InvalidProjectKey")
  ELSE Insert("projects", row)

(* update_project, update_project_ingest_settings and their union; set     *)
(* holds the columns the request names.                                    *)
UpdateProject(S, i, set) ==
  IF i \notin Live(S, "projects") THEN Refuse("NotFound")
  ELSE IF BlankIn(set, "token") THEN Refuse("InvalidIngestToken")
  ELSE IF BlankIn(set, "key") THEN Refuse("InvalidProjectKey")
  ELSE Update("projects", i, set)

DeleteProject(S, i) ==
  IF i \notin Live(S, "projects") THEN Refuse("NotFound") ELSE Delete("projects", i)

EnabledProjects(D) == {i \in Live(D, "projects") : Row(D, "projects", i).enabled}

---------------------------------------------------------------------------
(* Processor scripts and their bindings to projects.                       *)
EnabledSinkIds(D) ==
  {Row(D, "sinks", i).id : i \in {i \in Live(D, "sinks") : Row(D, "sinks", i).enabled}}

(* The lint wants one constant for each sink and every emit to name one.   *)
(* A source that does not compile is one that emits to Blank.  Left out is *)
(* a sink whose constant would be plain SINK, at which every lint fails.   *)
Collide(ids) == \E s, t \in ids : s # t /\ Constant[s] = Constant[t]
ScriptAccepted(source, ids) ==
  ~Collide(ids) /\ source \subseteq {Constant[s] : s \in ids}

CreateScript(S, row, ids) ==
  IF ~ScriptAccepted(row.source, ids) THEN Refuse("InvalidScript")
  ELSE Insert("scripts", row)

InUse(S, i) == \E b \in Live(S, "bindings") :
                 Row(S, "bindings", b).script = i /\ Row(S, "bindings", b).enabled
CanBeDisabledWrong(S, i) == Row(S, "scripts", i).key # DefaultKey
CanBeDisabled(S, i) == Row(S, "scripts", i).key # DefaultKey /\ ~InUse(S, i)

UpdateScript(S, i, set, ids) ==
  IF i \notin Live(S, "scripts") THEN Refuse("ProcessorScriptNotFound")
  ELSE IF set.status # "active" /\ ~CanBeDisabled(S, i) THEN Refuse("ProcessorScriptInUse")
  ELSE IF ~ScriptAccepted(set.source, ids) THEN Refuse("InvalidScript")
  ELSE Update("scripts", i, set)

UpdateScriptStatus(S, i, status) ==
  IF i \notin Live(S, "scripts") THEN Refuse("ProcessorScriptNotFound")
  ELSE IF status # "active" /\ ~CanBeDisabled(S, i) THEN Refuse("ProcessorScriptInUse")
  ELSE Update("scripts", i, [status |-> status])

BindingOf(S, p) == {b \in Live(S, "bindings") : Row(S, "bindings", b).project = p}

AssignProcessor(S, p, i, enabled) ==
  IF p \notin Live(S, "projects") THEN Refuse("ProjectNotFound")
  ELSE IF i \notin Live(S, "scripts") THEN Refuse("ProcessorScriptNotFound")
  ELSE IF enabled /\ Row(S, "scripts", i).status # "active" THEN Refuse("ProcessorScriptNotActive")
  ELSE IF BindingOf(S, p) = {}
       THEN Insert("bindings", [project |-> p, script |-> i, enabled |-> enabled])
       ELSE Update("bindings", CHOOSE b \in BindingOf(S, p) : TRUE,
                   [script |-> i, enabled |-> enabled])

(* The default script, or none: 0.                                         *)
DefaultScript(D) ==
  LET found == {i \in Live(D, "scripts") :
                  /\ Row(D, "scripts", i).key = DefaultKey
                  /\ Row(D, "scripts", i).status = "active"}
  IN IF found = {} THEN 0 ELSE CHOOSE i \in found : TRUE

AssignDefaultProcessor(S, script, p) ==
  IF script = 0 THEN Refuse("DefaultProcessorScriptMissing")
  ELSE AssignProcessor(S, p, script, TRUE)

(* Deletes no row, or one, and counts as a change either way.              *)
DeleteBinding(S, p) ==
  IF p \notin Live(S, "projects") THEN Refuse("ProjectNotFound")
  ELSE Delete("bindings", IF BindingOf(S, p) = {} THEN 0
                          ELSE CHOOSE b \in BindingOf(S, p) : TRUE)

---------------------------------------------------------------------------
(* Delivery targets and event sinks.                                       *)
CreateTarget(S, row) ==
  IF row.config \notin TargetFits[row.type] THEN Refuse("InvalidConfig")
  ELSE Insert("targets", row)

UpdateTarget(S, i, set) ==
  IF i \notin Live(S, "targets") THEN Refuse("DeliveryTargetNotFound")
  ELSE IF "config" \in DOMAIN set /\ set.config \notin TargetFits[Row(S, "targets", i).type]
       THEN Refuse("InvalidConfig")
  ELSE Update("targets", i, set)

SinksOf(S, i) == {s \in Live(S, "sinks") : Row(S, "sinks", s).target = i}

DeleteTarget(S, i) ==
  IF i \notin Live(S, "targets") THEN Refuse("DeliveryTargetNotFound")
  ELSE IF SinksOf(S, i) # {} THEN Refuse("DeliveryTargetInUse")
  ELSE Delete("targets", i)

CreateSink(S, row) ==
  IF row.id = Blank THEN Refuse("InvalidConfig")
  ELSE IF row.target \notin Live(S, "targets") THEN Refuse("DeliveryTargetNotFound")
  ELSE IF row.dest \notin SinkFits[Row(S, "targets", row.target).type] THEN Refuse("InvalidConfig")
  ELSE Insert("sinks", row)

(* The target and the destination are always written, from the request or  *)
(* from the row that was read.                                             *)
UpdateSink(S, i, set) ==
  IF i \notin Live(S, "sinks") THEN Refuse("EventSinkNotFound")
  ELSE LET new == With(Row(S, "sinks", i), set)
       IN IF new.target \notin Live(S, "targets") THEN Refuse("DeliveryTargetNotFound")
          ELSE IF new.dest \notin SinkFits[Row(S, "targets", new.target).type]
               THEN Refuse("InvalidConfig")
          ELSE Update("sinks", i, [c \in DOMAIN set \cup {"target", "dest"} |-> new[c]])

DeleteSink(S, i) ==
  IF i \notin Live(S, "sinks") THEN Refuse("EventSinkNotFound") ELSE Delete("sinks", i)

---------------------------------------------------------------------------
(* The database's side: the constraints of the migrations.                 *)
UniqueColumns(t) == CASE t = "projects" -> {"token", "key"}
                      [] t = "scripts" -> {"key"}
                      [] t = "bindings" -> {"project"}
                      [] t \in {"targets", "sinks"} -> {"id"}

Duplicate(D, t, i, row) ==
  \E j \in Live(D, t) \ {i} : \E c \in UniqueColumns(t) : Row(D, t, j)[c] = row[c]

(* A row refers to rows that exist.                                        *)
Refers(D, t, row) ==
  CASE t = "bindings" -> row.project \in Live(D, "projects") /\ row.script \in Live(D, "scripts")
    [] t = "sinks" -> row.target \in Live(D, "targets")
    [] OTHER -> TRUE

(* ON DELETE RESTRICT: a target with sinks stays.                          *)
Held(D, t, i) == t = "targets" /\ SinksOf(D, i) # {}

Allowed(D, w) ==
  CASE w.do = "refuse" -> FALSE
    [] w.do = "insert" -> ~Duplicate(D, w.table, 0, w.row) /\ Refers(D, w.table, w.row)
    [] w.do = "update" -> /\ w.id \in Live(D, w.table)
                          /\ LET row == With(Row(D, w.table, w.id), w.set)
                             IN ~Duplicate(D, w.table, w.id, row) /\ Refers(D, w.table, row)
    [] w.do = "delete" -> ~Held(D, w.table, w.id)

(* The rows of table t once w is written; deleting a project deletes its   *)
(* binding.                                                                *)
Written(D, w, t) ==
  CASE w.do = "insert" /\ t = w.table -> Append(D.rows[t], w.row)
    [] w.do = "update" /\ t = w.table ->
         [D.rows[t] EXCEPT ![w.id] = With(Row(D, t, w.id), w.set)]
    [] w.do = "delete" /\ t = w.table ->
         [i \in DOMAIN D.rows[t] |-> IF i = w.id THEN Deleted ELSE D.rows[t][i]]
    [] w.do = "delete" /\ w.table = "projects" /\ t = "bindings" ->
         [b \in DOMAIN D.rows[t] |-> IF b \in BindingOf(D, w.id) THEN Deleted ELSE D.rows[t][b]]
    [] OTHER -> D.rows[t]

(* bump_*_version: the counter as the snapshot has it, plus one.           *)
Bumped(D, w, seen) == [D.version EXCEPT ![CounterOf(w.table)] = seen + 1]

Commit(D, w, seen) == [rows |-> [t \in Tables |-> Written(D, w, t)],
                       version |-> Bumped(D, w, seen)]

---------------------------------------------------------------------------
(* What the registries are made from.                                      *)
RuntimeSink(D, i) == [id |-> Row(D, "sinks", i).id, target |-> Row(D, "sinks", i).target,
                      dest |-> Row(D, "sinks", i).dest]
EnabledSinks(D) == {RuntimeSink(D, i) : i \in {i \in Live(D, "sinks") : Row(D, "sinks", i).enabled}}

(* The scripts that run for projects: an enabled project, an enabled       *)
(* binding and an active script.                                           *)
RuntimeProcessors(D) ==
  {<<Row(D, "bindings", b).project, Row(D, "bindings", b).script,
     Row(D, "scripts", Row(D, "bindings", b).script).source>> :
     b \in {b \in Live(D, "bindings") :
              /\ Row(D, "bindings", b).enabled
              /\ Row(D, "bindings", b).project \in EnabledProjects(D)
              /\ Row(D, "bindings", b).script \in Live(D, "scripts")
              /\ Row(D, "scripts", Row(D, "bindings", b).script).status = "active"}}

---------------------------------------------------------------------------
(* What the tables say together, and no constraint of the database does:   *)
(* an enabled binding runs an active script of a project that exists, and  *)
(* is the project's only one; the default script is there; a sink has a    *)
(* target that accepts its destination.                                    *)
SoundBinding(D, b) ==
  LET row == Row(D, "bindings", b)
  IN /\ row.project \in Live(D, "projects") /\ row.script \in Live(D, "scripts")
     /\ row.enabled => Row(D, "scripts", row.script).status = "active"
     /\ BindingOf(D, row.project) = {b}

SoundSink(D, s) ==
  LET row == Row(D, "sinks", s)
  IN /\ row.target \in Live(D, "targets")
     /\ row.dest \in SinkFits[Row(D, "targets", row.target).type]

Sound(D) ==
  /\ \A b \in Live(D, "bindings") : SoundBinding(D, b)
  /\ DefaultScript(D) # 0
  /\ \A s \in Live(D, "sinks") : SoundSink(D, s)
=============================================================================
