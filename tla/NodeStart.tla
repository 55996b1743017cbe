----------------------------- MODULE NodeStart -----------------------------
(***************************************************************************)
(* How nodes start on one configuration database (src/src/db/seed.rs and   *)
(* server.rs), and how the table of service nodes follows them             *)
(* (repositories/service_nodes.rs, admin/service_nodes.rs).                *)
(*                                                                         *)
(* A start first writes what every installation has: targets, sinks,       *)
(* projects, scripts and bindings.  Each of these instructions lists a     *)
(* table, decides, and then runs a transaction, so that two nodes that     *)
(* start together, a crash, or an administrator on a node that is already  *)
(* up come between any two.  It then loads the registries, registers the   *)
(* node as starting, binds its addresses, registers it as running, and     *)
(* from then on marks it seen once an interval.                            *)
(***************************************************************************)
EXTENDS Repositories

CONSTANTS Nodes,          \* node ids
          NoRow,          \* the node has no row
          StaleAfter,     \* a row this many intervals old is shown as stale
          ProjectChanges, \* what administrators may set of a project
          Scenarios       \* what a behaviour exercises: [starts, kept, troubles],
                          \* the nodes there are, those a supervisor starts again
                          \* whenever they are down, and a bound on what
                          \* administrators do, failures and crashes together

TestToken == "igx_local_test_token"
LoadtestToken == "igx_loadtest_token"
LoadtestScript == "loadtest_blackhole_processor"

Target(id, type, config) == [id |-> id, type |-> type, config |-> config, enabled |-> TRUE]
DefaultTargets == <<Target("local_kafka", "kafka", "broker"),
                    Target("local_parquet", "parquet", "fs"),
                    Target("default_stdout", "stdout", "plain"),
                    Target("loadtest_blackhole", "blackhole", "plain")>>
DefaultSinks == {"events", "events_error"}

SeedProject(token, key) ==
  [token |-> token, key |-> key, public |-> FALSE, ips |-> {}, enabled |-> TRUE]
SeedScript(key, source) == [key |-> key, source |-> source, status |-> "active"]
SeedSink(id, target, dest) == [id |-> id, target |-> target, dest |-> dest, enabled |-> TRUE]

ASSUME NodeStartAssumption ==
  /\ NoRow \notin [status : {"starting", "running"}, age : 0 .. StaleAfter + 1]
  /\ {TestToken, LoadtestToken} \subseteq Tokens
  /\ {"test_app", "loadtest_app"} \subseteq Keys
  /\ {DefaultKey, LoadtestScript} \subseteq ScriptKeys
  /\ \A i \in 1 .. 4 : DefaultTargets[i] \in TargetRow
  /\ DefaultSinks \cup {"parquet_events", "loadtest_events"} \subseteq SinkIds
  /\ StaleAfter \in Nat \ {0}
  /\ \A set \in ProjectChanges : Changes(set, ProjectBody, {})
  /\ \A s \in Scenarios : s.kept \subseteq s.starts /\ s.starts \subseteq Nodes /\ s.troubles \in Nat

VARIABLES
  db,     \* the configuration database
  table,  \* the row of each node in service_nodes
  node,   \* what each node is doing
  scenario, \* what this behaviour exercises; chosen once
  changes,  \* what administrators did
  troubles  \* the same, with every failure and crash

bounds == <<scenario, changes, troubles>>
vars == <<db, table, node, bounds>>

---------------------------------------------------------------------------
(* The instructions of seed::run, in its order.                            *)
Seed == <<"local_kafka", "local_parquet",
          "missing_sinks", "default_stdout", "events", "events_error",
          "find_parquet", "parquet_events",
          "loadtest_blackhole", "loadtest_events",
          "test_app", "loadtest_app",
          "default_script", "loadtest_script",
          "default_bindings", "find_loadtest", "bind_loadtest">>

(* What an instruction keeps for the next ones.                            *)
Nothing == [target |-> 0, missing |-> {}, project |-> 0]

Skip(mem) == [write |-> Refuse("nothing"), mem |-> mem]
Stops(error) == [write |-> Refuse(error), mem |-> Nothing]
Writes(w, mem) == [write |-> w, mem |-> mem]

Having(D, t, column, value) == {i \in Live(D, t) : Row(D, t, i)[column] = value}
TheOne(S) == CHOOSE i \in S : TRUE

(* A target is found, or made: its id is the next one.                     *)
EnsureTarget(D, target, mem) ==
  LET found == Having(D, "targets", "id", target.id)
  IN IF found # {} THEN Skip([mem EXCEPT !.target = TheOne(found)])
     ELSE Writes(CreateTarget(D, target), [mem EXCEPT !.target = Len(D.rows["targets"]) + 1])

EnsureSinkWrong(D, id, dest, mem) ==
  LET found == Having(D, "sinks", "id", id)
  IN IF found # {} THEN Writes(UpdateSink(D, TheOne(found), [enabled |-> TRUE]), mem)
     ELSE Writes(CreateSink(D, SeedSink(id, mem.target, dest)), mem)
EnsureSink(D, id, dest, mem) ==
  IF Having(D, "sinks", "id", id) # {} THEN Skip(mem)
  ELSE Writes(CreateSink(D, SeedSink(id, mem.target, dest)), mem)

EnsureProjectWrong(D, token, key, mem) ==
  IF Having(D, "projects", "token", token) \cap EnabledProjects(D) # {} THEN Skip(mem)
  ELSE Writes(CreateProject(D, SeedProject(token, key)), mem)
EnsureProject(D, token, key, mem) ==
  IF Having(D, "projects", "token", token) # {} THEN Skip(mem)
  ELSE Writes(CreateProject(D, SeedProject(token, key)), mem)

EnsureScript(D, exists, key, source, mem) ==
  IF exists THEN Skip(mem)
  ELSE Writes(CreateScript(D, SeedScript(key, source), EnabledSinkIds(D)), mem)

BindLoadtestWrong(D, mem) ==
  LET script == Having(D, "scripts", "key", LoadtestScript)
  IN IF mem.project = 0 \/ BindingOf(D, mem.project) # {} THEN Skip(mem)
     ELSE IF script = {} THEN Stops("loadtest processor seed is missing")
     ELSE Writes(AssignProcessor(D, mem.project, TheOne(script), TRUE), mem)
BindLoadtest(D, mem) ==
  LET script == Having(D, "scripts", "key", LoadtestScript)
  IN IF mem.project = 0 THEN Skip(mem)
     ELSE IF script = {} THEN Stops("loadtest processor seed is missing")
     ELSE Writes(AssignProcessor(D, mem.project, TheOne(script), TRUE), mem)

Decide(step, D, mem) ==
  CASE step = "local_kafka" -> EnsureTarget(D, DefaultTargets[1], mem)
    [] step = "local_parquet" -> EnsureTarget(D, DefaultTargets[2], mem)
    [] step = "missing_sinks" ->
         Skip([mem EXCEPT !.missing = {s \in DefaultSinks : Having(D, "sinks", "id", s) = {}}])
    [] step = "default_stdout" ->
         IF mem.missing = {} THEN Skip(mem) ELSE EnsureTarget(D, DefaultTargets[3], mem)
    [] step \in DefaultSinks ->
         IF step \notin mem.missing THEN Skip(mem)
         ELSE Writes(CreateSink(D, SeedSink(step, mem.target, "plain")), mem)
    [] step = "find_parquet" ->
         LET found == Having(D, "targets", "id", "local_parquet")
         IN IF found = {} THEN Stops("local parquet delivery target is missing")
            ELSE Skip([mem EXCEPT !.target = TheOne(found)])
    [] step = "parquet_events" -> EnsureSink(D, step, "prefix", mem)
    [] step = "loadtest_blackhole" -> EnsureTarget(D, DefaultTargets[4], mem)
    [] step = "loadtest_events" -> EnsureSink(D, step, "plain", mem)
    [] step = "test_app" -> EnsureProject(D, TestToken, step, mem)
    [] step = "loadtest_app" -> EnsureProject(D, LoadtestToken, step, mem)
    [] step = "default_script" ->
         EnsureScript(D, DefaultScript(D) # 0, DefaultKey, {Constant[s] : s \in DefaultSinks}, mem)
    [] step = "loadtest_script" ->
         EnsureScript(D, Having(D, "scripts", "key", LoadtestScript) # {}, LoadtestScript,
                      {Constant["loadtest_events"]}, mem)
    [] step = "default_bindings" -> Skip(mem)
    [] step = "find_loadtest" ->
         LET found == Having(D, "projects", "token", LoadtestToken)
         IN Skip([mem EXCEPT !.project = IF found = {} THEN 0 ELSE TheOne(found)])
    [] step = "bind_loadtest" -> BindLoadtest(D, mem)

(* ensure_default_project_processors is one transaction for all projects   *)
(* without a binding, and counts as one change.                            *)
Unbound(D) == {p \in Live(D, "projects") : BindingOf(D, p) = {}}

DefaultBinding(D, p) == [project |-> p, script |-> DefaultScript(D), enabled |-> TRUE]

(* One row for each project of P; which of them comes first shows nowhere. *)
InARow(P) == CHOOSE s \in [1 .. Cardinality(P) -> P] : \A p \in P : \E i \in DOMAIN s : s[i] = p

DefaultBindingsWrong(D) ==
  LET new == InARow(Unbound(D))
      rows == [i \in DOMAIN new |-> DefaultBinding(D, new[i])]
  IN [D EXCEPT !.rows["bindings"] = @ \o rows]
DefaultBindings(D) ==
  LET new == InARow(Unbound(D))
      rows == [i \in DOMAIN new |-> DefaultBinding(D, new[i])]
  IN IF Unbound(D) = {} THEN D
     ELSE [rows |-> [D.rows EXCEPT !["bindings"] = @ \o rows],
           version |-> [D.version EXCEPT !["scripts"] = @ + 1]]

---------------------------------------------------------------------------
Down == [pc |-> "down", step |-> 0, mem |-> Nothing, write |-> Refuse("nothing"),
         status |-> "none", found |-> FALSE, started |-> FALSE]

(* The servers are bound before the node registers itself as running.      *)
Up(n) == node[n].status = "running"

Init ==
  /\ db = [rows |-> [t \in Tables |-> <<>>], version |-> [c \in Counters |-> 0]]
  /\ table = [n \in Nodes |-> NoRow]
  /\ node = [n \in Nodes |-> Down]
  /\ scenario \in Scenarios
  /\ changes = 0 /\ troubles = 0

Goes(n, state) == node' = [node EXCEPT ![n] = state]

(* An error anywhere in a start ends the process.                          *)
Exits(n) == Goes(n, Down) /\ UNCHANGED <<db, table>>

Start(n) ==
  /\ n \in scenario.starts
  /\ node[n].pc = "down"
  /\ Goes(n, [Down EXCEPT !.pc = "seed", !.step = 1])
  /\ UNCHANGED <<db, table, bounds>>

OnwardWrong(n, mem) ==
  [node[n] EXCEPT !.mem = mem, !.write = Refuse("nothing"), !.step = @ + 1,
                  !.pc = IF node[n].step > Len(Seed) THEN "load" ELSE "seed"]
Onward(n, mem) ==
  [node[n] EXCEPT !.mem = mem, !.write = Refuse("nothing"), !.step = @ + 1,
                  !.pc = IF node[n].step = Len(Seed) THEN "load" ELSE "seed"]

(* An instruction looks at the database and decides.                       *)
Look(n) ==
  /\ node[n].pc = "seed"
  /\ Seed[node[n].step] # "default_bindings"
  /\ LET does == Decide(Seed[node[n].step], db, node[n].mem)
     IN IF does.write.do = "refuse"
        THEN IF does.write.error = "nothing"
             THEN Goes(n, Onward(n, does.mem)) /\ UNCHANGED <<db, table>>
             ELSE Exits(n)
        ELSE /\ Goes(n, [node[n] EXCEPT !.pc = "write", !.write = does.write, !.mem = does.mem])
             /\ UNCHANGED <<db, table>>
  /\ UNCHANGED bounds

(* Its transaction: what another node or an administrator did meanwhile    *)
(* may have made the row a duplicate, or taken away what it refers to.     *)
Write(n) ==
  /\ node[n].pc = "write"
  /\ LET w == node[n].write
     IN IF Allowed(db, w)
        THEN /\ db' = Commit(db, w, db.version[CounterOf(w.table)])
             /\ Goes(n, Onward(n, node[n].mem))
             /\ UNCHANGED table
        ELSE Exits(n)
  /\ UNCHANGED bounds

BindDefaults(n) ==
  /\ node[n].pc = "seed"
  /\ Seed[node[n].step] = "default_bindings"
  /\ IF DefaultScript(db) = 0 THEN Exits(n)
     ELSE /\ db' = DefaultBindings(db)
          /\ Goes(n, Onward(n, node[n].mem))
          /\ UNCHANGED table
  /\ UNCHANGED bounds

(* The registries of projects, processors and sinks, and the WAL.          *)
Loadable ==
  /\ DefaultScript(db) # 0
  /\ \A s \in EnabledSinks(db) :
       LET target == Row(db, "targets", s.target)
       IN target.enabled => <<target.type, target.config, s.dest>> \in Builds

Load(n) ==
  /\ node[n].pc = "load"
  /\ IF Loadable
     THEN /\ Goes(n, [Down EXCEPT !.pc = "find", !.status = "starting"])
          /\ UNCHANGED <<db, table>>
     ELSE Exits(n)
  /\ UNCHANGED bounds

---------------------------------------------------------------------------
(* register_service_node looks for the row, then updates it or inserts it. *)
FindRow(n) ==
  /\ node[n].pc = "find"
  /\ Goes(n, [node[n] EXCEPT !.pc = "put", !.found = table[n] # NoRow])
  /\ UNCHANGED <<db, table, bounds>>

AfterRegister(n) ==
  IF node[n].status = "starting" THEN [node[n] EXCEPT !.pc = "bind"]
  ELSE [node[n] EXCEPT !.pc = "sleep", !.started = TRUE]

(* A registration that fails ends a start; the heartbeat only warns.       *)
NotRegistered(n) ==
  IF node[n].started THEN Goes(n, [node[n] EXCEPT !.pc = "sleep"]) /\ UNCHANGED <<db, table>>
  ELSE Exits(n)

PutRow(n) ==
  /\ node[n].pc = "put"
  /\ IF node[n].found = (table[n] # NoRow)
     THEN /\ table' = [table EXCEPT ![n] = [status |-> node[n].status, age |-> 0]]
          /\ Goes(n, AfterRegister(n))
          /\ UNCHANGED db
     ELSE NotRegistered(n)
  /\ UNCHANGED bounds

Bind(n) ==
  /\ node[n].pc = "bind"
  /\ Goes(n, [node[n] EXCEPT !.pc = "find", !.status = "running"])
  /\ UNCHANGED <<db, table, bounds>>

(* The heartbeat: find the row, then write it back as running.             *)
BeatWrong(n) ==
  /\ node[n].pc = "sleep"
  /\ Goes(n, [node[n] EXCEPT !.pc = IF table[n] = NoRow THEN "sleep" ELSE "mark"])
  /\ UNCHANGED <<db, table, bounds>>
Beat(n) ==
  /\ node[n].pc = "sleep"
  /\ Goes(n, [node[n] EXCEPT !.pc = IF table[n] = NoRow THEN "find" ELSE "mark"])
  /\ UNCHANGED <<db, table, bounds>>

(* The update of a row that is gone is an error; the next beat repairs it. *)
Mark(n) ==
  /\ node[n].pc = "mark"
  /\ table' = IF table[n] = NoRow THEN table
              ELSE [table EXCEPT ![n] = [status |-> "running", age |-> 0]]
  /\ Goes(n, [node[n] EXCEPT !.pc = "sleep"])
  /\ UNCHANGED <<db, bounds>>

---------------------------------------------------------------------------
Trouble == troubles < scenario.troubles /\ troubles' = troubles + 1

(* The database, the disk or a socket fails: a start ends, a beat warns.   *)
Fails(n) ==
  /\ node[n].pc # "down"
  /\ Trouble
  /\ NotRegistered(n)
  /\ UNCHANGED <<scenario, changes>>

Crash(n) ==
  /\ node[n].pc # "down"
  /\ Trouble
  /\ Exits(n)
  /\ UNCHANGED <<scenario, changes>>

(* A refresh interval goes by.                                             *)
Tick ==
  /\ table' = [n \in Nodes |-> IF table[n] = NoRow \/ table[n].age > StaleAfter THEN table[n]
                              ELSE [table[n] EXCEPT !.age = @ + 1]]
  /\ UNCHANGED <<db, node, bounds>>

(* What the list of service nodes shows.  In the bug the age of a row is   *)
(* looked at only while the node starts.                                   *)
ShownWrong(n) == IF table[n] = NoRow THEN "none"
                 ELSE IF table[n].status = "starting" /\ table[n].age > StaleAfter THEN "stale"
                 ELSE table[n].status
Shown(n) == IF table[n] = NoRow THEN "none"
            ELSE IF table[n].status = "running" /\ table[n].age > StaleAfter THEN "stale"
            ELSE table[n].status

---------------------------------------------------------------------------
(* Administrators act through a node that is up.  They change projects,    *)
(* bindings and sinks, and delete nodes; that they also archive scripts,   *)
(* and change targets, is left out.                                        *)
MayChange == (\E n \in Nodes : Up(n)) /\ changes' = changes + 1 /\ Trouble /\ UNCHANGED scenario

Administers(w) ==
  /\ MayChange
  /\ Allowed(db, w)
  /\ db' = Commit(db, w, db.version[CounterOf(w.table)])
  /\ UNCHANGED <<table, node>>

ChangeProject == \E p \in Live(db, "projects"), set \in ProjectChanges :
                   Administers(UpdateProject(db, p, set))
DeleteAProject == \E p \in Live(db, "projects") : Administers(DeleteProject(db, p))
DisableSink == \E s \in Live(db, "sinks") : Administers(UpdateSink(db, s, [enabled |-> FALSE]))
RemoveSink == \E s \in Live(db, "sinks") : Administers(DeleteSink(db, s))
Assign == \E p \in Live(db, "projects"), i \in Live(db, "scripts") :
            Administers(AssignProcessor(db, p, i, TRUE))
Unassign == \E p \in Live(db, "projects") : Administers(DeleteBinding(db, p))

DeleteNode(n) ==
  /\ MayChange
  /\ table[n] # NoRow
  /\ table' = [table EXCEPT ![n] = NoRow]
  /\ UNCHANGED <<db, node>>

Starting(n) == Start(n) \/ Look(n) \/ Write(n) \/ BindDefaults(n) \/ Load(n) \/ Bind(n)
Registering(n) == FindRow(n) \/ PutRow(n) \/ Beat(n) \/ Mark(n)
Administer ==
  \/ ChangeProject \/ DeleteAProject
  \/ DisableSink \/ RemoveSink \/ Assign \/ Unassign
  \/ \E n \in Nodes : DeleteNode(n)

Next ==
  \/ \E n \in Nodes : Starting(n) \/ Registering(n) \/ Fails(n) \/ Crash(n)
  \/ Tick \/ Administer

Spec == Init /\ [][Next]_vars

(* A start runs on, the heartbeat comes round, a supervisor starts those   *)
(* it keeps when they are down, and time passes.  Other nodes may come     *)
(* back late, or never.                                                    *)
Advances(n) == Starting(n) /\ (node[n].pc = "down" => n \in scenario.kept)
Fairness ==
  /\ \A n \in Nodes : WF_vars(Advances(n)) /\ WF_vars(Registering(n))
  /\ WF_vars(Tick)

FairSpec == Spec /\ Fairness

---------------------------------------------------------------------------
(* The type invariant.                                                     *)
TypeOK ==
  /\ IsDatabase(db)
  /\ \A n \in Nodes :
       /\ \/ table[n] = NoRow
          \/ table[n] \in [status : {"starting", "running"}, age : 0 .. StaleAfter + 1]
       /\ node[n].pc \in {"down", "seed", "write", "load", "find", "put", "bind", "sleep", "mark"}
       /\ node[n].status \in {"none", "starting", "running"}
       /\ node[n].pc \in {"seed", "write"} => node[n].step \in DOMAIN Seed
       /\ node[n].pc = "write" => node[n].write.do \in {"insert", "update"}
       /\ node[n].started => Up(n)
  /\ scenario \in Scenarios /\ troubles \in 0 .. scenario.troubles /\ changes \in 0 .. troubles

(* Whatever failed, crashed or ran at the same time, a node that serves    *)
(* before anybody changed the configuration has all of the seed: its       *)
(* sinks, both projects, each bound, the load test's to its own script.    *)
SeedComplete ==
  changes = 0 /\ (\E n \in Nodes : node[n].status # "none") =>
    /\ EnabledSinkIds(db) = DefaultSinks \cup {"parquet_events", "loadtest_events"}
    /\ {Row(db, "projects", p).token : p \in EnabledProjects(db)} = {TestToken, LoadtestToken}
    /\ \A p \in Live(db, "projects") : \E b \in BindingOf(db, p) :
         LET script == Row(db, "scripts", Row(db, "bindings", b).script).key
         IN /\ Row(db, "bindings", b).enabled
            /\ script = IF Row(db, "projects", p).token = LoadtestToken THEN LoadtestScript
                        ELSE DefaultKey

(* Starts add rows, and keep the rows that are there as administrators     *)
(* left them; only the binding of the project that a start has found by    *)
(* the load test's token is written again.                                 *)
Keeps(t) == \A i \in Live(db, t) :
              \/ db'.rows[t][i] = Row(db, t, i)
              \/ /\ t = "bindings"
                 /\ \E n \in Nodes : node[n].mem.project = Row(db, t, i).project
                 /\ db'.rows[t][i].project = Row(db, t, i).project
StartsOnlyAdd == [][changes' = changes => \A t \in Tables : Keeps(t)]_vars

(* A change a node makes while it starts is one that the registries of     *)
(* the nodes already running will notice: a counter moves with the rows.   *)
ChangesAreCounted ==
  [][\A t \in Tables : changes' = changes /\ db'.rows[t] # db.rows[t] =>
       db'.version[CounterOf(t)] > db.version[CounterOf(t)]]_vars

(* Every node a supervisor keeps comes up, and again after every crash, on *)
(* the configurations administrators may leave behind: those that the      *)
(* requests of Administer lead to from the seed, with ProjectChanges for   *)
(* what they set of a project.                                             *)
ComesUp == \A n \in Nodes : []<>(n \in scenario.kept => Up(n))

(* The list of nodes is right in the end: one that stays up is shown as    *)
(* running whatever becomes of its row, and one that has come up, goes     *)
(* down and does not come back is shown as stale, or no longer at all.     *)
ListedRight ==
  \A n \in Nodes : /\ <>[]Up(n) => []<>(Shown(n) = "running")
                   /\ <>[](~Up(n)) => <>[](Shown(n) # "running")
=============================================================================
