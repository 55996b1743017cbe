-------------------------- MODULE NodeStartProofs --------------------------
(***************************************************************************)
(* Theorems about NodeStart, for every set of nodes, every scenario and    *)
(* every change of administrators: what a start may do to the database,    *)
(* what it writes, and that it leaves the whole seed behind.               *)
(***************************************************************************)
EXTENDS NodeStart, RepositoriesProofs, FiniteSetTheorems

(***************************************************************************)
(* The shape of the database and of what is written to it.                 *)
(***************************************************************************)
IsSequence(s) == \E S : s \in Seq(S)

Shaped(D) ==
  /\ DOMAIN D = {"rows", "version"}
  /\ DOMAIN D.rows = Tables
  /\ \A t \in Tables : IsSequence(D.rows[t])
  /\ \A b \in Live(D, "bindings") : "project" \in DOMAIN Row(D, "bindings", b)
  /\ D.version \in [Counters -> Nat]

(* E may come after D: no row is taken out of the table, no dead one comes *)
(* back, and a binding stays with its project.                             *)
Follows(D, E) ==
  \A b \in DOMAIN D.rows["bindings"] :
    /\ b \in DOMAIN E.rows["bindings"]
    /\ b \in Live(E, "bindings") =>
         /\ b \in Live(D, "bindings")
         /\ Row(E, "bindings", b).project = Row(D, "bindings", b).project

IsChange(w) ==
  /\ w.do \in {"insert", "update", "delete"}
  /\ w.table \in Tables
  /\ w.do = "insert" /\ w.table = "bindings" => "project" \in DOMAIN w.row
  /\ w.do = "update" /\ w.table = "bindings" => "project" \notin DOMAIN w.set

(* A start inserts a row, or writes the binding of the project it found.   *)
StartWrite(D, w, mem) ==
  /\ IsChange(w)
  /\ w.do # "delete"
  /\ w.do = "update" =>
       /\ w.table = "bindings"
       /\ w.id \in DOMAIN D.rows["bindings"]
       /\ w.id \in Live(D, "bindings") => Row(D, "bindings", w.id).project = mem.project

(***************************************************************************)
(* Sequences of rows.                                                      *)
(***************************************************************************)
LEMMA SequenceDomain ==
  ASSUME NEW s, IsSequence(s)
  PROVE  Len(s) \in Nat /\ DOMAIN s = 1 .. Len(s)
<1>1. PICK S : s \in Seq(S)  BY DEF IsSequence
<1> QED BY <1>1

LEMMA AppendKeeps ==
  ASSUME NEW s, IsSequence(s), NEW e
  PROVE  /\ IsSequence(Append(s, e))
         /\ DOMAIN Append(s, e) = DOMAIN s \cup {Len(s) + 1}
         /\ Append(s, e)[Len(s) + 1] = e
         /\ \A i \in DOMAIN s : Append(s, e)[i] = s[i]
<1>1. PICK S : s \in Seq(S)  BY DEF IsSequence
<1> DEFINE T == S \cup {e}
<1>2. s \in Seq(T) /\ e \in T  BY <1>1, SeqMonotonic
<1> HIDE DEF T
<1>3. /\ Append(s, e) \in Seq(T) /\ Len(Append(s, e)) = Len(s) + 1
      /\ \A i \in 1 .. Len(s) : Append(s, e)[i] = s[i]
      /\ Append(s, e)[Len(s) + 1] = e
  BY <1>2, AppendProperties
<1>4. Len(s) \in Nat /\ DOMAIN s = 1 .. Len(s)  BY SequenceDomain
<1>5. IsSequence(Append(s, e))  BY <1>3, Zenon DEF IsSequence
<1>6. DOMAIN Append(s, e) = 1 .. Len(s) + 1  BY <1>3, <1>5, SequenceDomain
<1> QED BY <1>3, <1>4, <1>5, <1>6

LEMMA ConcatKeeps ==
  ASSUME NEW s, IsSequence(s), NEW r, IsSequence(r)
  PROVE  /\ IsSequence(s \o r)
         /\ \A i \in DOMAIN s : i \in DOMAIN (s \o r) /\ (s \o r)[i] = s[i]
         /\ \A i \in DOMAIN (s \o r) \ DOMAIN s : \E j \in DOMAIN r : (s \o r)[i] = r[j]
<1>1. PICK S : s \in Seq(S)  BY DEF IsSequence
<1>2. PICK R : r \in Seq(R)  BY DEF IsSequence
<1> DEFINE T == S \cup R
<1>3. s \in Seq(T) /\ r \in Seq(T)  BY <1>1, <1>2, SeqMonotonic
<1> HIDE DEF T
<1>4. /\ s \o r \in Seq(T) /\ Len(s \o r) = Len(s) + Len(r)
      /\ \A i \in 1 .. Len(s) + Len(r) :
           (s \o r)[i] = IF i <= Len(s) THEN s[i] ELSE r[i - Len(s)]
  BY <1>3, ConcatProperties
<1>5. /\ Len(s) \in Nat /\ DOMAIN s = 1 .. Len(s)
      /\ Len(r) \in Nat /\ DOMAIN r = 1 .. Len(r)
  BY SequenceDomain
<1>6. IsSequence(s \o r)  BY <1>4, Zenon DEF IsSequence
<1>7. DOMAIN (s \o r) = 1 .. Len(s) + Len(r)  BY <1>4, <1>6, SequenceDomain
<1>8. \A i \in DOMAIN s : i \in DOMAIN (s \o r) /\ (s \o r)[i] = s[i]
  BY <1>4, <1>5, <1>7
<1>9. ASSUME NEW i \in DOMAIN (s \o r) \ DOMAIN s
      PROVE  \E j \in DOMAIN r : (s \o r)[i] = r[j]
  <2>1. i \in Int /\ i > Len(s) /\ i <= Len(s) + Len(r) BY <1>5, <1>7
  <2>2. i - Len(s) \in DOMAIN r  BY <2>1, <1>5
  <2>3. (s \o r)[i] = r[i - Len(s)]  BY <2>1, <1>4, <1>5, <1>7
  <2> QED BY <2>2, <2>3
<1> QED BY <1>6, <1>8, <1>9

LEMMA SameLengthIsSequence ==
  ASSUME NEW s, IsSequence(s), NEW r, r = [i \in DOMAIN s |-> r[i]]
  PROVE  IsSequence(r)
<1>1. Len(s) \in Nat /\ DOMAIN s = 1 .. Len(s)  BY SequenceDomain
<1> DEFINE T == {r[i] : i \in DOMAIN s}
<1>2. r \in [1 .. Len(s) -> T]  BY <1>1
<1>3. r \in Seq(T)  BY <1>1, <1>2, SeqDef
<1> QED BY <1>3, Zenon DEF IsSequence

LEMMA NoRowsShaped == IsSequence(<<>>)
<1>1. <<>> \in Seq({})  OBVIOUS
<1> QED BY <1>1, Zenon DEF IsSequence

(***************************************************************************)
(* One transaction.                                                        *)
(***************************************************************************)
LEMMA CounterTyped == ASSUME NEW t \in Tables PROVE CounterOf(t) \in Counters
BY DEF CounterOf, Tables, Counters

LEMMA InsertShape ==
  ASSUME NEW D, Shaped(D), NEW w, IsChange(w), w.do = "insert", NEW t \in Tables
  PROVE  /\ IsSequence(Written(D, w, t))
         /\ \A i \in DOMAIN D.rows[t] : /\ i \in DOMAIN Written(D, w, t)
                                       /\ Written(D, w, t)[i] = D.rows[t][i]
         /\ \A i \in DOMAIN Written(D, w, t) \ DOMAIN D.rows[t] :
              t = w.table /\ Written(D, w, t)[i] = w.row
<1>1. IsSequence(D.rows[t])  BY DEF Shaped
<1>2. CASE t = w.table
  <2>1. Written(D, w, t) = Append(D.rows[t], w.row)  BY <1>2 DEF Written
  <2> QED BY <1>1, <1>2, <2>1, AppendKeeps
<1>3. CASE t # w.table
  <2>1. Written(D, w, t) = D.rows[t]  BY <1>3 DEF Written
  <2> QED BY <1>1, <2>1
<1> QED BY <1>2, <1>3

LEMMA UpdateShape ==
  ASSUME NEW D, Shaped(D), NEW w, IsChange(w), w.do = "update", w.id \in Live(D, w.table),
         NEW t \in Tables
  PROVE  /\ IsSequence(Written(D, w, t))
         /\ DOMAIN Written(D, w, t) = DOMAIN D.rows[t]
         /\ \A i \in DOMAIN D.rows[t] :
              \/ Written(D, w, t)[i] = D.rows[t][i]
              \/ t = w.table /\ i = w.id /\ Written(D, w, t)[i] = With(D.rows[t][i], w.set)
<1>1. IsSequence(D.rows[t])  BY DEF Shaped
<1>2. CASE t = w.table
  <2>1. Written(D, w, t) = [D.rows[t] EXCEPT ![w.id] = With(D.rows[t][w.id], w.set)]
    BY <1>2 DEF Written, Row
  <2>2. DOMAIN Written(D, w, t) = DOMAIN D.rows[t]  BY <2>1
  <2>3. Written(D, w, t) = [i \in DOMAIN D.rows[t] |-> Written(D, w, t)[i]]
    BY <2>1
  <2>4. IsSequence(Written(D, w, t))  BY <1>1, <2>3, SameLengthIsSequence
  <2>5. w.id \in DOMAIN D.rows[t]  BY <1>2 DEF Live
  <2>6. \A i \in DOMAIN D.rows[t] :
              \/ Written(D, w, t)[i] = D.rows[t][i]
              \/ i = w.id /\ Written(D, w, t)[i] = With(D.rows[t][i], w.set)
    BY <2>1, <2>5
  <2> QED BY <1>2, <2>2, <2>4, <2>6
<1>3. CASE t # w.table
  <2>1. Written(D, w, t) = D.rows[t]  BY <1>3 DEF Written
  <2> QED BY <1>1, <2>1
<1> QED BY <1>2, <1>3

LEMMA DeleteShape ==
  ASSUME NEW D, Shaped(D), NEW w, IsChange(w), w.do = "delete", NEW t \in Tables
  PROVE  /\ IsSequence(Written(D, w, t))
         /\ DOMAIN Written(D, w, t) = DOMAIN D.rows[t]
         /\ \A i \in DOMAIN D.rows[t] :
              Written(D, w, t)[i] = D.rows[t][i] \/ Written(D, w, t)[i] = Deleted
<1>1. IsSequence(D.rows[t])  BY DEF Shaped
<1>2. CASE t = w.table
  <2> DEFINE r == [i \in DOMAIN D.rows[t] |-> IF i = w.id THEN Deleted ELSE D.rows[t][i]]
  <2>1. Written(D, w, t) = r  BY <1>2 DEF Written
  <2>2. IsSequence(r)  BY <1>1, SameLengthIsSequence
  <2> QED BY <2>1, <2>2
<1>3. CASE t # w.table /\ w.table = "projects" /\ t = "bindings"
  <2> DEFINE r == [b \in DOMAIN D.rows[t] |->
                     IF b \in BindingOf(D, w.id) THEN Deleted ELSE D.rows[t][b]]
  <2>1. Written(D, w, t) = r  BY <1>3 DEF Written
  <2>2. IsSequence(r)  BY <1>1, SameLengthIsSequence
  <2> QED BY <2>1, <2>2
<1>4. CASE t # w.table /\ ~(w.table = "projects" /\ t = "bindings")
  <2>1. Written(D, w, t) = D.rows[t]  BY <1>4 DEF Written
  <2> QED BY <1>1, <2>1
<1> QED BY <1>2, <1>3, <1>4

(* A committed change leaves a database of the same shape.                 *)
LEMMA CommitShape ==
  ASSUME NEW D, Shaped(D), NEW w, IsChange(w), Allowed(D, w)
  PROVE  LET E == Commit(D, w, D.version[CounterOf(w.table)])
         IN Shaped(E) /\ Follows(D, E)
<1> DEFINE E == Commit(D, w, D.version[CounterOf(w.table)])
<1>1. /\ DOMAIN E = {"rows", "version"} /\ DOMAIN E.rows = Tables
      /\ \A t \in Tables : E.rows[t] = Written(D, w, t)
  BY DEF Commit
<1>2. E.version \in [Counters -> Nat]
  <2>1. CounterOf(w.table) \in Counters  BY CounterTyped DEF IsChange
  <2>2. E.version = [D.version EXCEPT ![CounterOf(w.table)] = D.version[CounterOf(w.table)] + 1]
    BY DEF Commit, Bumped
  <2> QED BY <2>1, <2>2 DEF Shaped
<1> HIDE DEF E
<1>3. "bindings" \in Tables  BY DEF Tables
<1>4. CASE w.do = "insert"
  <2>1. \A t \in Tables : IsSequence(E.rows[t])  BY <1>1, <1>4, InsertShape
  <2>2. /\ \A b \in DOMAIN D.rows["bindings"] :
             b \in DOMAIN E.rows["bindings"] /\ E.rows["bindings"][b] = D.rows["bindings"][b]
        /\ \A b \in DOMAIN E.rows["bindings"] \ DOMAIN D.rows["bindings"] :
             w.table = "bindings" /\ E.rows["bindings"][b] = w.row
    BY <1>1, <1>3, <1>4, InsertShape
  <2>3. \A b \in Live(E, "bindings") : "project" \in DOMAIN Row(E, "bindings", b)
    BY <1>4, <2>2 DEF Shaped, Live, Row, IsChange
  <2>4. Follows(D, E)  BY <2>2 DEF Follows, Live, Row
  <2> QED BY <1>1, <1>2, <2>1, <2>3, <2>4 DEF Shaped, E
<1>5. CASE w.do = "update"
  <2>0. w.id \in Live(D, w.table)  BY <1>5 DEF Allowed
  <2>1. \A t \in Tables : IsSequence(E.rows[t])  BY <1>1, <1>5, <2>0, UpdateShape
  <2>2. /\ DOMAIN E.rows["bindings"] = DOMAIN D.rows["bindings"]
        /\ \A b \in DOMAIN D.rows["bindings"] :
             \/ E.rows["bindings"][b] = D.rows["bindings"][b]
             \/ /\ w.table = "bindings" /\ b = w.id
                /\ E.rows["bindings"][b] = With(D.rows["bindings"][b], w.set)
    BY <1>1, <1>3, <1>5, <2>0, UpdateShape
  <2>3. ASSUME NEW b \in DOMAIN D.rows["bindings"], b \in Live(E, "bindings")
        PROVE  /\ b \in Live(D, "bindings")
               /\ "project" \in DOMAIN Row(E, "bindings", b)
               /\ Row(E, "bindings", b).project = Row(D, "bindings", b).project
    <3>1. CASE E.rows["bindings"][b] = D.rows["bindings"][b]
      <4>1. b \in Live(D, "bindings")  BY <2>3, <3>1 DEF Live
      <4> QED BY <3>1, <4>1 DEF Shaped, Row
    <3>2. CASE /\ w.table = "bindings" /\ b = w.id
               /\ E.rows["bindings"][b] = With(D.rows["bindings"][b], w.set)
      <4>1. b \in Live(D, "bindings")  BY <2>0, <3>2
      <4>2. "project" \in DOMAIN D.rows["bindings"][b]  BY <4>1 DEF Shaped, Row
      <4>3. "project" \notin DOMAIN w.set  BY <1>5, <3>2 DEF IsChange
      <4>4. /\ DOMAIN With(D.rows["bindings"][b], w.set) = DOMAIN D.rows["bindings"][b]
            /\ With(D.rows["bindings"][b], w.set)["project"] = D.rows["bindings"][b]["project"]
        BY <4>2, <4>3 DEF With
      <4> QED BY <3>2, <4>1, <4>2, <4>4 DEF Row
    <3> QED BY <2>2, <3>1, <3>2
  <2>4. \A b \in Live(E, "bindings") : b \in DOMAIN D.rows["bindings"]
    BY <2>2 DEF Live
  <2>5. Follows(D, E)  BY <2>2, <2>3 DEF Follows
  <2> QED BY <1>1, <1>2, <2>1, <2>3, <2>4, <2>5 DEF Shaped, E
<1>6. CASE w.do = "delete"
  <2>1. \A t \in Tables : IsSequence(E.rows[t])  BY <1>1, <1>6, DeleteShape
  <2>2. /\ DOMAIN E.rows["bindings"] = DOMAIN D.rows["bindings"]
        /\ \A b \in DOMAIN D.rows["bindings"] :
             \/ E.rows["bindings"][b] = D.rows["bindings"][b]
             \/ E.rows["bindings"][b] = Deleted
    BY <1>1, <1>3, <1>6, DeleteShape
  <2>3. \A b \in Live(E, "bindings") :
          b \in Live(D, "bindings") /\ Row(E, "bindings", b) = Row(D, "bindings", b)
    BY <2>2 DEF Live, Row
  <2>4. \A b \in Live(E, "bindings") : "project" \in DOMAIN Row(E, "bindings", b)
    BY <2>3 DEF Shaped
  <2>5. Follows(D, E)  BY <2>2, <2>3 DEF Follows
  <2> QED BY <1>1, <1>2, <2>1, <2>4, <2>5 DEF Shaped, E
<1> QED BY <1>4, <1>5, <1>6 DEF IsChange, E

(***************************************************************************)
(* What administrators and the seed ask for.                               *)
(***************************************************************************)
Asks(w) == w.do # "refuse" => IsChange(w)

LEMMA AdministratorsAsk ==
  ASSUME NEW D, NEW p, NEW i, NEW set, NEW enabled
  PROVE  /\ Asks(UpdateProject(D, p, set))
         /\ Asks(DeleteProject(D, p))
         /\ Asks(UpdateSink(D, i, set))
         /\ Asks(DeleteSink(D, i))
         /\ Asks(AssignProcessor(D, p, i, enabled))
         /\ Asks(DeleteBinding(D, p))
<1>1. Asks(UpdateProject(D, p, set)) /\ Asks(DeleteProject(D, p))
  BY DEF Asks, IsChange, UpdateProject, DeleteProject, Refuse, Update, Delete, Tables
<1>2. Asks(UpdateSink(D, i, set)) /\ Asks(DeleteSink(D, i))
  BY DEF Asks, IsChange, UpdateSink, DeleteSink, Refuse, Update, Delete, Tables
<1>3. Asks(AssignProcessor(D, p, i, enabled))
  BY DEF Asks, IsChange, AssignProcessor, Refuse, Insert, Update, Tables
<1>4. Asks(DeleteBinding(D, p))
  BY DEF Asks, IsChange, DeleteBinding, Refuse, Delete, Tables
<1> QED BY <1>1, <1>2, <1>3, <1>4

(* What an instruction decides: to go on, to stop, or a write of its own.  *)
Decided(D, does) == does.write.do # "refuse" => StartWrite(D, does.write, does.mem)

LEMMA GoesOn == ASSUME NEW D, NEW mem, NEW error
                PROVE  Decided(D, Skip(mem)) /\ Decided(D, Stops(error))
BY DEF Decided, Skip, Stops, Refuse

(* An insertion into any table but the one of bindings.                    *)
LEMMA InsertDecided ==
  ASSUME NEW D, NEW w, NEW mem,
         w.do # "refuse" => w.do = "insert" /\ w.table \in Tables \ {"bindings"}
  PROVE  Decided(D, Writes(w, mem))
BY DEF Decided, Writes, StartWrite, IsChange

LEMMA EnsureTargetDecided ==
  ASSUME NEW D, NEW target, NEW mem PROVE Decided(D, EnsureTarget(D, target, mem))
<1> DEFINE w == CreateTarget(D, target)
           new == [mem EXCEPT !.target = Len(D.rows["targets"]) + 1]
           found == Having(D, "targets", "id", target.id)
<1>1. w.do # "refuse" => w.do = "insert" /\ w.table \in Tables \ {"bindings"}
  BY DEF CreateTarget, Refuse, Insert, Tables
<1>2. Decided(D, Writes(w, new))  BY <1>1, InsertDecided
<1>3. Decided(D, Skip([mem EXCEPT !.target = TheOne(found)]))  BY GoesOn
<1>4. EnsureTarget(D, target, mem) = Writes(w, new) \/
      EnsureTarget(D, target, mem) = Skip([mem EXCEPT !.target = TheOne(found)])
  BY DEF EnsureTarget
<1> QED BY <1>2, <1>3, <1>4

LEMMA CreateSinkDecided ==
  ASSUME NEW D, NEW row, NEW mem PROVE Decided(D, Writes(CreateSink(D, row), mem))
<1> DEFINE w == CreateSink(D, row)
<1>1. w.do # "refuse" => w.do = "insert" /\ w.table \in Tables \ {"bindings"}
  BY DEF CreateSink, Refuse, Insert, Tables
<1> QED BY <1>1, InsertDecided

LEMMA EnsureSinkDecided ==
  ASSUME NEW D, NEW id, NEW dest, NEW mem PROVE Decided(D, EnsureSink(D, id, dest, mem))
BY GoesOn, CreateSinkDecided DEF EnsureSink

LEMMA EnsureProjectDecided ==
  ASSUME NEW D, NEW token, NEW key, NEW mem PROVE Decided(D, EnsureProject(D, token, key, mem))
<1> DEFINE w == CreateProject(D, SeedProject(token, key))
<1>1. w.do # "refuse" => w.do = "insert" /\ w.table \in Tables \ {"bindings"}
  BY DEF CreateProject, Refuse, Insert, Tables
<1>2. Decided(D, Writes(w, mem))  BY <1>1, InsertDecided
<1> QED BY <1>2, GoesOn DEF EnsureProject

LEMMA EnsureScriptDecided ==
  ASSUME NEW D, NEW exists, NEW key, NEW source, NEW mem
  PROVE  Decided(D, EnsureScript(D, exists, key, source, mem))
<1> DEFINE w == CreateScript(D, SeedScript(key, source), EnabledSinkIds(D))
<1>1. w.do # "refuse" => w.do = "insert" /\ w.table \in Tables \ {"bindings"}
  BY DEF CreateScript, Refuse, Insert, Tables
<1>2. Decided(D, Writes(w, mem))  BY <1>1, InsertDecided
<1> QED BY <1>2, GoesOn DEF EnsureScript

(* The binding that is written again is the one of the project found.      *)
LEMMA BindingWritesDecided ==
  ASSUME NEW D, NEW mem, NEW script
  PROVE  /\ Decided(D, Writes(Insert("bindings", [project |-> mem.project, script |-> script,
                                                  enabled |-> TRUE]), mem))
         /\ \A b \in BindingOf(D, mem.project) :
              Decided(D, Writes(Update("bindings", b, [script |-> script, enabled |-> TRUE]), mem))
<1> DEFINE row == [project |-> mem.project, script |-> script, enabled |-> TRUE]
           set == [script |-> script, enabled |-> TRUE]
<1>1. "project" \in DOMAIN row /\ "project" \notin DOMAIN set  OBVIOUS
<1> HIDE DEF row, set
<1>2. Decided(D, Writes(Insert("bindings", row), mem))
  BY <1>1 DEF Decided, Writes, StartWrite, IsChange, Insert, Tables
<1>3. ASSUME NEW b \in BindingOf(D, mem.project)
      PROVE  Decided(D, Writes(Update("bindings", b, set), mem))
  <2>1. /\ b \in Live(D, "bindings") /\ Row(D, "bindings", b).project = mem.project
        /\ b \in DOMAIN D.rows["bindings"]
    BY <1>3 DEF BindingOf, Live
  <2> QED BY <1>1, <2>1 DEF Decided, Writes, StartWrite, IsChange, Update, Tables
<1> QED BY <1>2, <1>3 DEF row, set

LEMMA BindLoadtestDecided ==
  ASSUME NEW D, NEW mem PROVE Decided(D, BindLoadtest(D, mem))
<1>1. ASSUME NEW script PROVE Decided(D, Writes(AssignProcessor(D, mem.project, script, TRUE), mem))
  <2>1. ASSUME NEW error PROVE Decided(D, Writes(Refuse(error), mem))
    BY DEF Decided, Writes, Refuse
  <2> QED BY <2>1, BindingWritesDecided, Zenon DEF AssignProcessor
<1>2. Decided(D, Writes(AssignProcessor(D, mem.project,
                        TheOne(Having(D, "scripts", "key", LoadtestScript)), TRUE), mem))
  BY <1>1
<1> QED BY <1>2, GoesOn, Zenon DEF BindLoadtest

Instructions == {Seed[i] : i \in DOMAIN Seed}

LEMMA DecideDecided ==
  ASSUME NEW D, NEW step \in Instructions, NEW mem, step # "default_bindings"
  PROVE  Decided(D, Decide(step, D, mem))
<1>0. step \in {"local_kafka", "local_parquet", "missing_sinks", "default_stdout",
                "find_parquet", "parquet_events", "loadtest_blackhole", "loadtest_events",
                "test_app", "loadtest_app", "default_script", "loadtest_script",
                "find_loadtest", "bind_loadtest", "events", "events_error"}
  BY DEF Seed, Instructions
<1>1. CASE step \in {"local_kafka", "local_parquet", "default_stdout", "loadtest_blackhole"}
  BY <1>1, EnsureTargetDecided, GoesOn DEF Decide, DefaultSinks
<1>2. CASE step \in {"missing_sinks", "find_parquet", "find_loadtest"}
  BY <1>2, GoesOn DEF Decide, DefaultSinks
<1>3. CASE step \in {"events", "events_error"}
  BY <1>3, GoesOn, CreateSinkDecided DEF Decide, DefaultSinks
<1>4. CASE step \in {"parquet_events", "loadtest_events"}
  BY <1>4, EnsureSinkDecided DEF Decide, DefaultSinks
<1>5. CASE step \in {"test_app", "loadtest_app"}
  BY <1>5, EnsureProjectDecided DEF Decide, DefaultSinks
<1>6. CASE step \in {"default_script", "loadtest_script"}
  BY <1>6, EnsureScriptDecided DEF Decide, DefaultSinks
<1>7. CASE step = "bind_loadtest"
  BY <1>7, BindLoadtestDecided DEF Decide, DefaultSinks
<1> QED BY <1>0, <1>1, <1>2, <1>3, <1>4, <1>5, <1>6, <1>7

(***************************************************************************)
(* The bindings of the projects that have none.                            *)
(***************************************************************************)
LEMMA InARowIsSequence ==
  ASSUME NEW P, IsFiniteSet(P)
  PROVE  /\ Cardinality(P) \in Nat
         /\ InARow(P) \in [1 .. Cardinality(P) -> P]
<1>1. Cardinality(P) \in Nat /\ ExistsBijection(1 .. Cardinality(P), P)
  BY FS_CardinalityType
<1>2. PICK f \in Bijection(1 .. Cardinality(P), P) : TRUE  BY <1>1 DEF ExistsBijection
<1>3. /\ f \in [1 .. Cardinality(P) -> P]
      /\ \A p \in P : \E i \in DOMAIN f : f[i] = p
  BY <1>2 DEF Bijection, Surjection
<1> QED BY <1>1, <1>3, Zenon DEF InARow

LEMMA DefaultBindingsShape ==
  ASSUME NEW D, Shaped(D), Unbound(D) # {}
  PROVE  LET E == DefaultBindings(D)
         IN /\ Shaped(E)
            /\ Follows(D, E)
            /\ \A t \in Tables \ {"bindings"} : E.rows[t] = D.rows[t]
            /\ \A i \in Live(D, "bindings") : E.rows["bindings"][i] = D.rows["bindings"][i]
            /\ E.version["scripts"] = D.version["scripts"] + 1
<1> DEFINE P == Unbound(D)
           new == InARow(P)
           r == [i \in DOMAIN new |-> DefaultBinding(D, new[i])]
           E == DefaultBindings(D)
<1>0. "bindings" \in Tables /\ "projects" \in Tables /\ "scripts" \in Counters
  BY DEF Tables, Counters
<1>1. IsFiniteSet(P)
  <2>1. Len(D.rows["projects"]) \in Nat /\ DOMAIN D.rows["projects"] = 1 .. Len(D.rows["projects"])
    BY <1>0, SequenceDomain DEF Shaped
  <2>2. \A k \in Nat : IsFiniteSet(1 .. k)
    <3>1. 1 \in Int /\ \A k \in Nat : k \in Int  OBVIOUS
    <3> QED BY <3>1, FS_Interval, Zenon
  <2>3. P \in SUBSET (1 .. Len(D.rows["projects"]))  BY <2>1 DEF Unbound, Live
  <2> QED BY <2>1, <2>2, <2>3, FS_Subset
<1>2. Cardinality(P) \in Nat /\ new \in [1 .. Cardinality(P) -> P]  BY <1>1, InARowIsSequence
<1>3. \A j \in DOMAIN r : "project" \in DOMAIN r[j]  BY DEF DefaultBinding
<1>4. IsSequence(r)
  <2>1. IsSequence(new)
    <3>1. new \in Seq(P)  BY <1>2, SeqDef
    <3> QED BY <3>1, Zenon DEF IsSequence
  <2>2. r = [i \in DOMAIN new |-> r[i]]  OBVIOUS
  <2> QED BY <2>1, <2>2, SameLengthIsSequence
<1>5. E = [rows |-> [D.rows EXCEPT !["bindings"] = D.rows["bindings"] \o r],
           version |-> [D.version EXCEPT !["scripts"] = D.version["scripts"] + 1]]
  BY DEF DefaultBindings
<1> HIDE DEF r, E
<1>6. /\ DOMAIN E = {"rows", "version"} /\ DOMAIN E.rows = Tables
      /\ E.rows["bindings"] = D.rows["bindings"] \o r
      /\ \A t \in Tables \ {"bindings"} : E.rows[t] = D.rows[t]
      /\ E.version \in [Counters -> Nat]
      /\ E.version["scripts"] = D.version["scripts"] + 1
  BY <1>0, <1>5 DEF Shaped
<1>7. IsSequence(D.rows["bindings"])  BY <1>0 DEF Shaped
<1>8. /\ IsSequence(E.rows["bindings"])
      /\ \A i \in DOMAIN D.rows["bindings"] :
           i \in DOMAIN E.rows["bindings"] /\ E.rows["bindings"][i] = D.rows["bindings"][i]
      /\ \A i \in DOMAIN E.rows["bindings"] \ DOMAIN D.rows["bindings"] :
           \E j \in DOMAIN r : E.rows["bindings"][i] = r[j]
  <2>1. PICK s : s = D.rows["bindings"]  OBVIOUS
  <2>2. PICK e : e = E.rows["bindings"]  OBVIOUS
  <2>3. IsSequence(s) /\ e = s \o r  BY <1>6, <1>7, <2>1, <2>2
  <2>4. /\ IsSequence(e)
        /\ \A i \in DOMAIN s : i \in DOMAIN e /\ e[i] = s[i]
        /\ \A i \in DOMAIN e \ DOMAIN s : \E j \in DOMAIN r : e[i] = r[j]
    <3>1. /\ IsSequence(s \o r)
          /\ \A i \in DOMAIN s : i \in DOMAIN (s \o r) /\ (s \o r)[i] = s[i]
          /\ \A i \in DOMAIN (s \o r) \ DOMAIN s : \E j \in DOMAIN r : (s \o r)[i] = r[j]
      BY <1>4, <2>3, ConcatKeeps
    <3> QED BY <2>3, <3>1, Zenon
  <2> QED BY <2>1, <2>2, <2>4, Zenon
<1>9. \A t \in Tables : IsSequence(E.rows[t])  BY <1>6, <1>8 DEF Shaped
<1>10. \A b \in Live(E, "bindings") : "project" \in DOMAIN Row(E, "bindings", b)
  BY <1>3, <1>8 DEF Shaped, Live, Row
<1>11. Shaped(E)  BY <1>6, <1>9, <1>10 DEF Shaped
<1>12. Follows(D, E)  BY <1>8 DEF Follows, Live, Row
<1>13. \A i \in Live(D, "bindings") : E.rows["bindings"][i] = D.rows["bindings"][i]
  BY <1>8 DEF Live
<1> QED BY <1>6, <1>11, <1>12, <1>13 DEF E

(***************************************************************************)
(* The invariant: what a node is about to write is a row of the seed or    *)
(* the binding of the project it found.                                    *)
(***************************************************************************)
IsNode(D, x) ==
  /\ DOMAIN x = DOMAIN Down
  /\ x.pc \in {"seed", "write"} => x.step \in DOMAIN Seed
  /\ x.pc = "write" => StartWrite(D, x.write, x.mem)

StartInv ==
  /\ Shaped(db)
  /\ changes \in Nat
  /\ DOMAIN node = Nodes
  /\ \A n \in Nodes : IsNode(db, node[n])

LEMMA InitStart == Init => StartInv
<1> SUFFICES ASSUME Init PROVE StartInv  OBVIOUS
<1>1. Shaped(db)
  <2>1. Live(db, "bindings") = {}  BY DEF Init, Live, Tables
  <2> QED BY <2>1, NoRowsShaped DEF Init, Shaped
<1>2. IsNode(db, Down)  BY DEF IsNode, Down
<1> QED BY <1>1, <1>2 DEF Init, StartInv

(* A node that is left alone stays right while the database moves on.      *)
LEMMA NodeFollows ==
  ASSUME NEW D, NEW E, Follows(D, E), NEW x, IsNode(D, x)
  PROVE  IsNode(E, x)
<1>1. ASSUME StartWrite(D, x.write, x.mem) PROVE StartWrite(E, x.write, x.mem)
  BY <1>1 DEF Follows, StartWrite
<1> QED BY <1>1 DEF IsNode

(* A step of one node, or of none.                                         *)
LEMMA NodeMoves ==
  ASSUME StartInv, NEW n \in Nodes, NEW state, Goes(n, state), IsNode(db', state),
         Shaped(db'), Follows(db, db'), changes' \in Nat
  PROVE  StartInv'
<1>1. DOMAIN node' = Nodes /\ \A m \in Nodes : node'[m] = IF m = n THEN state ELSE node[m]
  BY DEF StartInv, Goes
<1>2. \A m \in Nodes : IsNode(db', node[m])  BY NodeFollows DEF StartInv
<1>3. \A m \in Nodes : IsNode(db', node'[m])  BY <1>1, <1>2
<1> QED BY <1>1, <1>3 DEF StartInv

LEMMA OthersMove ==
  ASSUME StartInv, UNCHANGED node, Shaped(db'), Follows(db, db'), changes' \in Nat
  PROVE  StartInv'
<1>1. \A m \in Nodes : IsNode(db', node[m])  BY NodeFollows DEF StartInv
<1> QED BY <1>1 DEF StartInv

LEMMA FollowsItself == ASSUME StartInv, UNCHANGED db PROVE Shaped(db') /\ Follows(db, db')
BY DEF StartInv, Follows

(***************************************************************************)
(* The steps.                                                              *)
(***************************************************************************)
Kept == changes' = changes => \A t \in Tables : Keeps(t)
Counted == \A t \in Tables : changes' = changes /\ db'.rows[t] # db.rows[t] =>
             db'.version[CounterOf(t)] > db.version[CounterOf(t)]

LEMMA QuietStep == ASSUME UNCHANGED db PROVE Kept /\ Counted
BY DEF Kept, Counted, Keeps, Row

(* A node goes on in its start, and the database is as it was.             *)
LEMMA QuietMove ==
  ASSUME StartInv, NEW n \in Nodes, NEW state, Goes(n, state), IsNode(db, state),
         UNCHANGED <<db, changes>>
  PROVE  StartInv' /\ Kept /\ Counted
<1>1. Shaped(db') /\ Follows(db, db') /\ db' = db  BY FollowsItself
<1>2. changes' \in Nat  BY DEF StartInv
<1> QED BY <1>1, <1>2, NodeMoves, QuietStep

LEMMA DownIsNode == ASSUME NEW D PROVE IsNode(D, Down)
BY DEF IsNode, Down

LEMMA StateIsNode ==
  ASSUME NEW D, NEW x, DOMAIN x = DOMAIN Down, x.pc \notin {"seed", "write"}
  PROVE  IsNode(D, x)
BY DEF IsNode

LEMMA SomeChanges == ASSUME StartInv PROVE changes + 1 \in Nat /\ changes + 1 # changes
BY DEF StartInv

LEMMA OnwardIsNode ==
  ASSUME StartInv, NEW n \in Nodes, node[n].pc \in {"seed", "write"}, NEW D, NEW mem
  PROVE  IsNode(D, Onward(n, mem))
<1>1. /\ DOMAIN node[n] = DOMAIN Down /\ node[n].step \in DOMAIN Seed  BY DEF StartInv, IsNode
<1>2. node[n].step \in 1 .. 17 /\ Len(Seed) = 17  BY <1>1 DEF Seed
<1> DEFINE x == Onward(n, mem)
<1>3. /\ DOMAIN x = DOMAIN Down
      /\ x.pc = IF node[n].step = 17 THEN "load" ELSE "seed"
      /\ x.step = node[n].step + 1
  BY <1>1, <1>2 DEF Onward, Down
<1>4. x.pc \in {"seed", "write"} => x.step \in 1 .. 17  BY <1>2, <1>3
<1>5. DOMAIN Seed = 1 .. 17  BY DEF Seed
<1> QED BY <1>3, <1>4, <1>5 DEF IsNode

LEMMA LookStep ==
  ASSUME StartInv, NEW n \in Nodes, Look(n) PROVE StartInv' /\ Kept /\ Counted
<1> DEFINE does == Decide(Seed[node[n].step], db, node[n].mem)
<1>1. UNCHANGED <<db, changes>>  BY DEF Look, Exits, bounds
<1>2. /\ node[n].pc = "seed" /\ node[n].step \in DOMAIN Seed /\ DOMAIN node[n] = DOMAIN Down
  BY DEF Look, StartInv, IsNode
<1>3. Decided(db, does)
  <2>1. Seed[node[n].step] \in Instructions  BY <1>2 DEF Instructions
  <2> QED BY <2>1, DecideDecided DEF Look
<1> HIDE DEF does
<1>4. \/ Goes(n, Onward(n, does.mem))
      \/ Goes(n, Down)
      \/ /\ does.write.do # "refuse"
         /\ Goes(n, [node[n] EXCEPT !.pc = "write", !.write = does.write, !.mem = does.mem])
  BY DEF Look, Exits, does
<1>5. CASE Goes(n, Onward(n, does.mem))
  <2>1. IsNode(db, Onward(n, does.mem))  BY <1>2, OnwardIsNode
  <2> QED BY <1>1, <1>5, <2>1, QuietMove
<1>6. CASE Goes(n, Down)  BY <1>1, <1>6, QuietMove, DownIsNode
<1>7. CASE /\ does.write.do # "refuse"
           /\ Goes(n, [node[n] EXCEPT !.pc = "write", !.write = does.write, !.mem = does.mem])
  <2> DEFINE x == [node[n] EXCEPT !.pc = "write", !.write = does.write, !.mem = does.mem]
  <2>1. /\ DOMAIN x = DOMAIN Down /\ x.step = node[n].step
        /\ x.write = does.write /\ x.mem = does.mem
    BY <1>2 DEF Down
  <2>2. StartWrite(db, does.write, does.mem)  BY <1>3, <1>7 DEF Decided
  <2> HIDE DEF x
  <2>3. IsNode(db, x)  BY <1>2, <2>1, <2>2 DEF IsNode
  <2>4. Goes(n, x)  BY <1>7 DEF x
  <2> QED BY <1>1, <2>3, <2>4, QuietMove
<1> QED BY <1>4, <1>5, <1>6, <1>7

LEMMA WriteKeeps ==
  ASSUME Shaped(db), NEW n \in Nodes, NEW w, StartWrite(db, w, node[n].mem), Allowed(db, w),
         db' = Commit(db, w, db.version[CounterOf(w.table)])
  PROVE  Kept /\ Counted
<1>1. \A t \in Tables : db'.rows[t] = Written(db, w, t)  BY DEF Commit
<1>2. IsChange(w) /\ w.do \in {"insert", "update"} /\ w.table \in Tables
  BY DEF StartWrite, IsChange
<1>3. ASSUME w.do = "insert" PROVE Kept
  <2>1. \A t \in Tables : \A i \in DOMAIN db.rows[t] : db'.rows[t][i] = db.rows[t][i]
    BY <1>1, <1>2, <1>3, InsertShape
  <2> QED BY <2>1 DEF Kept, Keeps, Live, Row
<1>4. ASSUME w.do = "update" PROVE Kept
  <2>1. w.table = "bindings" /\ w.id \in Live(db, "bindings")
    BY <1>4 DEF StartWrite, Allowed
  <2>2. \A t \in Tables : \A i \in DOMAIN db.rows[t] :
          \/ db'.rows[t][i] = db.rows[t][i]
          \/ t = "bindings" /\ i = w.id
    BY <1>1, <1>2, <1>4, <2>1, UpdateShape
  <2>3. Row(db, "bindings", w.id).project = node[n].mem.project
    BY <1>4, <2>1 DEF StartWrite
  <2>4. db'.rows["bindings"][w.id].project = Row(db, "bindings", w.id).project
    <3>1. /\ "bindings" \in Tables /\ w.id \in DOMAIN db.rows["bindings"]
      BY <2>1 DEF Live, Tables
    <3>2. \/ db'.rows["bindings"][w.id] = db.rows["bindings"][w.id]
          \/ db'.rows["bindings"][w.id] = With(db.rows["bindings"][w.id], w.set)
      BY <1>1, <1>2, <1>4, <2>1, <3>1, UpdateShape
    <3>3. "project" \in DOMAIN db.rows["bindings"][w.id]  BY <2>1 DEF Shaped, Row
    <3>4. "project" \notin DOMAIN w.set  BY <1>2, <1>4, <2>1 DEF IsChange
    <3>5. With(db.rows["bindings"][w.id], w.set)["project"] = db.rows["bindings"][w.id]["project"]
      BY <3>3, <3>4 DEF With
    <3> QED BY <3>2, <3>5 DEF Row
  <2> QED BY <2>2, <2>3, <2>4 DEF Kept, Keeps, Live, Row
<1>5. Kept  BY <1>2, <1>3, <1>4
<1>6. Counted
  <2>1. ASSUME NEW t \in Tables, db'.rows[t] # db.rows[t] PROVE t = w.table
    BY <1>1, <1>2, <2>1 DEF Written
  <2>2. db'.version[CounterOf(w.table)] > db.version[CounterOf(w.table)]
    <3>1. CounterOf(w.table) \in Counters  BY <1>2, CounterTyped
    <3>2. db'.version = [db.version EXCEPT ![CounterOf(w.table)] = db.version[CounterOf(w.table)] + 1]
      BY DEF Commit, Bumped
    <3> QED BY <3>1, <3>2 DEF Shaped
  <2> QED BY <2>1, <2>2 DEF Counted
<1> QED BY <1>5, <1>6

LEMMA WriteStep ==
  ASSUME StartInv, NEW n \in Nodes, Write(n) PROVE StartInv' /\ Kept /\ Counted
<1> DEFINE w == node[n].write
<1>1. UNCHANGED changes /\ changes' \in Nat  BY DEF Write, bounds, StartInv
<1>2. node[n].pc = "write" /\ StartWrite(db, w, node[n].mem)  BY DEF Write, StartInv, IsNode
<1> HIDE DEF w
<1>3. CASE /\ Allowed(db, w)
           /\ db' = Commit(db, w, db.version[CounterOf(w.table)])
           /\ Goes(n, Onward(n, node[n].mem))
  <2>1. Shaped(db') /\ Follows(db, db')  BY <1>2, <1>3, CommitShape DEF StartWrite, StartInv
  <2>2. IsNode(db', Onward(n, node[n].mem))  BY <1>2, OnwardIsNode
  <2>3. StartInv'  BY <1>1, <1>3, <2>1, <2>2, NodeMoves
  <2> QED BY <1>2, <1>3, <2>3, WriteKeeps DEF StartInv
<1>4. CASE Exits(n)
  BY <1>1, <1>4, QuietMove, DownIsNode DEF Exits
<1> QED BY <1>3, <1>4 DEF Write, w

LEMMA BindDefaultsStep ==
  ASSUME StartInv, NEW n \in Nodes, BindDefaults(n) PROVE StartInv' /\ Kept /\ Counted
<1>1. UNCHANGED changes /\ changes' \in Nat  BY DEF BindDefaults, bounds, StartInv
<1>2. node[n].pc = "seed"  BY DEF BindDefaults
<1> DEFINE next == Onward(n, node[n].mem)
<1>3. \A D : IsNode(D, next)  BY <1>2, OnwardIsNode
<1>4. Exits(n) \/ (db' = DefaultBindings(db) /\ Goes(n, next))  BY DEF BindDefaults
<1> HIDE DEF next
<1>5. CASE Exits(n)  BY <1>1, <1>5, QuietMove, DownIsNode DEF Exits
<1>6. CASE Goes(n, next) /\ db' = DefaultBindings(db) /\ Unbound(db) = {}
  <2>1. UNCHANGED db  BY <1>6 DEF DefaultBindings
  <2> QED BY <1>1, <1>3, <1>6, <2>1, QuietMove
<1>7. CASE Goes(n, next) /\ db' = DefaultBindings(db) /\ Unbound(db) # {}
  <2>1. /\ Shaped(db') /\ Follows(db, db')
        /\ \A t \in Tables \ {"bindings"} : db'.rows[t] = db.rows[t]
        /\ \A i \in Live(db, "bindings") : db'.rows["bindings"][i] = db.rows["bindings"][i]
        /\ db'.version["scripts"] = db.version["scripts"] + 1
    BY <1>7, DefaultBindingsShape DEF StartInv
  <2>2. StartInv'  BY <1>1, <1>3, <1>7, <2>1, NodeMoves
  <2>3. Kept
    <3>1. \A t \in Tables : \A i \in Live(db, t) : db'.rows[t][i] = db.rows[t][i]
      BY <2>1 DEF Live
    <3> QED BY <3>1 DEF Kept, Keeps, Row
  <2>4. Counted
    <3>1. db'.version["scripts"] > db.version["scripts"]
      BY <2>1 DEF StartInv, Shaped, Counters
    <3>2. CounterOf("bindings") = "scripts"  BY DEF CounterOf
    <3> QED BY <2>1, <3>1, <3>2 DEF Counted
  <2> QED BY <2>2, <2>3, <2>4
<1> QED BY <1>4, <1>5, <1>6, <1>7

(* The steps of a node that do not write the configuration.                *)
LEMMA OwnStep ==
  ASSUME StartInv, NEW n \in Nodes,
         \/ Start(n) \/ Load(n) \/ Bind(n) \/ FindRow(n) \/ PutRow(n) \/ Beat(n) \/ Mark(n)
         \/ Fails(n) \/ Crash(n)
  PROVE  StartInv' /\ Kept /\ Counted
<1>1. UNCHANGED <<db, changes>>
  BY DEF Start, Load, Bind, FindRow, PutRow, Beat, Mark, Fails, Crash, Exits, NotRegistered, bounds
<1>2. DOMAIN node[n] = DOMAIN Down  BY DEF StartInv, IsNode
<1> DEFINE Sane(x) == IsNode(db, x)
<1>3. Sane(Down) /\ Sane([Down EXCEPT !.pc = "seed", !.step = 1])
  <2>1. 1 \in DOMAIN Seed  BY DEF Seed
  <2>2. [Down EXCEPT !.pc = "seed", !.step = 1].pc = "seed"
        /\ [Down EXCEPT !.pc = "seed", !.step = 1].step = 1
        /\ DOMAIN [Down EXCEPT !.pc = "seed", !.step = 1] = DOMAIN Down
    BY DEF Down
  <2> QED BY <2>1, <2>2, DownIsNode DEF IsNode
<1>4. Sane([Down EXCEPT !.pc = "find", !.status = "starting"])
  BY DEF IsNode, Down
<1>5. \A pc \in {"put", "bind", "find", "sleep", "mark"} : Sane([node[n] EXCEPT !.pc = pc])
  BY <1>2 DEF IsNode, Down
<1>6. \A found : Sane([node[n] EXCEPT !.pc = "put", !.found = found])
  BY <1>2 DEF IsNode, Down
<1>7. Sane([node[n] EXCEPT !.pc = "sleep", !.started = TRUE])
  BY <1>2 DEF IsNode, Down
<1>8. Sane([node[n] EXCEPT !.pc = "find", !.status = "running"])
  BY <1>2 DEF IsNode, Down
<1>9. Sane(AfterRegister(n))
  BY <1>5, <1>7 DEF AfterRegister
<1> HIDE DEF Sane
<1>10. \E state : Goes(n, state) /\ Sane(state)
  <2>1. CASE Start(n)  BY <1>3, <2>1 DEF Start
  <2>2. CASE Load(n)  BY <1>3, <1>4, <2>2 DEF Load, Exits
  <2>3. CASE Bind(n)  BY <1>8, <2>3 DEF Bind
  <2>4. CASE FindRow(n)  BY <1>6, <2>4 DEF FindRow
  <2>5. ASSUME NotRegistered(n) PROVE \E state : Goes(n, state) /\ Sane(state)
    BY <1>3, <1>5, <2>5 DEF NotRegistered, Exits
  <2>6. CASE PutRow(n)  BY <1>9, <2>5, <2>6 DEF PutRow
  <2>7. CASE Beat(n)
    <3>1. \E pc \in {"find", "mark"} : Goes(n, [node[n] EXCEPT !.pc = pc])
      BY <2>7 DEF Beat
    <3> QED BY <1>5, <3>1
  <2>8. CASE Mark(n)  BY <1>5, <2>8 DEF Mark
  <2>9. CASE Fails(n)  BY <2>5, <2>9 DEF Fails
  <2>10. CASE Crash(n)  BY <1>3, <2>10 DEF Crash, Exits
  <2> QED BY <2>1, <2>2, <2>3, <2>4, <2>6, <2>7, <2>8, <2>9, <2>10
<1>11. PICK state : Goes(n, state) /\ Sane(state)  BY <1>10
<1> QED BY <1>1, <1>11, QuietMove DEF Sane

LEMMA AdministersStep ==
  ASSUME StartInv, NEW w, Asks(w), Administers(w) PROVE StartInv' /\ Kept /\ Counted
<1>1. /\ UNCHANGED node /\ changes' = changes + 1 /\ Allowed(db, w)
      /\ db' = Commit(db, w, db.version[CounterOf(w.table)])
  BY DEF Administers, MayChange
<1>2. IsChange(w)  BY <1>1 DEF Asks, Allowed
<1>3. Shaped(db') /\ Follows(db, db')  BY <1>1, <1>2, CommitShape DEF StartInv
<1>4. changes' \in Nat /\ changes' # changes  BY <1>1, SomeChanges
<1>5. StartInv'  BY <1>1, <1>3, <1>4, OthersMove
<1> QED BY <1>4, <1>5 DEF Kept, Counted

LEMMA AdministerStep ==
  ASSUME StartInv, Administer PROVE StartInv' /\ Kept /\ Counted
<1>1. CASE \E w : Asks(w) /\ Administers(w)  BY <1>1, AdministersStep
<1>2. CASE \E n \in Nodes : DeleteNode(n)
  <2>1. UNCHANGED <<db, node>> /\ changes' = changes + 1  BY <1>2 DEF DeleteNode, MayChange
  <2>2. changes' \in Nat /\ Shaped(db') /\ Follows(db, db')
    BY <2>1, SomeChanges, FollowsItself
  <2> QED BY <2>1, <2>2, OthersMove, QuietStep
<1>3. CASE ChangeProject
  <2>1. PICK p \in Live(db, "projects"), set \in ProjectChanges :
               Administers(UpdateProject(db, p, set))
    BY <1>3 DEF ChangeProject
  <2> QED BY <1>1, <2>1, AdministratorsAsk
<1>4. CASE DeleteAProject
  <2>1. PICK p \in Live(db, "projects") : Administers(DeleteProject(db, p))
    BY <1>4 DEF DeleteAProject
  <2> QED BY <1>1, <2>1, AdministratorsAsk
<1>5. CASE DisableSink
  <2>1. PICK s \in Live(db, "sinks") : Administers(UpdateSink(db, s, [enabled |-> FALSE]))
    BY <1>5 DEF DisableSink
  <2> QED BY <1>1, <2>1, AdministratorsAsk
<1>6. CASE RemoveSink
  <2>1. PICK s \in Live(db, "sinks") : Administers(DeleteSink(db, s))  BY <1>6 DEF RemoveSink
  <2> QED BY <1>1, <2>1, AdministratorsAsk
<1>7. CASE Assign
  <2>1. PICK p \in Live(db, "projects"), i \in Live(db, "scripts") :
               Administers(AssignProcessor(db, p, i, TRUE))
    BY <1>7 DEF Assign
  <2> QED BY <1>1, <2>1, AdministratorsAsk
<1>8. CASE Unassign
  <2>1. PICK p \in Live(db, "projects") : Administers(DeleteBinding(db, p))
    BY <1>8 DEF Unassign
  <2> QED BY <1>1, <2>1, AdministratorsAsk
<1> QED BY <1>2, <1>3, <1>4, <1>5, <1>6, <1>7, <1>8 DEF Administer

LEMMA StartInvNext ==
  ASSUME StartInv, [Next]_vars PROVE StartInv' /\ Kept /\ Counted
<1>1. CASE UNCHANGED vars
  BY <1>1, OthersMove, FollowsItself, QuietStep DEF vars, bounds, StartInv
<1>2. CASE Tick
  BY <1>2, OthersMove, FollowsItself, QuietStep DEF Tick, bounds, StartInv
<1>3. CASE Administer  BY <1>3, AdministerStep
<1>4. ASSUME NEW n \in Nodes, Starting(n) \/ Registering(n) \/ Fails(n) \/ Crash(n)
      PROVE  StartInv' /\ Kept /\ Counted
  BY <1>4, LookStep, WriteStep, BindDefaultsStep, OwnStep DEF Starting, Registering
<1> QED BY <1>1, <1>2, <1>3, <1>4 DEF Next

(***************************************************************************)
(* The theorems.                                                           *)
(***************************************************************************)

(* A node is always about to write a row of the seed, or the binding of    *)
(* the project it found, whatever others do before it writes.              *)
THEOREM StartInvariant == Spec => []StartInv
<1>1. StartInv /\ [Next]_vars => StartInv'  BY StartInvNext
<1> QED BY <1>1, InitStart, PTL DEF Spec

(* Starts add rows, and keep what administrators made of the rows that are *)
(* there (db/seed.rs): but for the binding of the project that a start     *)
(* found by the load test's token.                                         *)
THEOREM StartsKeepRows == Spec => StartsOnlyAdd
<1>1. StartInv /\ [Next]_vars => [changes' = changes => \A t \in Tables : Keeps(t)]_vars
  BY StartInvNext DEF Kept
<1> QED BY <1>1, StartInvariant, PTL DEF Spec, StartsOnlyAdd

(* No change that a start makes escapes the nodes already running: the     *)
(* counter their registries watch moves in the same transaction.           *)
THEOREM StartsAreCounted == Spec => ChangesAreCounted
<1>1. StartInv /\ [Next]_vars =>
        [\A t \in Tables : changes' = changes /\ db'.rows[t] # db.rows[t] =>
           db'.version[CounterOf(t)] > db.version[CounterOf(t)]]_vars
  BY StartInvNext DEF Counted
<1> QED BY <1>1, StartInvariant, PTL DEF Spec, ChangesAreCounted

---------------------------------------------------------------------------
(* The types of what a start remembers and writes.                         *)
Memory == [target : Nat, missing : SUBSET DefaultSinks, project : Nat]

TargetSteps == {"local_kafka", "local_parquet", "default_stdout", "loadtest_blackhole"}
SinkSteps == {"events", "events_error", "parquet_events", "loadtest_events"}
ProjectSteps == {"test_app", "loadtest_app"}
ScriptSteps == {"default_script", "loadtest_script"}

(* The row an instruction inserts.                                         *)
SeedRow(step, t, row) ==
  \/ step \in TargetSteps /\ t = "targets" /\ row \in TargetRow
  \/ step \in SinkSteps /\ t = "sinks" /\ row \in SinkRow /\ row.enabled /\ row.id = step
  \/ /\ step \in ProjectSteps /\ t = "projects" /\ row \in ProjectRow /\ row.enabled
     /\ row.token = IF step = "test_app" THEN TestToken ELSE LoadtestToken
  \/ step \in ScriptSteps /\ t = "scripts" /\ row \in ScriptRow

(* The last one gives the load test's project its script.                  *)
Loadtest(script) == [script |-> script, enabled |-> TRUE]
LoadtestRow(project, script) == [project |-> project, script |-> script, enabled |-> TRUE]
LoadtestWrite(w) ==
  \/ \E p, s \in Nat : w = Insert("bindings", LoadtestRow(p, s))
  \/ \E b, s \in Nat : w = Update("bindings", b, Loadtest(s))

WriteTyped(step, w) ==
  IF step = "bind_loadtest" THEN LoadtestWrite(w)
  ELSE w = Insert(w.table, w.row) /\ SeedRow(step, w.table, w.row)

LEMMA SeedRowTyped ==
  ASSUME NEW step, NEW t, NEW row, SeedRow(step, t, row)
  PROVE  t \in Tables /\ row \in Rows[t]
BY TablesAre DEF SeedRow

LEMMA VersionIsNat ==
  ASSUME NEW D, IsDatabase(D), NEW t \in Tables PROVE D.version[CounterOf(t)] \in Nat
BY CounterTyped DEF IsDatabase

LEMMA BindingWithScript ==
  ASSUME NEW D, IsDatabase(D), NEW b \in Live(D, "bindings"), NEW s \in Nat
  PROVE  /\ With(Row(D, "bindings", b), Loadtest(s)) \in BindingRow
         /\ With(Row(D, "bindings", b), Loadtest(s)) =
              LoadtestRow(Row(D, "bindings", b).project, s)
<1>1. PICK row \in BindingRow : row = Row(D, "bindings", b)  BY TableTyped, TablesAre
<1> DEFINE set == Loadtest(s)
           new == With(row, set)
<1>2. /\ DOMAIN row = {"project", "script", "enabled"} /\ row.project \in Nat
      /\ DOMAIN set = {"script", "enabled"} /\ set["script"] = s /\ set["enabled"] = TRUE
  BY DEF BindingRow, Loadtest
<1> HIDE DEF set
<1>3. /\ DOMAIN new = {"project", "script", "enabled"}
      /\ new = [c \in DOMAIN row |-> new[c]]
      /\ new["project"] = row["project"] /\ new["script"] = s /\ new["enabled"] = TRUE
  BY <1>2 DEF With
<1> HIDE DEF new
<1>4. new = LoadtestRow(row.project, s)  BY <1>2, <1>3 DEF LoadtestRow
<1>5. LoadtestRow(row.project, s) \in BindingRow  BY <1>2 DEF LoadtestRow, BindingRow
<1> QED BY <1>1, <1>4, <1>5 DEF new, set

(* What a start has written leaves the tables typed.                       *)
LEMMA StartWriteTyped ==
  ASSUME NEW D, IsDatabase(D), NEW step, NEW w, WriteTyped(step, w), Allowed(D, w)
  PROVE  IsDatabase(Commit(D, w, D.version[CounterOf(w.table)]))
<1>1. ASSUME NEW t \in Tables, NEW row \in Rows[t], w = Insert(t, row)
      PROVE  IsDatabase(Commit(D, w, D.version[CounterOf(w.table)]))
  <2>1. w.table = t  BY <1>1 DEF Insert
  <2>2. D.version[CounterOf(t)] \in Nat  BY VersionIsNat
  <2> QED BY <1>1, <2>1, <2>2, InsertWrites
<1>2. ASSUME NEW b \in Nat, NEW s \in Nat, w = Update("bindings", b, Loadtest(s))
      PROVE  IsDatabase(Commit(D, w, D.version[CounterOf(w.table)]))
  <2>1. w.do = "update" /\ w.table = "bindings" /\ w.id = b  BY <1>2 DEF Update
  <2>2. b \in Live(D, "bindings") /\ "bindings" \in Tables
    BY <2>1, TablesAre DEF Allowed
  <2>3. With(Row(D, "bindings", b), Loadtest(s)) \in Rows["bindings"]
    BY <2>2, BindingWithScript, TablesAre
  <2>4. D.version[CounterOf("bindings")] \in Nat  BY <2>2, VersionIsNat
  <2> QED BY <1>2, <2>1, <2>2, <2>3, <2>4, UpdateWrites
<1>3. ASSUME NEW p \in Nat, NEW s \in Nat
      PROVE  LoadtestRow(p, s) \in Rows["bindings"] /\ "bindings" \in Tables
  BY TablesAre DEF LoadtestRow, BindingRow
<1>4. CASE step = "bind_loadtest"
  BY <1>1, <1>2, <1>3, <1>4 DEF WriteTyped, LoadtestWrite
<1>5. CASE step # "bind_loadtest"
  BY <1>1, <1>5, SeedRowTyped DEF WriteTyped
<1> QED BY <1>4, <1>5

(* What an instruction decides has these types.                            *)
TypedOutcome(step, does) ==
  /\ does.mem \in Memory
  /\ does.write.do # "refuse" => WriteTyped(step, does.write)

LEMMA SkipTyped ==
  ASSUME NEW step, NEW mem \in Memory, NEW error
  PROVE  TypedOutcome(step, Skip(mem)) /\ TypedOutcome(step, Stops(error))
BY DEF TypedOutcome, Skip, Stops, Refuse, Memory, Nothing

LEMMA InsertTyped ==
  ASSUME NEW step, step # "bind_loadtest", NEW mem \in Memory, NEW w, NEW t, NEW row,
         w.do # "refuse" => w = Insert(t, row) /\ SeedRow(step, t, row)
  PROVE  TypedOutcome(step, Writes(w, mem))
BY DEF TypedOutcome, Writes, WriteTyped, Insert

LEMMA StepsDiffer ==
  /\ "bind_loadtest" \notin TargetSteps \cup SinkSteps \cup ProjectSteps \cup ScriptSteps
  /\ DefaultSinks \subseteq SinkSteps
BY DEF TargetSteps, SinkSteps, ProjectSteps, ScriptSteps, DefaultSinks

LEMMA HavingIsLive ==
  ASSUME NEW D, IsDatabase(D), NEW t \in Tables, NEW column, NEW value,
         NEW i \in Having(D, t, column, value)
  PROVE  i \in Live(D, t) /\ i \in Nat /\ i # 0
BY TableTyped DEF Having

LEMMA EnsureTargetTyped ==
  ASSUME NEW D, IsDatabase(D), NEW step \in TargetSteps, NEW target \in TargetRow,
         NEW mem \in Memory
  PROVE  TypedOutcome(step, EnsureTarget(D, target, mem))
<1> DEFINE w == CreateTarget(D, target)
           found == Having(D, "targets", "id", target.id)
           old == [mem EXCEPT !.target = TheOne(found)]
           new == [mem EXCEPT !.target = Len(D.rows["targets"]) + 1]
<1>0. "targets" \in Tables  BY TablesAre
<1>1. ASSUME found # {} PROVE old \in Memory
  <2>1. TheOne(found) \in found  BY <1>1 DEF TheOne
  <2>2. TheOne(found) \in Nat  BY <1>0, <2>1, HavingIsLive
  <2> QED BY <2>2 DEF Memory
<1>2. new \in Memory  BY <1>0, TableTyped DEF Memory
<1>3. w.do # "refuse" => w = Insert("targets", target)  BY DEF CreateTarget, Refuse
<1>4. SeedRow(step, "targets", target)  BY DEF SeedRow
<1> HIDE DEF w, old, new
<1>5. TypedOutcome(step, Writes(w, new))  BY <1>2, <1>3, <1>4, StepsDiffer, InsertTyped
<1>6. CASE found # {}
  BY <1>1, <1>6, SkipTyped DEF EnsureTarget, old
<1>7. CASE found = {}
  BY <1>5, <1>7 DEF EnsureTarget, w, new
<1> QED BY <1>6, <1>7

LEMMA CreateSinkTyped ==
  ASSUME NEW D, IsDatabase(D), NEW step \in SinkSteps, NEW dest, NEW mem \in Memory
  PROVE  TypedOutcome(step, Writes(CreateSink(D, SeedSink(step, mem.target, dest)), mem))
<1> DEFINE row == SeedSink(step, mem.target, dest)
           w == CreateSink(D, row)
<1>1. w.do # "refuse" => w = Insert("sinks", row) /\ FitsItsTarget(D, row)
  BY DEF CreateSink, Refuse, FitsItsTarget
<1>2. /\ row.id = step /\ row.enabled = TRUE
      /\ row = [id |-> step, target |-> row.target, dest |-> row.dest, enabled |-> TRUE]
  BY DEF SeedSink
<1> HIDE DEF row, w
<1>3. step \in SinkIds  BY NodeStartAssumption DEF SinkSteps, DefaultSinks
<1>4. w.do # "refuse" => row.target \in Nat /\ row.dest \in Dests  BY <1>1, FittingIsTyped
<1>5. w.do # "refuse" => row \in SinkRow  BY <1>2, <1>3, <1>4 DEF SinkRow
<1>6. w.do # "refuse" => SeedRow(step, "sinks", row)  BY <1>2, <1>5 DEF SeedRow
<1> QED BY <1>1, <1>6, StepsDiffer, InsertTyped DEF w, row

LEMMA EnsureProjectTyped ==
  ASSUME NEW D, NEW step \in ProjectSteps, NEW mem \in Memory,
         NEW token, token = IF step = "test_app" THEN TestToken ELSE LoadtestToken
  PROVE  TypedOutcome(step, EnsureProject(D, token, step, mem))
<1> DEFINE row == SeedProject(token, step)
           w == CreateProject(D, row)
<1>1. w.do # "refuse" => w = Insert("projects", row)  BY DEF CreateProject, Refuse
<1>2. token \in Tokens /\ step \in Keys  BY NodeStartAssumption DEF ProjectSteps
<1>3. row \in ProjectRow /\ row.enabled /\ row.token = token
  BY <1>2 DEF SeedProject, ProjectRow
<1> HIDE DEF row, w
<1>4. SeedRow(step, "projects", row)  BY <1>3 DEF SeedRow
<1>5. TypedOutcome(step, Writes(w, mem))  BY <1>1, <1>4, StepsDiffer, InsertTyped
<1> QED BY <1>5, SkipTyped DEF EnsureProject, w, row

LEMMA EnsureScriptTyped ==
  ASSUME NEW D, IsDatabase(D), NEW step \in ScriptSteps, NEW exists, NEW key \in ScriptKeys,
         NEW source, NEW mem \in Memory
  PROVE  TypedOutcome(step, EnsureScript(D, exists, key, source, mem))
<1> DEFINE row == SeedScript(key, source)
           w == CreateScript(D, row, EnabledSinkIds(D))
<1>1. w.do # "refuse" => w = Insert("scripts", row) /\ ScriptAccepted(source, EnabledSinkIds(D))
  BY DEF CreateScript, Refuse, SeedScript
<1>2. EnabledSinkIds(D) \subseteq SinkIds
  <2>1. \A i \in Live(D, "sinks") : Row(D, "sinks", i) \in SinkRow  BY TableTyped, TablesAre
  <2> QED BY <2>1 DEF EnabledSinkIds, SinkRow
<1>3. w.do # "refuse" => source \in SUBSET ConstantNames
  BY <1>1, <1>2 DEF ScriptAccepted, ConstantNames
<1>4. w.do # "refuse" => row \in ScriptRow  BY <1>3 DEF SeedScript, ScriptRow, Statuses
<1> HIDE DEF row, w
<1>5. w.do # "refuse" => SeedRow(step, "scripts", row)  BY <1>4 DEF SeedRow
<1>6. TypedOutcome(step, Writes(w, mem))  BY <1>1, <1>5, StepsDiffer, InsertTyped
<1> QED BY <1>6, SkipTyped DEF EnsureScript, w, row

Assigns(D, p, s) == AssignProcessor(D, p, s, TRUE)

LEMMA AssignIs ==
  ASSUME NEW D, IsDatabase(D), NEW p, NEW s, NEW w, w = Assigns(D, p, s),
         w.do # "refuse"
  PROVE  /\ p \in Live(D, "projects") /\ p \in Nat
         /\ s \in Live(D, "scripts") /\ s \in Nat
         /\ \/ w = Insert("bindings", LoadtestRow(p, s))
            \/ \E b \in BindingOf(D, p) : w = Update("bindings", b, Loadtest(s))
<1>1. /\ p \in Live(D, "projects") /\ s \in Live(D, "scripts")
      /\ w = IF BindingOf(D, p) = {} THEN Insert("bindings", LoadtestRow(p, s))
             ELSE Update("bindings", CHOOSE b \in BindingOf(D, p) : TRUE, Loadtest(s))
  BY DEF Assigns, AssignProcessor, Refuse, LoadtestRow, Loadtest
<1>2. p \in Nat /\ s \in Nat  BY <1>1, TableTyped, TablesAre
<1>3. BindingOf(D, p) # {} => (CHOOSE b \in BindingOf(D, p) : TRUE) \in BindingOf(D, p)
  OBVIOUS
<1> QED BY <1>1, <1>2, <1>3

LEMMA BindLoadtestTyped ==
  ASSUME NEW D, IsDatabase(D), NEW mem \in Memory
  PROVE  TypedOutcome("bind_loadtest", BindLoadtest(D, mem))
<1>1. ASSUME NEW p, NEW s, NEW w, w = Assigns(D, p, s), w.do # "refuse"
      PROVE  LoadtestWrite(w)
  <2>1. /\ p \in Nat /\ s \in Nat
        /\ \/ w = Insert("bindings", LoadtestRow(p, s))
           \/ \E b \in BindingOf(D, p) : w = Update("bindings", b, Loadtest(s))
    BY <1>1, AssignIs
  <2>2. \A b \in BindingOf(D, p) : b \in Nat  BY TableTyped, TablesAre DEF BindingOf
  <2> QED BY <2>1, <2>2 DEF LoadtestWrite
<1>2. ASSUME NEW p, NEW s
      PROVE  TypedOutcome("bind_loadtest", Writes(Assigns(D, p, s), mem))
  <2>1. PICK w : w = Assigns(D, p, s)  OBVIOUS
  <2>2. TypedOutcome("bind_loadtest", Writes(w, mem))
    BY <1>1, <2>1 DEF TypedOutcome, Writes, WriteTyped
  <2> QED BY <2>1, <2>2
<1> QED BY <1>2, SkipTyped, Zenon DEF BindLoadtest, Assigns

LEMMA DecideTyped ==
  ASSUME NEW D, IsDatabase(D), NEW step \in Instructions, NEW mem \in Memory,
         step # "default_bindings"
  PROVE  TypedOutcome(step, Decide(step, D, mem))
<1>0. step \in {"local_kafka", "local_parquet", "missing_sinks", "default_stdout",
                "find_parquet", "parquet_events", "loadtest_blackhole", "loadtest_events",
                "test_app", "loadtest_app", "default_script", "loadtest_script",
                "find_loadtest", "bind_loadtest", "events", "events_error"}
  BY DEF Seed, Instructions
<1>1. CASE step \in {"local_kafka", "local_parquet", "default_stdout", "loadtest_blackhole"}
  <2>1. step \in TargetSteps /\ \A i \in 1 .. 4 : DefaultTargets[i] \in TargetRow
    BY <1>1, NodeStartAssumption DEF TargetSteps
  <2>2. \A i \in 1 .. 4 : TypedOutcome(step, EnsureTarget(D, DefaultTargets[i], mem))
    BY <2>1, EnsureTargetTyped
  <2>3. TypedOutcome(step, Skip(mem))  BY SkipTyped
  <2>4. 1 \in 1 .. 4 /\ 2 \in 1 .. 4 /\ 3 \in 1 .. 4 /\ 4 \in 1 .. 4  OBVIOUS
  <2> QED BY <1>1, <2>2, <2>3, <2>4 DEF Decide, DefaultSinks
<1>2. CASE step = "missing_sinks"
  <2> DEFINE new == [mem EXCEPT !.missing = {s \in DefaultSinks : Having(D, "sinks", "id", s) = {}}]
  <2>1. new \in Memory  BY DEF Memory
  <2>2. Decide(step, D, mem) = Skip(new)  BY <1>2 DEF Decide, DefaultSinks
  <2> QED BY <2>1, <2>2, SkipTyped
<1>3. ASSUME NEW t \in Tables, NEW column, NEW value, Having(D, t, column, value) # {}
      PROVE  TheOne(Having(D, t, column, value)) \in Nat
  BY <1>3, HavingIsLive DEF TheOne
<1>4. CASE step = "find_parquet"
  <2> DEFINE found == Having(D, "targets", "id", "local_parquet")
             new == [mem EXCEPT !.target = TheOne(found)]
  <2>1. found # {} => TheOne(found) \in Nat  BY <1>3, TablesAre
  <2> HIDE DEF found
  <2>2. found # {} => new \in Memory  BY <2>1 DEF Memory
  <2>3. \/ found # {} /\ Decide(step, D, mem) = Skip(new)
        \/ Decide(step, D, mem) = Stops("local parquet delivery target is missing")
    BY <1>4 DEF Decide, DefaultSinks, found
  <2> QED BY <2>2, <2>3, SkipTyped
<1>5. CASE step = "find_loadtest"
  <2> DEFINE found == Having(D, "projects", "token", LoadtestToken)
             new == [mem EXCEPT !.project = IF found = {} THEN 0 ELSE TheOne(found)]
  <2>1. found # {} => TheOne(found) \in Nat  BY <1>3, TablesAre
  <2> HIDE DEF found
  <2>2. new \in Memory  BY <2>1 DEF Memory
  <2>3. Decide(step, D, mem) = Skip(new)  BY <1>5 DEF Decide, DefaultSinks, found
  <2> QED BY <2>2, <2>3, SkipTyped
<1>6. CASE step \in {"events", "events_error"}
  <2>1. step \in SinkSteps  BY <1>6 DEF SinkSteps
  <2> QED BY <1>6, <2>1, SkipTyped, CreateSinkTyped DEF Decide, DefaultSinks
<1>7. CASE step \in {"parquet_events", "loadtest_events"}
  <2>1. step \in SinkSteps  BY <1>7 DEF SinkSteps
  <2>2. \A dest : TypedOutcome(step, EnsureSink(D, step, dest, mem))
    BY <2>1, SkipTyped, CreateSinkTyped DEF EnsureSink
  <2> QED BY <1>7, <2>2 DEF Decide, DefaultSinks
<1>8. CASE step \in {"test_app", "loadtest_app"}
  <2>1. step \in ProjectSteps  BY <1>8 DEF ProjectSteps
  <2>2. TypedOutcome(step, EnsureProject(D, IF step = "test_app" THEN TestToken ELSE LoadtestToken,
                                         step, mem))
    BY <2>1, EnsureProjectTyped
  <2> QED BY <1>8, <2>2 DEF Decide, DefaultSinks
<1>9. CASE step \in {"default_script", "loadtest_script"}
  <2>1. step \in ScriptSteps  BY <1>9 DEF ScriptSteps
  <2>2. DefaultKey \in ScriptKeys /\ LoadtestScript \in ScriptKeys  BY NodeStartAssumption
  <2>3. \A key \in ScriptKeys : \A exists, source :
          TypedOutcome(step, EnsureScript(D, exists, key, source, mem))
    BY <2>1, EnsureScriptTyped
  <2> QED BY <1>9, <2>2, <2>3, Zenon DEF Decide, DefaultSinks
<1>10. CASE step = "bind_loadtest"
  BY <1>10, BindLoadtestTyped DEF Decide, DefaultSinks
<1> QED BY <1>0, <1>1, <1>2, <1>4, <1>5, <1>6, <1>7, <1>8, <1>9, <1>10

LEMMA DefaultScriptIs ==
  ASSUME NEW D, IsDatabase(D), DefaultScript(D) # 0
  PROVE  /\ DefaultScript(D) \in Live(D, "scripts") /\ DefaultScript(D) \in Nat
         /\ Row(D, "scripts", DefaultScript(D)).key = DefaultKey
         /\ Row(D, "scripts", DefaultScript(D)).status = "active"
<1> DEFINE found == {i \in Live(D, "scripts") : /\ Row(D, "scripts", i).key = DefaultKey
                                                /\ Row(D, "scripts", i).status = "active"}
<1>1. found # {} /\ DefaultScript(D) = CHOOSE i \in found : TRUE  BY DEF DefaultScript
<1>2. DefaultScript(D) \in found  BY <1>1
<1> QED BY <1>2, TableTyped, TablesAre

(* Every project has a binding afterwards, and the bindings there were are *)
(* as they were.                                                           *)
LEMMA DefaultBindingsTyped ==
  ASSUME NEW D, IsDatabase(D), DefaultScript(D) # 0, Unbound(D) # {},
         NEW E, E = DefaultBindings(D)
  PROVE  /\ IsDatabase(E)
         /\ \A t \in Tables \ {"bindings"} : E.rows[t] = D.rows[t]
         /\ \A b \in Live(D, "bindings") : /\ b \in Live(E, "bindings")
                                           /\ Row(E, "bindings", b) = Row(D, "bindings", b)
         /\ \A b \in Live(E, "bindings") \ Live(D, "bindings") :
              \E p \in Unbound(D) : Row(E, "bindings", b) = LoadtestRow(p, DefaultScript(D))
         /\ \A p \in Unbound(D) : \E b \in Live(E, "bindings") :
              Row(E, "bindings", b) = LoadtestRow(p, DefaultScript(D))
<1> DEFINE P == Unbound(D)
           new == InARow(P)
           r == [i \in DOMAIN new |-> DefaultBinding(D, new[i])]
<1>1. PICK s : s = D.rows["bindings"]  OBVIOUS
<1>2. /\ "bindings" \in Tables /\ "projects" \in Tables /\ "scripts" \in Counters
      /\ Rows["bindings"] = BindingRow
  BY TablesAre DEF Counters
<1>3. IsFiniteSet(P) /\ \A p \in P : p \in Nat
  <2>1. Len(D.rows["projects"]) \in Nat /\ DOMAIN D.rows["projects"] = 1 .. Len(D.rows["projects"])
    BY <1>2, TableTyped
  <2>2. \A k \in Nat : IsFiniteSet(1 .. k)
    <3>1. 1 \in Int /\ \A k \in Nat : k \in Int  OBVIOUS
    <3> QED BY <3>1, FS_Interval, Zenon
  <2>3. P \in SUBSET (1 .. Len(D.rows["projects"]))  BY <2>1 DEF Unbound, Live
  <2> QED BY <2>1, <2>2, <2>3, FS_Subset
<1>4. PICK k \in Nat : /\ new \in [1 .. k -> P]
                       /\ \A p \in P : \E i \in 1 .. k : new[i] = p
  <2>1. PICK k : k = Cardinality(P)  OBVIOUS
  <2>2. k \in Nat /\ ExistsBijection(1 .. k, P)  BY <1>3, <2>1, FS_CardinalityType
  <2>3. PICK f \in Bijection(1 .. k, P) : TRUE  BY <2>2 DEF ExistsBijection
  <2>4. f \in [1 .. k -> P] /\ \A p \in P : \E i \in DOMAIN f : f[i] = p
    BY <2>3 DEF Bijection, Surjection
  <2>5. new = CHOOSE g \in [1 .. k -> P] : \A p \in P : \E i \in DOMAIN g : g[i] = p
    BY <2>1 DEF InARow
  <2>6. new \in [1 .. k -> P] /\ \A p \in P : \E i \in DOMAIN new : new[i] = p
    BY <2>4, <2>5, Zenon
  <2> QED BY <2>2, <2>6
<1>5. /\ DOMAIN r = 1 .. k
      /\ \A i \in 1 .. k : r[i] = LoadtestRow(new[i], DefaultScript(D))
  BY <1>4 DEF DefaultBinding, LoadtestRow
<1>6. E.rows = [D.rows EXCEPT !["bindings"] = s \o r] /\ DOMAIN E = {"rows", "version"}
      /\ E.version = [D.version EXCEPT !["scripts"] = D.version["scripts"] + 1]
  BY <1>1 DEF DefaultBindings
<1>7. r = [i \in 1 .. k |-> r[i]]  BY <1>5
<1> HIDE DEF r, new, P
<1>8. r \in Seq(BindingRow)
  <2>1. \A i \in 1 .. k : LoadtestRow(new[i], DefaultScript(D)) \in BindingRow
    BY <1>3, <1>4, DefaultScriptIs DEF LoadtestRow, BindingRow
  <2>2. r \in [1 .. k -> BindingRow]  BY <1>5, <1>7, <2>1
  <2> QED BY <2>2, SeqDef
<1> DEFINE X == BindingRow \cup {Deleted}
<1>9. s \in Seq(X) /\ r \in Seq(X)
  BY <1>1, <1>2, <1>8, TableTyped, SeqMonotonic
<1>10. /\ Len(s) \in Nat /\ DOMAIN s = 1 .. Len(s) /\ Len(r) = k
  BY <1>4, <1>5, <1>9, LenProperties
<1> HIDE DEF X
<1>11. /\ s \o r \in Seq(X) /\ Len(s \o r) = Len(s) + k
       /\ \A i \in 1 .. Len(s) + k : (s \o r)[i] = IF i <= Len(s) THEN s[i] ELSE r[i - Len(s)]
  BY <1>9, <1>10, ConcatProperties
<1>12. PICK e : e = s \o r  OBVIOUS
<1>13. DOMAIN e = 1 .. Len(s) + k  BY <1>4, <1>10, <1>11, <1>12, LenProperties
<1>14. /\ E.rows["bindings"] = e /\ DOMAIN E.rows = Tables
       /\ \A t \in Tables \ {"bindings"} : E.rows[t] = D.rows[t]
  BY <1>2, <1>6, <1>12 DEF IsDatabase
<1>15. IsDatabase(E)
  <2>1. E.version \in [Counters -> Nat]  BY <1>2, <1>6 DEF IsDatabase
  <2>2. E.rows["bindings"] \in Seq(Rows["bindings"] \cup {Deleted})
    BY <1>2, <1>11, <1>12, <1>14 DEF X
  <2>3. \A t \in Tables : E.rows[t] \in Seq(Rows[t] \cup {Deleted})
    BY <1>14, <2>2 DEF IsDatabase
  <2> QED BY <1>6, <1>14, <2>1, <2>3 DEF IsDatabase
<1>16. ASSUME NEW b \in Live(D, "bindings")
       PROVE  b \in Live(E, "bindings") /\ Row(E, "bindings", b) = Row(D, "bindings", b)
  <2>1. b \in DOMAIN s /\ s[b] # Deleted  BY <1>1 DEF Live
  <2>2. e[b] = s[b] /\ b \in DOMAIN e  BY <1>10, <1>11, <1>12, <1>13, <2>1
  <2> QED BY <1>1, <1>14, <2>1, <2>2 DEF Live, Row
<1>17. ASSUME NEW b \in Live(E, "bindings"), b \notin Live(D, "bindings")
       PROVE  \E p \in P : Row(E, "bindings", b) = LoadtestRow(p, DefaultScript(D))
  <2>1. b \in 1 .. Len(s) + k /\ e[b] # Deleted  BY <1>13, <1>14 DEF Live
  <2>2. ~ (b <= Len(s))
    <3>1. b <= Len(s) => e[b] = s[b] /\ b \in DOMAIN s  BY <1>10, <1>11, <1>12, <2>1
    <3> QED BY <1>1, <1>17, <2>1, <3>1 DEF Live
  <2>3. b - Len(s) \in 1 .. k /\ e[b] = r[b - Len(s)]  BY <1>10, <1>11, <1>12, <2>1, <2>2
  <2>4. new[b - Len(s)] \in P  BY <1>4, <2>3
  <2> QED BY <1>5, <1>14, <2>3, <2>4 DEF Row
<1>18. ASSUME NEW p \in P
       PROVE  \E b \in Live(E, "bindings") :
                Row(E, "bindings", b) = LoadtestRow(p, DefaultScript(D))
  <2>1. PICK i \in 1 .. k : new[i] = p  BY <1>4
  <2>2. i + Len(s) \in 1 .. Len(s) + k /\ ~ (i + Len(s) <= Len(s)) /\ (i + Len(s)) - Len(s) = i
    BY <1>10, <2>1
  <2>3. e[i + Len(s)] = r[i]  BY <1>11, <1>12, <2>2
  <2>4. r[i] \in BindingRow  BY <1>5, <1>8, <1>10, ElementOfSeq
  <2>5. Deleted \notin BindingRow  BY <1>2, DeletedAssumption
  <2>6. i + Len(s) \in Live(E, "bindings")  BY <1>13, <1>14, <2>2, <2>3, <2>4, <2>5 DEF Live
  <2> QED BY <1>5, <1>14, <2>1, <2>3, <2>6 DEF Row
<1> QED BY <1>14, <1>15, <1>16, <1>17, <1>18 DEF P

(* What administrators do leaves the tables typed.                         *)
LeavesTyped(D, w) ==
  Allowed(D, w) => IsDatabase(Commit(D, w, D.version[CounterOf(w.table)]))

LEMMA AdministratorsTyped ==
  ASSUME NEW D, IsDatabase(D)
  PROVE  /\ \A p \in Live(D, "projects"), set \in ProjectChanges :
              LeavesTyped(D, UpdateProject(D, p, set))
         /\ \A p : LeavesTyped(D, DeleteProject(D, p))
         /\ \A s : LeavesTyped(D, UpdateSink(D, s, [enabled |-> FALSE]))
         /\ \A s : LeavesTyped(D, DeleteSink(D, s))
         /\ \A p, i : LeavesTyped(D, Assigns(D, p, i))
         /\ \A p : LeavesTyped(D, DeleteBinding(D, p))
<1>1. ASSUME NEW error PROVE LeavesTyped(D, Refuse(error))
  BY DEF LeavesTyped, Allowed, Refuse
<1>2. \A t \in Tables : D.version[CounterOf(t)] \in Nat  BY VersionIsNat
<1>3. ASSUME NEW t \in Tables, NEW i \in Live(D, t), NEW set, With(Row(D, t, i), set) \in Rows[t]
      PROVE  LeavesTyped(D, Update(t, i, set))
  <2>1. PICK w : w = Update(t, i, set)  OBVIOUS
  <2>2. w.table = t  BY <2>1 DEF Update
  <2>3. IsDatabase(Commit(D, w, D.version[CounterOf(w.table)]))
    BY <1>2, <1>3, <2>1, <2>2, UpdateWrites
  <2> QED BY <2>1, <2>3 DEF LeavesTyped
<1>4. ASSUME NEW t \in Tables, NEW i PROVE LeavesTyped(D, Delete(t, i))
  <2>1. PICK w : w = Delete(t, i)  OBVIOUS
  <2>2. w.table = t  BY <2>1 DEF Delete
  <2>3. IsDatabase(Commit(D, w, D.version[CounterOf(w.table)]))
    BY <1>2, <2>1, <2>2, DeleteWrites, DeleteProjectWrites
  <2> QED BY <2>1, <2>3 DEF LeavesTyped
<1>5. ASSUME NEW p \in Live(D, "projects"), NEW set \in ProjectChanges
      PROVE  LeavesTyped(D, UpdateProject(D, p, set))
  <2>1. CASE BlankIn(set, "token") \/ BlankIn(set, "key")
    BY <1>1, <2>1 DEF UpdateProject
  <2>2. CASE ~BlankIn(set, "token") /\ ~BlankIn(set, "key")
    <3>1. UpdateProject(D, p, set) = Update("projects", p, set)  BY <2>2 DEF UpdateProject
    <3>2. Changes(set, ProjectBody, {})  BY NodeStartAssumption
    <3>3. With(Row(D, "projects", p), set) \in Rows["projects"]
      <4>1. Row(D, "projects", p) \in ProjectRow  BY TableTyped, TablesAre
      <4> QED BY <2>2, <3>2, <4>1, ChangedProject, TablesAre
    <3> QED BY <1>3, <3>1, <3>3, TablesAre
  <2> QED BY <2>1, <2>2
<1>6. ASSUME NEW s PROVE LeavesTyped(D, UpdateSink(D, s, [enabled |-> FALSE]))
  <2> DEFINE set == [enabled |-> FALSE]
  <2>1. Changes(set, SinkBody, {"id"})
    <3>1. DOMAIN set = {"enabled"} /\ set["enabled"] = FALSE /\ set = [c \in DOMAIN set |-> set[c]]
      OBVIOUS
    <3>2. "enabled" \in DOMAIN SinkBody /\ SinkBody["enabled"] = BOOLEAN  BY DEF SinkBody
    <3> HIDE DEF set
    <3> QED BY <3>1, <3>2 DEF Changes, Sets
  <2> HIDE DEF set
  <2>2. PICK w : w = UpdateSink(D, s, set)  OBVIOUS
  <2>3. CASE w.do = "refuse"
    BY <2>2, <2>3 DEF LeavesTyped, Allowed, set
  <2>4. CASE w.do # "refuse"
    <3>1. /\ w = Update("sinks", s, w.set) /\ s \in Live(D, "sinks")
          /\ With(Row(D, "sinks", s), w.set) \in Rows["sinks"]
      <4>1. /\ w = Update("sinks", s, w.set) /\ s \in Live(D, "sinks")
            /\ \A row \in SinkRow : With(row, w.set) \in SinkRow
        BY <2>1, <2>2, <2>4, ChangedSink
      <4>2. Row(D, "sinks", s) \in SinkRow  BY <4>1, TableTyped, TablesAre
      <4> QED BY <4>1, <4>2, TablesAre
    <3>2. LeavesTyped(D, w)
      <4>1. PICK all : all = w.set  OBVIOUS
      <4>2. LeavesTyped(D, Update("sinks", s, all))  BY <1>3, <3>1, <4>1, TablesAre
      <4> QED BY <3>1, <4>1, <4>2
    <3> QED BY <2>2, <3>2 DEF set
  <2> QED BY <2>3, <2>4
<1>7. ASSUME NEW p PROVE LeavesTyped(D, DeleteProject(D, p))
  BY <1>1, <1>4, TablesAre DEF DeleteProject
<1>8. ASSUME NEW s PROVE LeavesTyped(D, DeleteSink(D, s))
  BY <1>1, <1>4, TablesAre DEF DeleteSink
<1>9. ASSUME NEW p PROVE LeavesTyped(D, DeleteBinding(D, p))
  BY <1>1, <1>4, TablesAre DEF DeleteBinding
<1>10. ASSUME NEW p, NEW i PROVE LeavesTyped(D, Assigns(D, p, i))
  <2>1. PICK w : w = Assigns(D, p, i)  OBVIOUS
  <2>2. CASE w.do = "refuse"
    BY <2>1, <2>2 DEF LeavesTyped, Allowed
  <2>3. CASE w.do # "refuse"
    <3>1. LoadtestWrite(w)
      <4>1. /\ p \in Nat /\ i \in Nat
            /\ \/ w = Insert("bindings", LoadtestRow(p, i))
               \/ \E b \in BindingOf(D, p) : w = Update("bindings", b, Loadtest(i))
        BY <2>1, <2>3, AssignIs
      <4>2. \A b \in BindingOf(D, p) : b \in Nat  BY TableTyped, TablesAre DEF BindingOf
      <4> QED BY <4>1, <4>2 DEF LoadtestWrite
    <3>2. WriteTyped("bind_loadtest", w)  BY <3>1 DEF WriteTyped
    <3> QED BY <2>1, <3>2, StartWriteTyped DEF LeavesTyped
  <2> QED BY <2>2, <2>3
<1> QED BY <1>5, <1>6, <1>7, <1>8, <1>9, <1>10
(***************************************************************************)
(* The type invariant needs what a node is about to write, and that it has *)
(* a status once it has seeded and loaded, and not before.                 *)
(***************************************************************************)
Early == {"down", "seed", "write", "load"}
Late == {"find", "put", "bind", "sleep", "mark"}

NodeTyped(x) ==
  /\ DOMAIN x = DOMAIN Down
  /\ x.mem \in Memory
  /\ \/ x.pc \in Early /\ x.status = "none"
     \/ x.pc \in Late /\ x.status \in {"starting", "running"}
  /\ x.pc \in {"seed", "write"} => x.step \in DOMAIN Seed
  /\ x.pc = "write" => WriteTyped(Seed[x.step], x.write)
  /\ x.started => x.status = "running"

RowTyped(row) ==
  \/ row = NoRow
  \/ row \in [status : {"starting", "running"}, age : 0 .. StaleAfter + 1]

NodesTyped ==
  /\ DOMAIN node = Nodes /\ \A n \in Nodes : NodeTyped(node[n])
  /\ DOMAIN table = Nodes /\ \A n \in Nodes : RowTyped(table[n])
Bounded ==
  scenario \in Scenarios /\ troubles \in 0 .. scenario.troubles /\ changes \in 0 .. troubles

TypeInv == IsDatabase(db) /\ NodesTyped /\ Bounded

LEMMA TypeInvImplies == TypeInv => TypeOK
<1> SUFFICES ASSUME TypeInv PROVE TypeOK  OBVIOUS
<1>1. ASSUME NEW n \in Nodes
      PROVE  /\ \/ table[n] = NoRow
                \/ table[n] \in [status : {"starting", "running"}, age : 0 .. StaleAfter + 1]
             /\ node[n].pc \in {"down", "seed", "write", "load", "find", "put", "bind", "sleep", "mark"}
             /\ node[n].status \in {"none", "starting", "running"}
             /\ node[n].pc \in {"seed", "write"} => node[n].step \in DOMAIN Seed
             /\ node[n].pc = "write" => node[n].write.do \in {"insert", "update"}
             /\ node[n].started => Up(n)
  <2>1. NodeTyped(node[n]) /\ RowTyped(table[n])  BY DEF TypeInv, NodesTyped
  <2>2. ASSUME NEW step, NEW w, WriteTyped(step, w) PROVE w.do \in {"insert", "update"}
    <3>1. ASSUME NEW t, NEW row PROVE Insert(t, row).do = "insert"  BY DEF Insert
    <3>2. ASSUME NEW t, NEW i, NEW set PROVE Update(t, i, set).do = "update"  BY DEF Update
    <3> QED BY <2>2, <3>1, <3>2 DEF WriteTyped, LoadtestWrite
  <2>3. node[n].pc = "write" => node[n].write.do \in {"insert", "update"}
    BY <2>1, <2>2 DEF NodeTyped
  <2> QED BY <2>1, <2>3 DEF NodeTyped, RowTyped, Early, Late, Up
<1> QED BY <1>1 DEF TypeInv, TypeOK, Bounded

LEMMA DownIsTyped == NodeTyped(Down)
BY DEF NodeTyped, Down, Nothing, Memory, Early

LEMMA TypeInit == Init => TypeInv
<1> SUFFICES ASSUME Init PROVE TypeInv  OBVIOUS
<1>1. IsDatabase(db)
  <2>1. \A t \in Tables : <<>> \in Seq(Rows[t] \cup {Deleted})  OBVIOUS
  <2> QED BY <2>1 DEF Init, IsDatabase
<1>2. NodesTyped  BY DownIsTyped DEF Init, NodesTyped, RowTyped
<1>3. Bounded  BY NodeStartAssumption DEF Init, Bounded
<1> QED BY <1>1, <1>2, <1>3 DEF TypeInv

LEMMA NodeMovesTyped ==
  ASSUME NodesTyped, NEW n \in Nodes, NEW state, Goes(n, state), NodeTyped(state),
         UNCHANGED table
  PROVE  NodesTyped'
BY DEF NodesTyped, Goes

LEMMA OnwardTyped ==
  ASSUME NodesTyped, NEW n \in Nodes, node[n].pc \in {"seed", "write"}, NEW mem \in Memory
  PROVE  NodeTyped(Onward(n, mem))
<1>1. /\ DOMAIN node[n] = DOMAIN Down /\ node[n].step \in DOMAIN Seed /\ node[n].status = "none"
      /\ node[n].started => node[n].status = "running"
  BY DEF NodesTyped, NodeTyped, Late
<1>2. node[n].step \in 1 .. 17 /\ Len(Seed) = 17 /\ DOMAIN Seed = 1 .. 17  BY <1>1 DEF Seed
<1> DEFINE x == Onward(n, mem)
<1>3. /\ DOMAIN x = DOMAIN Down
      /\ x.pc = IF node[n].step = 17 THEN "load" ELSE "seed"
      /\ x.step = node[n].step + 1 /\ x.mem = mem /\ x.status = "none"
      /\ x.started = node[n].started
  BY <1>1, <1>2 DEF Onward, Down
<1>4. x.pc = "seed" => x.step \in 1 .. 17  BY <1>2, <1>3
<1> HIDE DEF x
<1>5. ~x.started
  <2>1. "none" # "running"  OBVIOUS
  <2> QED BY <1>1, <1>3, <2>1, Zenon
<1>6. x.pc \in {"seed", "load"}  BY <1>3
<1>7. x.pc \in {"seed", "write"} => x.step \in DOMAIN Seed  BY <1>2, <1>4, <1>6
<1>8. x.pc \in Early /\ x.pc # "write"  BY <1>6 DEF Early
<1>9. DOMAIN x = DOMAIN Down /\ x.mem \in Memory /\ x.status = "none"  BY <1>3
<1>10. NodeTyped(x)  BY <1>5, <1>7, <1>8, <1>9, Zenon DEF NodeTyped
<1> QED BY <1>10 DEF x

LEMMA LookTyped == ASSUME TypeInv, NEW n \in Nodes, Look(n) PROVE TypeInv'
<1> DEFINE does == Decide(Seed[node[n].step], db, node[n].mem)
<1>1. UNCHANGED <<db, table, bounds>>  BY DEF Look, Exits
<1>2. /\ node[n].pc = "seed" /\ node[n].step \in DOMAIN Seed /\ DOMAIN node[n] = DOMAIN Down
      /\ node[n].mem \in Memory /\ node[n].status = "none"
      /\ node[n].started => node[n].status = "running"
  BY DEF Look, TypeInv, NodesTyped, NodeTyped, Late
<1>3. TypedOutcome(Seed[node[n].step], does)
  <2>1. Seed[node[n].step] \in Instructions  BY <1>2 DEF Instructions
  <2> QED BY <1>2, <2>1, DecideTyped DEF Look, TypeInv
<1> HIDE DEF does
<1>4. \/ Goes(n, Onward(n, does.mem))
      \/ Goes(n, Down)
      \/ /\ does.write.do # "refuse"
         /\ Goes(n, [node[n] EXCEPT !.pc = "write", !.write = does.write, !.mem = does.mem])
  BY DEF Look, Exits, does
<1>5. NodesTyped'
  <2>1. CASE Goes(n, Onward(n, does.mem))
    <3>1. NodeTyped(Onward(n, does.mem))
      BY <1>2, <1>3, OnwardTyped DEF TypedOutcome, TypeInv
    <3> QED BY <1>1, <2>1, <3>1, NodeMovesTyped DEF TypeInv
  <2>2. CASE Goes(n, Down)
    BY <1>1, <2>2, DownIsTyped, NodeMovesTyped DEF TypeInv
  <2>3. CASE /\ does.write.do # "refuse"
             /\ Goes(n, [node[n] EXCEPT !.pc = "write", !.write = does.write, !.mem = does.mem])
    <3> DEFINE x == [node[n] EXCEPT !.pc = "write", !.write = does.write, !.mem = does.mem]
    <3>1. /\ DOMAIN x = DOMAIN Down /\ x.step = node[n].step /\ x.pc = "write"
          /\ x.write = does.write /\ x.mem = does.mem /\ x.status = node[n].status
          /\ x.started = node[n].started
      BY <1>2 DEF Down
    <3> HIDE DEF x
    <3>2. NodeTyped(x)  BY <1>2, <1>3, <2>3, <3>1 DEF NodeTyped, TypedOutcome, Early
    <3>3. Goes(n, x)  BY <2>3 DEF x
    <3> QED BY <1>1, <3>2, <3>3, NodeMovesTyped DEF TypeInv
  <2> QED BY <1>4, <2>1, <2>2, <2>3
<1> QED BY <1>1, <1>5 DEF TypeInv, Bounded, bounds

LEMMA WriteStepTyped == ASSUME TypeInv, NEW n \in Nodes, Write(n) PROVE TypeInv'
<1> DEFINE w == node[n].write
<1>1. UNCHANGED <<table, bounds>>  BY DEF Write, Exits
<1>2. /\ node[n].pc = "write" /\ WriteTyped(Seed[node[n].step], w) /\ node[n].mem \in Memory
  BY DEF Write, TypeInv, NodesTyped, NodeTyped
<1> HIDE DEF w
<1>3. CASE /\ Allowed(db, w)
           /\ db' = Commit(db, w, db.version[CounterOf(w.table)])
           /\ Goes(n, Onward(n, node[n].mem))
  <2>1. IsDatabase(db')  BY <1>2, <1>3, StartWriteTyped DEF TypeInv
  <2>2. NodeTyped(Onward(n, node[n].mem))  BY <1>2, OnwardTyped DEF TypeInv
  <2>3. NodesTyped'  BY <1>1, <1>3, <2>2, NodeMovesTyped DEF TypeInv
  <2> QED BY <1>1, <2>1, <2>3 DEF TypeInv, Bounded, bounds
<1>4. CASE Goes(n, Down) /\ UNCHANGED db
  <2>1. NodesTyped'  BY <1>1, <1>4, DownIsTyped, NodeMovesTyped DEF TypeInv
  <2> QED BY <1>1, <1>4, <2>1 DEF TypeInv, Bounded, bounds
<1> QED BY <1>3, <1>4 DEF Write, Exits, w

LEMMA BindDefaultsTyped == ASSUME TypeInv, NEW n \in Nodes, BindDefaults(n) PROVE TypeInv'
<1>1. UNCHANGED <<table, bounds>>  BY DEF BindDefaults, Exits
<1>2. node[n].pc = "seed" /\ node[n].mem \in Memory
  BY DEF BindDefaults, TypeInv, NodesTyped, NodeTyped
<1> DEFINE next == Onward(n, node[n].mem)
<1>3. NodeTyped(next)  BY <1>2, OnwardTyped DEF TypeInv
<1>4. \/ Goes(n, Down) /\ UNCHANGED db
      \/ db' = DefaultBindings(db) /\ Goes(n, next) /\ DefaultScript(db) # 0
  BY DEF BindDefaults, Exits
<1> HIDE DEF next
<1>5. NodesTyped'  BY <1>1, <1>3, <1>4, DownIsTyped, NodeMovesTyped DEF TypeInv
<1>6. IsDatabase(db')
  <2>1. CASE UNCHANGED db  BY <2>1 DEF TypeInv
  <2>2. CASE db' = DefaultBindings(db) /\ DefaultScript(db) # 0 /\ Unbound(db) = {}
    BY <2>2 DEF TypeInv, DefaultBindings
  <2>3. CASE db' = DefaultBindings(db) /\ DefaultScript(db) # 0 /\ Unbound(db) # {}
    BY <2>3, DefaultBindingsTyped DEF TypeInv
  <2> QED BY <1>4, <2>1, <2>2, <2>3
<1> QED BY <1>1, <1>5, <1>6 DEF TypeInv, Bounded, bounds

(* The steps of a node on its own state and its own row.                   *)
LEMMA OwnStepTyped ==
  ASSUME TypeInv, NEW n \in Nodes,
         \/ Start(n) \/ Load(n) \/ Bind(n) \/ FindRow(n) \/ PutRow(n) \/ Beat(n) \/ Mark(n)
         \/ NotRegistered(n) \/ (Exits(n) /\ node[n].pc # "down")
  PROVE  UNCHANGED db /\ NodesTyped'
<1>1. UNCHANGED db
  BY DEF Start, Load, Bind, FindRow, PutRow, Beat, Mark, Exits, NotRegistered
<1>2. /\ NodeTyped(node[n]) /\ DOMAIN node[n] = DOMAIN Down /\ node[n].mem \in Memory
      /\ node[n].started => node[n].status = "running"
      /\ node[n].pc \in Late => node[n].status \in {"starting", "running"}
      /\ node[n].status = "running" => node[n].pc \in Late
  BY DEF TypeInv, NodesTyped, NodeTyped, Late, Early
<1> DEFINE Sane(x) == NodeTyped(x)
<1>3. Sane(Down) /\ Sane([Down EXCEPT !.pc = "seed", !.step = 1])
  <2>1. 1 \in DOMAIN Seed  BY DEF Seed
  <2> DEFINE x == [Down EXCEPT !.pc = "seed", !.step = 1]
  <2>2. /\ DOMAIN x = DOMAIN Down /\ x.pc = "seed" /\ x.step = 1 /\ x.mem = Nothing
        /\ x.status = "none" /\ x.started = FALSE
    BY DEF Down
  <2> HIDE DEF x
  <2>3. Nothing \in Memory  BY DEF Nothing, Memory
  <2>4. NodeTyped(x)  BY <2>1, <2>2, <2>3 DEF NodeTyped, Early
  <2> QED BY <2>4, DownIsTyped DEF x
<1>4. Sane([Down EXCEPT !.pc = "find", !.status = "starting"])
  <2> DEFINE x == [Down EXCEPT !.pc = "find", !.status = "starting"]
  <2>2. /\ DOMAIN x = DOMAIN Down /\ x.pc = "find" /\ x.mem = Nothing
        /\ x.status = "starting" /\ x.started = FALSE
    BY DEF Down
  <2> HIDE DEF x
  <2>3. Nothing \in Memory  BY DEF Nothing, Memory
  <2>4. NodeTyped(x)  BY <2>2, <2>3 DEF NodeTyped, Late
  <2> QED BY <2>4 DEF x
<1>5. ASSUME NEW pc \in Late, node[n].pc \in Late PROVE Sane([node[n] EXCEPT !.pc = pc])
  BY <1>2, <1>5 DEF NodeTyped, Down, Late
<1>6. ASSUME node[n].pc \in Late, NEW found
      PROVE  Sane([node[n] EXCEPT !.pc = "put", !.found = found])
  BY <1>2, <1>6 DEF NodeTyped, Down, Late
<1>7. ASSUME node[n].pc \in Late, node[n].status # "starting"
      PROVE  Sane([node[n] EXCEPT !.pc = "sleep", !.started = TRUE])
  BY <1>2, <1>7 DEF NodeTyped, Down, Late
<1>8. ASSUME node[n].pc \in Late PROVE Sane([node[n] EXCEPT !.pc = "find", !.status = "running"])
  BY <1>2, <1>8 DEF NodeTyped, Down, Late
<1>9. ASSUME node[n].pc \in Late PROVE Sane(AfterRegister(n))
  <2>1. "bind" \in Late  BY DEF Late
  <2> QED BY <1>5, <1>7, <1>9, <2>1 DEF AfterRegister
<1> HIDE DEF Sane
<1>10. \A pc \in {"find", "put", "bind", "sleep", "mark"} : pc \in Late  BY DEF Late
<1>11. \E state : Goes(n, state) /\ Sane(state)
  <2>1. CASE Start(n)  BY <1>3, <2>1 DEF Start
  <2>2. CASE Load(n)  BY <1>3, <1>4, <2>2 DEF Load, Exits
  <2>3. CASE Bind(n)  BY <1>8, <1>10, <2>3 DEF Bind
  <2>4. CASE FindRow(n)  BY <1>6, <1>10, <2>4 DEF FindRow
  <2>5. ASSUME NotRegistered(n) PROVE \E state : Goes(n, state) /\ Sane(state)
    <3>1. CASE node[n].started
      <4>1. Goes(n, [node[n] EXCEPT !.pc = "sleep"])  BY <2>5, <3>1 DEF NotRegistered
      <4>2. node[n].pc \in Late  BY <1>2, <3>1
      <4> QED BY <1>5, <1>10, <4>1, <4>2
    <3>2. CASE ~node[n].started
      BY <1>3, <2>5, <3>2 DEF NotRegistered, Exits
    <3> QED BY <3>1, <3>2
  <2>6. CASE PutRow(n)
    <3>1. node[n].pc \in Late  BY <1>10, <2>6 DEF PutRow
    <3>2. Goes(n, AfterRegister(n)) \/ NotRegistered(n)  BY <2>6 DEF PutRow
    <3> QED BY <1>9, <2>5, <3>1, <3>2
  <2>7. CASE Beat(n)  BY <1>5, <1>10, <2>7 DEF Beat
  <2>8. CASE Mark(n)  BY <1>5, <1>10, <2>8 DEF Mark
  <2>9. CASE Exits(n)  BY <1>3, <2>9 DEF Exits
  <2> QED BY <2>1, <2>2, <2>3, <2>4, <2>5, <2>6, <2>7, <2>8, <2>9
<1>12. PICK state : Goes(n, state) /\ Sane(state)  BY <1>11
<1>13. DOMAIN node' = Nodes /\ \A m \in Nodes : NodeTyped(node'[m])
  BY <1>12 DEF TypeInv, NodesTyped, Goes, Sane
<1>14. DOMAIN table' = Nodes /\ \A m \in Nodes : RowTyped(table'[m])
  <2>1. \/ UNCHANGED table
        \/ \E status \in {"starting", "running"} :
             table' = [table EXCEPT ![n] = [status |-> status, age |-> 0]]
    <3>1. CASE PutRow(n)
      <4>1. node[n].status \in {"starting", "running"}  BY <1>2, <1>10, <3>1 DEF PutRow
      <4> QED BY <3>1, <4>1 DEF PutRow, NotRegistered, Exits
    <3>2. CASE Mark(n)  BY <3>2 DEF Mark
    <3>3. CASE ~PutRow(n) /\ ~Mark(n)
      BY <3>3 DEF Start, Load, Bind, FindRow, Beat, Exits, NotRegistered
    <3> QED BY <3>1, <3>2, <3>3
  <2>2. \A status \in {"starting", "running"} : RowTyped([status |-> status, age |-> 0])
    BY NodeStartAssumption DEF RowTyped
  <2> QED BY <2>1, <2>2 DEF TypeInv, NodesTyped
<1> QED BY <1>1, <1>13, <1>14 DEF NodesTyped

LEMMA TickTyped == ASSUME TypeInv, Tick PROVE TypeInv'
<1>1. UNCHANGED <<db, node, bounds>>  BY DEF Tick
<1>2. ASSUME NEW row, RowTyped(row), row # NoRow, ~(row.age > StaleAfter)
      PROVE  RowTyped([row EXCEPT !.age = @ + 1])
  <2>1. row \in [status : {"starting", "running"}, age : 0 .. StaleAfter + 1]
    BY <1>2 DEF RowTyped
  <2>2. row.age + 1 \in 0 .. StaleAfter + 1  BY <1>2, <2>1, NodeStartAssumption
  <2> QED BY <2>1, <2>2 DEF RowTyped
<1>3. DOMAIN table' = Nodes /\ \A m \in Nodes : RowTyped(table'[m])
  BY <1>2 DEF Tick, TypeInv, NodesTyped
<1> QED BY <1>1, <1>3 DEF TypeInv, NodesTyped, Bounded, bounds

LEMMA AdministerTyped == ASSUME TypeInv, Administer PROVE TypeInv'
<1>1. ASSUME MayChange PROVE Bounded'
  <2>1. scenario.troubles \in Nat  BY NodeStartAssumption DEF TypeInv, Bounded
  <2> QED BY <1>1, <2>1 DEF MayChange, Trouble, TypeInv, Bounded
<1>2. ASSUME NEW w, LeavesTyped(db, w), Administers(w) PROVE TypeInv'
  <2>1. IsDatabase(db')  BY <1>2 DEF Administers, LeavesTyped
  <2>2. Bounded' /\ UNCHANGED <<table, node>>  BY <1>1, <1>2 DEF Administers
  <2> QED BY <2>1, <2>2 DEF TypeInv, NodesTyped
<1>3. CASE \E n \in Nodes : DeleteNode(n)
  <2>1. PICK n \in Nodes : DeleteNode(n)  BY <1>3
  <2>2. Bounded' /\ UNCHANGED <<db, node>> /\ table' = [table EXCEPT ![n] = NoRow]
    BY <1>1, <2>1 DEF DeleteNode
  <2>3. RowTyped(NoRow)  BY DEF RowTyped
  <2> QED BY <2>2, <2>3 DEF TypeInv, NodesTyped
<1>4. IsDatabase(db)  BY DEF TypeInv
<1>5. CASE ChangeProject  BY <1>2, <1>4, <1>5, AdministratorsTyped DEF ChangeProject
<1>6. CASE DeleteAProject  BY <1>2, <1>4, <1>6, AdministratorsTyped DEF DeleteAProject
<1>7. CASE DisableSink  BY <1>2, <1>4, <1>7, AdministratorsTyped DEF DisableSink
<1>8. CASE RemoveSink  BY <1>2, <1>4, <1>8, AdministratorsTyped DEF RemoveSink
<1>9. CASE Assign
  <2>1. PICK p, i : Administers(Assigns(db, p, i))  BY <1>9, Zenon DEF Assign, Assigns
  <2> QED BY <1>2, <1>4, <2>1, AdministratorsTyped
<1>10. CASE Unassign  BY <1>2, <1>4, <1>10, AdministratorsTyped DEF Unassign
<1> QED BY <1>3, <1>5, <1>6, <1>7, <1>8, <1>9, <1>10 DEF Administer

LEMMA TypeNext == ASSUME TypeInv, [Next]_vars PROVE TypeInv'
<1>1. CASE UNCHANGED vars
  BY <1>1 DEF vars, bounds, TypeInv, NodesTyped, Bounded
<1>2. ASSUME NEW n \in Nodes,
             \/ Start(n) \/ Load(n) \/ Bind(n) \/ FindRow(n) \/ PutRow(n) \/ Beat(n) \/ Mark(n)
      PROVE  TypeInv'
  <2>1. UNCHANGED db /\ NodesTyped'  BY <1>2, OwnStepTyped
  <2>2. UNCHANGED bounds
    BY <1>2 DEF Start, Load, Bind, FindRow, PutRow, Beat, Mark, bounds
  <2> QED BY <2>1, <2>2 DEF TypeInv, Bounded, bounds
<1>3. ASSUME NEW n \in Nodes, Fails(n) \/ Crash(n) PROVE TypeInv'
  <2>1. UNCHANGED db /\ NodesTyped'  BY <1>3, OwnStepTyped DEF Fails, Crash
  <2>2. scenario.troubles \in Nat  BY NodeStartAssumption DEF TypeInv, Bounded
  <2>3. Bounded'  BY <1>3, <2>2 DEF Fails, Crash, Trouble, TypeInv, Bounded
  <2> QED BY <2>1, <2>3 DEF TypeInv
<1>4. ASSUME NEW n \in Nodes, Starting(n) \/ Registering(n) \/ Fails(n) \/ Crash(n)
      PROVE  TypeInv'
  BY <1>2, <1>3, <1>4, LookTyped, WriteStepTyped, BindDefaultsTyped DEF Starting, Registering
<1> QED BY <1>1, <1>4, TickTyped, AdministerTyped DEF Next

(* A node that is anywhere in its start writes only what it may, has a     *)
(* status once it is past its seed, and is up if it takes part in the      *)
(* heartbeat; the tables stay typed (repositories/, db/seed.rs).           *)
THEOREM TypeCorrect == Spec => []TypeOK
<1>1. TypeInv /\ [Next]_vars => TypeInv'  BY TypeNext
<1> QED BY <1>1, TypeInit, TypeInvImplies, PTL DEF Spec

---------------------------------------------------------------------------
(***************************************************************************)
(* What a start leaves behind, while nobody changes the configuration:     *)
(* the rows of the seed, which other starts only add to.                   *)
(***************************************************************************)
Shows(D, t, column, value) == Having(D, t, column, value) # {}
LoadtestScripts(D) == Having(D, "scripts", "key", LoadtestScript)

SinksSeeded(D) ==
  \A s \in Live(D, "sinks") : Row(D, "sinks", s).enabled /\ Row(D, "sinks", s).id \in SinkSteps
ProjectsSeeded(D) ==
  /\ \A p \in Live(D, "projects") :
       /\ Row(D, "projects", p).enabled
       /\ Row(D, "projects", p).token \in {TestToken, LoadtestToken}
  /\ \A p, q \in Live(D, "projects") :
       Row(D, "projects", p).token = Row(D, "projects", q).token => p = q
SeededBinding(D, row) ==
  /\ row.enabled
  /\ row.project \in Live(D, "projects") /\ row.script \in Live(D, "scripts")
  /\ Row(D, "projects", row.project).token = TestToken =>
       Row(D, "scripts", row.script).key = DefaultKey
BindingsSeeded(D) ==
  \A b \in Live(D, "bindings") : SeededBinding(D, Row(D, "bindings", b))
Seeded(D) == SinksSeeded(D) /\ ProjectsSeeded(D) /\ BindingsSeeded(D)

(* What is there once a start has come to its k-th instruction.            *)
Reached(D, k, mem) ==
  /\ k > 3 => \A s \in DefaultSinks : s \in mem.missing \/ Shows(D, "sinks", "id", s)
  /\ k > 5 => Shows(D, "sinks", "id", "events")
  /\ k > 6 => Shows(D, "sinks", "id", "events_error")
  /\ k > 8 => Shows(D, "sinks", "id", "parquet_events")
  /\ k > 10 => Shows(D, "sinks", "id", "loadtest_events")
  /\ k > 11 => Shows(D, "projects", "token", TestToken)
  /\ k > 12 => Shows(D, "projects", "token", LoadtestToken)
  /\ k > 15 => Unbound(D) = {}
  /\ k > 16 => mem.project \in Having(D, "projects", "token", LoadtestToken)

(* And once it has come to its end.                                        *)
Complete(D) ==
  /\ \A s \in SinkSteps : Shows(D, "sinks", "id", s)
  /\ Shows(D, "projects", "token", TestToken) /\ Shows(D, "projects", "token", LoadtestToken)
  /\ Unbound(D) = {}
  /\ \A p \in Having(D, "projects", "token", LoadtestToken) :
       \E b \in BindingOf(D, p) : Row(D, "bindings", b).script \in LoadtestScripts(D)

BindsLoadtest(D, mem, w) ==
  \E s \in LoadtestScripts(D) :
    \/ w = Insert("bindings", LoadtestRow(mem.project, s))
    \/ \E b \in BindingOf(D, mem.project) : w = Update("bindings", b, Loadtest(s))

SeedNode(D, x) ==
  /\ x.pc \in {"seed", "write"} => Reached(D, x.step, x.mem)
  /\ x.pc = "write" /\ Seed[x.step] = "bind_loadtest" => BindsLoadtest(D, x.mem, x.write)
  /\ x.pc \notin {"down", "seed", "write"} => Complete(D)

SeedInv == changes = 0 => Seeded(db) /\ \A n \in Nodes : SeedNode(db, node[n])

LEMMA SeedInvImplies == ASSUME TypeInv, SeedInv PROVE SeedComplete
<1> SUFFICES ASSUME changes = 0, NEW n \in Nodes, node[n].status # "none"
             PROVE  /\ EnabledSinkIds(db) = DefaultSinks \cup {"parquet_events", "loadtest_events"}
                    /\ {Row(db, "projects", p).token : p \in EnabledProjects(db)} =
                         {TestToken, LoadtestToken}
                    /\ \A p \in Live(db, "projects") : \E b \in BindingOf(db, p) :
                         LET script == Row(db, "scripts", Row(db, "bindings", b).script).key
                         IN /\ Row(db, "bindings", b).enabled
                            /\ script = IF Row(db, "projects", p).token = LoadtestToken
                                        THEN LoadtestScript ELSE DefaultKey
  BY Zenon DEF SeedComplete
<1>1. Seeded(db) /\ SeedNode(db, node[n])  BY DEF SeedInv
<1>2. node[n].pc \in Late  BY DEF TypeInv, NodesTyped, NodeTyped
<1>3. Complete(db)  BY <1>1, <1>2 DEF SeedNode, Late
<1>4. EnabledSinkIds(db) = DefaultSinks \cup {"parquet_events", "loadtest_events"}
  <2>1. EnabledSinkIds(db) \subseteq SinkSteps  BY <1>1 DEF Seeded, SinksSeeded, EnabledSinkIds
  <2>2. ASSUME NEW s \in SinkSteps PROVE s \in EnabledSinkIds(db)
    <3>1. PICK i \in Live(db, "sinks") : Row(db, "sinks", i).id = s
      BY <1>3 DEF Complete, Shows, Having
    <3> QED BY <1>1, <3>1 DEF Seeded, SinksSeeded, EnabledSinkIds
  <2>3. SinkSteps = DefaultSinks \cup {"parquet_events", "loadtest_events"}
    BY DEF SinkSteps, DefaultSinks
  <2> QED BY <2>1, <2>2, <2>3
<1>5. {Row(db, "projects", p).token : p \in EnabledProjects(db)} = {TestToken, LoadtestToken}
  <2>1. ASSUME NEW p \in EnabledProjects(db)
        PROVE  Row(db, "projects", p).token \in {TestToken, LoadtestToken}
    BY <1>1 DEF Seeded, ProjectsSeeded, EnabledProjects
  <2>2. ASSUME NEW token \in {TestToken, LoadtestToken}
        PROVE  \E p \in EnabledProjects(db) : Row(db, "projects", p).token = token
    <3>1. PICK p \in Live(db, "projects") : Row(db, "projects", p).token = token
      BY <1>3, <2>2 DEF Complete, Shows, Having
    <3> QED BY <1>1, <3>1 DEF Seeded, ProjectsSeeded, EnabledProjects
  <2> QED BY <2>1, <2>2
<1>6. ASSUME NEW p \in Live(db, "projects")
      PROVE  \E b \in BindingOf(db, p) :
               /\ Row(db, "bindings", b).enabled
               /\ Row(db, "scripts", Row(db, "bindings", b).script).key =
                    IF Row(db, "projects", p).token = LoadtestToken THEN LoadtestScript
                    ELSE DefaultKey
  <2>1. \A b \in BindingOf(db, p) : /\ SeededBinding(db, Row(db, "bindings", b))
                                    /\ Row(db, "bindings", b).project = p
    BY <1>1 DEF Seeded, BindingsSeeded, BindingOf
  <2>2. CASE Row(db, "projects", p).token = LoadtestToken
    <3>1. PICK b \in BindingOf(db, p) : Row(db, "bindings", b).script \in LoadtestScripts(db)
      BY <1>3, <2>2 DEF Complete, Having
    <3>2. Row(db, "scripts", Row(db, "bindings", b).script).key = LoadtestScript
      BY <3>1 DEF LoadtestScripts, Having
    <3> QED BY <2>1, <2>2, <3>1, <3>2 DEF SeededBinding
  <2>3. CASE Row(db, "projects", p).token # LoadtestToken
    <3>1. Row(db, "projects", p).token = TestToken
      BY <1>1, <2>3 DEF Seeded, ProjectsSeeded
    <3>2. PICK b \in BindingOf(db, p) : TRUE  BY <1>3 DEF Complete, Unbound
    <3> QED BY <2>1, <2>3, <3>1, <3>2 DEF SeededBinding
  <2> QED BY <2>2, <2>3
<1> QED BY <1>4, <1>5, <1>6, Zenon

LEMMA SeedInit == Init => SeedInv
<1> SUFFICES ASSUME Init PROVE SeedInv  OBVIOUS
<1>1. \A t \in Tables : Live(db, t) = {}  BY DEF Init, Live
<1>2. Seeded(db)  BY <1>1, TablesAre DEF Seeded, SinksSeeded, ProjectsSeeded, BindingsSeeded
<1>3. \A n \in Nodes : node[n].pc = "down"  BY DEF Init, Down
<1> QED BY <1>2, <1>3 DEF SeedInv, SeedNode

(***************************************************************************)
(* A start only lets the tables grow: rows stay as they are, but that a    *)
(* binding may come to run the script of the load test.                    *)
(***************************************************************************)
Grows(D, E) ==
  /\ \A t \in Tables : \A i \in Live(D, t) : i \in Live(E, t)
  /\ \A t \in Tables \ {"bindings"} : \A i \in Live(D, t) : Row(E, t, i) = Row(D, t, i)
  /\ \A b \in Live(D, "bindings") :
       /\ Row(E, "bindings", b).project = Row(D, "bindings", b).project
       /\ \/ Row(E, "bindings", b).script = Row(D, "bindings", b).script
          \/ Row(E, "bindings", b).script \in LoadtestScripts(E)

LEMMA HavingGrows ==
  ASSUME NEW D, NEW E, Grows(D, E), NEW t \in Tables \ {"bindings"}, NEW column, NEW value
  PROVE  /\ Having(D, t, column, value) \subseteq Having(E, t, column, value)
         /\ Shows(D, t, column, value) => Shows(E, t, column, value)
<1>1. \A i \in Having(D, t, column, value) : i \in Having(E, t, column, value)
  BY DEF Grows, Having
<1> QED BY <1>1 DEF Shows

LEMMA BindingOfGrows ==
  ASSUME NEW D, NEW E, Grows(D, E), NEW p
  PROVE  BindingOf(D, p) \subseteq BindingOf(E, p)
BY TablesAre DEF Grows, BindingOf

(* Once both projects are there, there comes no other.                     *)
LEMMA NoOtherProject ==
  ASSUME NEW D, NEW E, Grows(D, E), ProjectsSeeded(E),
         Shows(D, "projects", "token", TestToken), Shows(D, "projects", "token", LoadtestToken)
  PROVE  Live(E, "projects") = Live(D, "projects")
<1>1. Live(D, "projects") \subseteq Live(E, "projects")  BY TablesAre DEF Grows
<1>2. ASSUME NEW p \in Live(E, "projects") PROVE p \in Live(D, "projects")
  <2>1. PICK q \in Live(D, "projects") :
                Row(D, "projects", q).token = Row(E, "projects", p).token
    BY DEF ProjectsSeeded, Shows, Having
  <2>2. q \in Live(E, "projects") /\ Row(E, "projects", q) = Row(D, "projects", q)
    BY <2>1, TablesAre DEF Grows
  <2>3. p = q  BY <2>1, <2>2 DEF ProjectsSeeded
  <2> QED BY <2>1, <2>3
<1> QED BY <1>1, <1>2

LEMMA BoundStaysBound ==
  ASSUME NEW D, NEW E, Grows(D, E), ProjectsSeeded(E),
         Shows(D, "projects", "token", TestToken), Shows(D, "projects", "token", LoadtestToken),
         Unbound(D) = {}
  PROVE  Unbound(E) = {}
<1>1. Live(E, "projects") = Live(D, "projects")  BY NoOtherProject
<1>2. \A p \in Live(D, "projects") : BindingOf(D, p) # {}  BY DEF Unbound
<1>3. \A p \in Live(D, "projects") : BindingOf(E, p) # {}  BY <1>2, BindingOfGrows
<1> QED BY <1>1, <1>3 DEF Unbound

LEMMA ReachedGrows ==
  ASSUME NEW D, NEW E, Grows(D, E), ProjectsSeeded(E), NEW k \in Nat, NEW mem, Reached(D, k, mem)
  PROVE  Reached(E, k, mem)
<1>1. \A id : Shows(D, "sinks", "id", id) => Shows(E, "sinks", "id", id)
  BY HavingGrows, TablesAre
<1>2. \A token : Shows(D, "projects", "token", token) => Shows(E, "projects", "token", token)
  BY HavingGrows, TablesAre
<1>3. Having(D, "projects", "token", LoadtestToken) \subseteq
        Having(E, "projects", "token", LoadtestToken)
  BY HavingGrows, TablesAre
<1>4. k > 15 => Unbound(E) = {}
  <2>1. k > 15 => k > 11 /\ k > 12  OBVIOUS
  <2> QED BY <2>1, BoundStaysBound DEF Reached
<1>5. k > 3 => \A s \in DefaultSinks : s \in mem.missing \/ Shows(E, "sinks", "id", s)
  BY <1>1 DEF Reached
<1> QED BY <1>1, <1>2, <1>3, <1>4, <1>5 DEF Reached

LEMMA CompleteGrows ==
  ASSUME NEW D, NEW E, Grows(D, E), ProjectsSeeded(E), Complete(D)
  PROVE  Complete(E)
<1>1. \A s \in SinkSteps : Shows(E, "sinks", "id", s)
  BY HavingGrows, TablesAre DEF Complete
<1>2. Shows(E, "projects", "token", TestToken) /\ Shows(E, "projects", "token", LoadtestToken)
  BY HavingGrows, TablesAre DEF Complete
<1>3. Unbound(E) = {}  BY BoundStaysBound DEF Complete
<1>4. ASSUME NEW p \in Having(E, "projects", "token", LoadtestToken)
      PROVE  \E b \in BindingOf(E, p) : Row(E, "bindings", b).script \in LoadtestScripts(E)
  <2>1. p \in Live(D, "projects")  BY <1>4, NoOtherProject DEF Complete, Having
  <2>2. p \in Having(D, "projects", "token", LoadtestToken)
    BY <1>4, <2>1, TablesAre DEF Grows, Having
  <2>3. PICK b \in BindingOf(D, p) : Row(D, "bindings", b).script \in LoadtestScripts(D)
    BY <2>2 DEF Complete
  <2>4. b \in BindingOf(E, p) /\ b \in Live(D, "bindings")  BY <2>3, BindingOfGrows DEF BindingOf
  <2>5. LoadtestScripts(D) \subseteq LoadtestScripts(E)
    BY HavingGrows, TablesAre DEF LoadtestScripts
  <2>6. Row(E, "bindings", b).script \in LoadtestScripts(E)  BY <2>3, <2>4, <2>5 DEF Grows
  <2> QED BY <2>4, <2>6
<1> QED BY <1>1, <1>2, <1>3, <1>4 DEF Complete

LEMMA BindsGrows ==
  ASSUME NEW D, NEW E, Grows(D, E), NEW mem, NEW w, BindsLoadtest(D, mem, w)
  PROVE  BindsLoadtest(E, mem, w)
<1>1. LoadtestScripts(D) \subseteq LoadtestScripts(E)
  BY HavingGrows, TablesAre DEF LoadtestScripts
<1>2. BindingOf(D, mem.project) \subseteq BindingOf(E, mem.project)  BY BindingOfGrows
<1> QED BY <1>1, <1>2 DEF BindsLoadtest

(* What a node relies on stays while other nodes start.                    *)
LEMMA SeedNodeGrows ==
  ASSUME NEW D, NEW E, Grows(D, E), ProjectsSeeded(E), NEW x, NodeTyped(x), SeedNode(D, x)
  PROVE  SeedNode(E, x)
<1>1. x.pc \in {"seed", "write"} => x.step \in Nat  BY DEF NodeTyped, Seed
<1>2. x.pc \in {"seed", "write"} => Reached(E, x.step, x.mem)
  BY <1>1, ReachedGrows DEF SeedNode
<1>3. x.pc \notin {"down", "seed", "write"} => Complete(E)  BY CompleteGrows DEF SeedNode
<1>4. x.pc = "write" /\ Seed[x.step] = "bind_loadtest" => BindsLoadtest(E, x.mem, x.write)
  BY BindsGrows DEF SeedNode
<1> QED BY <1>2, <1>3, <1>4 DEF SeedNode

LEMMA InsertGrows ==
  ASSUME NEW D, IsDatabase(D), NEW t \in Tables, NEW row \in Rows[t], NEW w, w = Insert(t, row),
         NEW E, E = Commit(D, w, D.version[CounterOf(t)])
  PROVE  /\ Grows(D, E)
         /\ \A u \in Tables \ {t} : Live(E, u) = Live(D, u)
         /\ \A u \in Tables : \A i \in Live(D, u) : Row(E, u, i) = Row(D, u, i)
         /\ \E n \in Nat : n # 0 /\ Live(E, t) = Live(D, t) \cup {n} /\ Row(E, t, n) = row
                                 /\ n \notin Live(D, t)
<1>0. D.version[CounterOf(t)] \in Nat  BY VersionIsNat
<1>1. /\ \A u \in Tables \ {t} : E.rows[u] = D.rows[u]
      /\ \E n \in Nat : /\ n # 0 /\ n \notin Live(D, t)
                        /\ Live(E, t) = Live(D, t) \cup {n}
                        /\ Row(E, t, n) = row
                        /\ \A i \in Live(D, t) : Row(E, t, i) = Row(D, t, i)
  <2>0. PICK seen \in Nat : seen = D.version[CounterOf(t)]  BY <1>0
  <2>1. E = Commit(D, Insert(t, row), seen)  BY <2>0
  <2>2. ASSUME NEW u \in Tables \ {t} PROVE E.rows[u] = D.rows[u]
    BY <2>1 DEF Commit, Written, Insert
  <2>3. \E n \in Nat : /\ n # 0 /\ n \notin Live(D, t)
                      /\ Live(E, t) = Live(D, t) \cup {n}
                      /\ Row(E, t, n) = row
                      /\ \A i \in Live(D, t) : Row(E, t, i) = Row(D, t, i)
    BY <2>1, InsertWrites
  <2> QED BY <2>2, <2>3
<1>2. \A u \in Tables \ {t} : Live(E, u) = Live(D, u) /\ \A i : Row(E, u, i) = Row(D, u, i)
  BY <1>1, SameTable
<1>3. \A u \in Tables : \A i \in Live(D, u) : Row(E, u, i) = Row(D, u, i)  BY <1>1, <1>2
<1>4. \A u \in Tables : \A i \in Live(D, u) : i \in Live(E, u)  BY <1>1, <1>2
<1>5. Grows(D, E)  BY <1>3, <1>4, TablesAre DEF Grows
<1> QED BY <1>1, <1>2, <1>3, <1>5

LEMMA BindingStaysSeeded ==
  ASSUME NEW D, NEW E, Grows(D, E), NEW row, SeededBinding(D, row)
  PROVE  SeededBinding(E, row)
BY TablesAre DEF SeededBinding, Grows

(* A row of the seed written.                                              *)
LEMMA SeedRowKeepsSeeded ==
  ASSUME NEW D, IsDatabase(D), Seeded(D), NEW step, NEW t, NEW row, SeedRow(step, t, row),
         NEW w, w = Insert(t, row), Allowed(D, w),
         NEW E, E = Commit(D, w, D.version[CounterOf(t)])
  PROVE  Grows(D, E) /\ Seeded(E)
<1>1. t \in Tables /\ row \in Rows[t]  BY SeedRowTyped
<1>2. PICK n \in Nat : n # 0 /\ Live(E, t) = Live(D, t) \cup {n} /\ Row(E, t, n) = row
                             /\ n \notin Live(D, t)
  BY <1>1, InsertGrows
<1>3. /\ Grows(D, E)
      /\ \A u \in Tables \ {t} : Live(E, u) = Live(D, u)
      /\ \A u \in Tables : \A i \in Live(D, u) : Row(E, u, i) = Row(D, u, i)
  BY <1>1, InsertGrows
<1>4. t # "bindings"  BY DEF SeedRow
<1>5. SinksSeeded(E)
  <2>1. CASE t = "sinks"
    <3>1. row.enabled /\ row.id \in SinkSteps  BY <2>1 DEF SeedRow
    <3> QED BY <1>2, <1>3, <2>1, <3>1, TablesAre DEF Seeded, SinksSeeded
  <2>2. CASE t # "sinks"
    BY <1>3, <2>2, TablesAre DEF Seeded, SinksSeeded
  <2> QED BY <2>1, <2>2
<1>6. ProjectsSeeded(E)
  <2>1. CASE t = "projects"
    <3>1. row.enabled /\ row.token \in {TestToken, LoadtestToken}  BY <2>1 DEF SeedRow
    <3>2. ~Duplicate(D, "projects", 0, row)  BY <2>1 DEF Allowed, Insert
    <3>3. \A j \in Live(D, "projects") : j # 0  BY TableTyped, TablesAre
    <3>4. \A j \in Live(D, "projects") : Row(D, "projects", j).token # row.token
      BY <3>2, <3>3 DEF Duplicate, UniqueColumns
    <3>5. \A j \in Live(E, "projects") :
            \/ j = n /\ Row(E, "projects", j) = row
            \/ j \in Live(D, "projects") /\ Row(E, "projects", j) = Row(D, "projects", j)
      BY <1>2, <1>3, <2>1, TablesAre
    <3> QED BY <3>1, <3>4, <3>5 DEF Seeded, ProjectsSeeded
  <2>2. CASE t # "projects"
    <3>1. Live(E, "projects") = Live(D, "projects")
      BY <1>3, <2>2, TablesAre
    <3>2. \A j \in Live(D, "projects") : Row(E, "projects", j) = Row(D, "projects", j)
      BY <1>3, TablesAre
    <3> QED BY <3>1, <3>2 DEF Seeded, ProjectsSeeded
  <2> QED BY <2>1, <2>2
<1>7. BindingsSeeded(E)
  <2>1. Live(E, "bindings") = Live(D, "bindings")  BY <1>3, <1>4, TablesAre
  <2>2. \A b \in Live(D, "bindings") : Row(E, "bindings", b) = Row(D, "bindings", b)
    BY <1>3, TablesAre
  <2> QED BY <1>3, <2>1, <2>2, BindingStaysSeeded DEF Seeded, BindingsSeeded
<1> QED BY <1>3, <1>5, <1>6, <1>7 DEF Seeded

LEMMA SeedRowShows ==
  ASSUME NEW D, IsDatabase(D), NEW step, NEW t, NEW row, SeedRow(step, t, row),
         NEW E, E = Commit(D, Insert(t, row), D.version[CounterOf(t)])
  PROVE  /\ step \in SinkSteps => Shows(E, "sinks", "id", step)
         /\ step = "test_app" => Shows(E, "projects", "token", TestToken)
         /\ step = "loadtest_app" => Shows(E, "projects", "token", LoadtestToken)
<1>1. t \in Tables /\ row \in Rows[t]  BY SeedRowTyped
<1>2. PICK n \in Nat : n \in Live(E, t) /\ Row(E, t, n) = row  BY <1>1, InsertGrows
<1>3. ASSUME step \in SinkSteps PROVE Shows(E, "sinks", "id", step)
  <2>1. t = "sinks" /\ row.id = step
    BY <1>3 DEF SeedRow, SinkSteps, TargetSteps, ProjectSteps, ScriptSteps
  <2> QED BY <1>2, <2>1 DEF Shows, Having
<1>4. ASSUME step \in ProjectSteps
      PROVE  Shows(E, "projects", "token", IF step = "test_app" THEN TestToken ELSE LoadtestToken)
  <2>1. t = "projects" /\ row.token = IF step = "test_app" THEN TestToken ELSE LoadtestToken
    BY <1>4 DEF SeedRow, SinkSteps, TargetSteps, ProjectSteps, ScriptSteps
  <2> QED BY <1>2, <2>1 DEF Shows, Having
<1> QED BY <1>3, <1>4 DEF ProjectSteps

(* The instruction before the next one adds what the next one relies on.   *)
LEMMA SeedRowReaches ==
  ASSUME NEW D, IsDatabase(D), Seeded(D), NEW k \in DOMAIN Seed, NEW mem, Reached(D, k, mem),
         NEW t, NEW row, SeedRow(Seed[k], t, row), NEW w, w = Insert(t, row), Allowed(D, w),
         NEW E, E = Commit(D, w, D.version[CounterOf(t)])
  PROVE  k # 17 /\ Reached(E, k + 1, mem)
<1>1. Grows(D, E) /\ Seeded(E)  BY SeedRowKeepsSeeded
<1>2. k \in 1 .. 17  BY DEF Seed
<1>3. Reached(E, k, mem)  BY <1>1, <1>2, ReachedGrows DEF Seeded
<1>4. k \notin {3, 7, 15, 16, 17}
  BY <1>2 DEF SeedRow, Seed, TargetSteps, SinkSteps, ProjectSteps, ScriptSteps
<1>5. /\ k = 5 => Shows(E, "sinks", "id", "events")
      /\ k = 6 => Shows(E, "sinks", "id", "events_error")
      /\ k = 8 => Shows(E, "sinks", "id", "parquet_events")
      /\ k = 10 => Shows(E, "sinks", "id", "loadtest_events")
      /\ k = 11 => Shows(E, "projects", "token", TestToken)
      /\ k = 12 => Shows(E, "projects", "token", LoadtestToken)
  <2>1. /\ Seed[5] = "events" /\ Seed[6] = "events_error"
        /\ Seed[8] = "parquet_events" /\ Seed[10] = "loadtest_events"
        /\ Seed[11] = "test_app" /\ Seed[12] = "loadtest_app"
    BY DEF Seed
  <2>2. {"events", "events_error", "parquet_events", "loadtest_events"} = SinkSteps
    BY DEF SinkSteps
  <2> QED BY <2>1, <2>2, SeedRowShows
<1> QED BY <1>2, <1>3, <1>4, <1>5 DEF Reached

(* The load test's binding written: alone or over another.                 *)
LoadtestBound(D, E, p, s) ==
  /\ Grows(D, E)
  /\ \A t \in Tables \ {"bindings"} : Live(E, t) = Live(D, t)
  /\ \A b \in Live(E, "bindings") :
       \/ b \in Live(D, "bindings") /\ Row(E, "bindings", b) = Row(D, "bindings", b)
       \/ Row(E, "bindings", b) = LoadtestRow(p, s)
  /\ \E b \in BindingOf(E, p) : Row(E, "bindings", b).script = s

LEMMA LoadtestInserted ==
  ASSUME NEW D, IsDatabase(D), NEW p \in Nat, NEW s \in Nat,
         NEW w, w = Insert("bindings", LoadtestRow(p, s)),
         NEW E, E = Commit(D, w, D.version[CounterOf("bindings")])
  PROVE  LoadtestBound(D, E, p, s)
<1> DEFINE row == LoadtestRow(p, s)
<1>1. row \in Rows["bindings"] /\ "bindings" \in Tables /\ row.project = p /\ row.script = s
  BY TablesAre DEF LoadtestRow, BindingRow
<1> HIDE DEF row
<1>2. w = Insert("bindings", row)  BY DEF row
<1>3. PICK n \in Nat : /\ n # 0 /\ Live(E, "bindings") = Live(D, "bindings") \cup {n}
                       /\ Row(E, "bindings", n) = row
  BY <1>1, <1>2, InsertGrows
<1>4. /\ Grows(D, E)
      /\ \A u \in Tables \ {"bindings"} : Live(E, u) = Live(D, u)
      /\ \A u \in Tables : \A i \in Live(D, u) : Row(E, u, i) = Row(D, u, i)
  BY <1>1, <1>2, InsertGrows
<1>5. n \in BindingOf(E, p) /\ Row(E, "bindings", n).script = s
  BY <1>1, <1>3 DEF BindingOf
<1>6. \A b \in Live(E, "bindings") :
       \/ b \in Live(D, "bindings") /\ Row(E, "bindings", b) = Row(D, "bindings", b)
       \/ Row(E, "bindings", b) = LoadtestRow(p, s)
  BY <1>1, <1>3, <1>4 DEF row
<1> QED BY <1>4, <1>5, <1>6 DEF LoadtestBound

LEMMA LoadtestUpdated ==
  ASSUME NEW D, IsDatabase(D), NEW p \in Nat, NEW s \in LoadtestScripts(D),
         NEW b \in BindingOf(D, p), NEW w, w = Update("bindings", b, Loadtest(s)),
         NEW E, E = Commit(D, w, D.version[CounterOf("bindings")])
  PROVE  LoadtestBound(D, E, p, s)
<1>1. /\ b \in Live(D, "bindings") /\ "bindings" \in Tables /\ s \in Nat
      /\ Row(D, "bindings", b).project = p
  BY TablesAre, HavingIsLive DEF BindingOf, LoadtestScripts
<1>2. PICK seen \in Nat : seen = D.version[CounterOf("bindings")]  BY <1>1, VersionIsNat
<1>3. PICK set : set = Loadtest(s)  OBVIOUS
<1>4. With(Row(D, "bindings", b), set) = LoadtestRow(p, s)  BY <1>1, <1>3, BindingWithScript
<1>5. With(Row(D, "bindings", b), set) \in Rows["bindings"]
  BY <1>1, <1>3, BindingWithScript, TablesAre
<1>6. E = Commit(D, Update("bindings", b, set), seen)  BY <1>2, <1>3
<1>7. /\ Live(E, "bindings") = Live(D, "bindings")
      /\ Row(E, "bindings", b) = LoadtestRow(p, s)
      /\ \A j \in Live(D, "bindings") \ {b} : Row(E, "bindings", j) = Row(D, "bindings", j)
  BY <1>1, <1>4, <1>5, <1>6, UpdateWrites
<1>8. \A u \in Tables \ {"bindings"} : E.rows[u] = D.rows[u]
  BY <1>6 DEF Commit, Written, Update
<1>9. \A u \in Tables \ {"bindings"} :
        Live(E, u) = Live(D, u) /\ \A i : Row(E, u, i) = Row(D, u, i)
  BY <1>8, SameTable
<1>10. s \in LoadtestScripts(E)
  <2>1. Live(E, "scripts") = Live(D, "scripts") /\ Row(E, "scripts", s) = Row(D, "scripts", s)
    BY <1>9, TablesAre
  <2> QED BY <2>1 DEF LoadtestScripts, Having
<1>11. LoadtestRow(p, s).project = p /\ LoadtestRow(p, s).script = s  BY DEF LoadtestRow
<1>12. Grows(D, E)
  <2>1. \A t \in Tables : \A i \in Live(D, t) : i \in Live(E, t)  BY <1>7, <1>9
  <2>2. \A j \in Live(D, "bindings") :
       /\ Row(E, "bindings", j).project = Row(D, "bindings", j).project
       /\ \/ Row(E, "bindings", j).script = Row(D, "bindings", j).script
          \/ Row(E, "bindings", j).script \in LoadtestScripts(E)
    BY <1>1, <1>7, <1>10, <1>11
  <2> QED BY <1>9, <2>1, <2>2 DEF Grows
<1>13. b \in BindingOf(E, p) /\ Row(E, "bindings", b).script = s
  BY <1>1, <1>7, <1>11 DEF BindingOf
<1> QED BY <1>7, <1>9, <1>12, <1>13 DEF LoadtestBound

LEMMA LoadtestCompletes ==
  ASSUME NEW D, IsDatabase(D), Seeded(D), NEW mem, Reached(D, 17, mem),
         NEW w, BindsLoadtest(D, mem, w), NEW E, E = Commit(D, w, D.version[CounterOf(w.table)])
  PROVE  Grows(D, E) /\ Seeded(E) /\ Complete(E)
<1>1. PICK s \in LoadtestScripts(D) :
             \/ w = Insert("bindings", LoadtestRow(mem.project, s))
             \/ \E b \in BindingOf(D, mem.project) : w = Update("bindings", b, Loadtest(s))
  BY DEF BindsLoadtest
<1>2. PICK p : p = mem.project  OBVIOUS
<1>3. p \in Having(D, "projects", "token", LoadtestToken)  BY <1>2 DEF Reached
<1>4. /\ p \in Live(D, "projects") /\ Row(D, "projects", p).token = LoadtestToken
      /\ s \in Live(D, "scripts") /\ p \in Nat /\ s \in Nat
  BY <1>3, HavingIsLive, TablesAre DEF Having, LoadtestScripts
<1>5. LoadtestBound(D, E, p, s)
  <2>1. w.table = "bindings"  BY <1>1 DEF Insert, Update
  <2> QED BY <1>1, <1>2, <1>4, <2>1, LoadtestInserted, LoadtestUpdated
<1>6. Grows(D, E)  BY <1>5 DEF LoadtestBound
<1>7. \A t \in Tables \ {"bindings"} : \A i \in Live(E, t) :
        i \in Live(D, t) /\ Row(E, t, i) = Row(D, t, i)
  BY <1>5, <1>6 DEF LoadtestBound, Grows
<1>8. SinksSeeded(E)  BY <1>7, TablesAre DEF Seeded, SinksSeeded
<1>9. ProjectsSeeded(E)
  <2>1. \A i \in Live(E, "projects") :
          i \in Live(D, "projects") /\ Row(E, "projects", i) = Row(D, "projects", i)
    BY <1>7, TablesAre
  <2> QED BY <2>1 DEF Seeded, ProjectsSeeded
<1>10. SeededBinding(D, LoadtestRow(p, s))
  BY <1>4 DEF SeededBinding, LoadtestRow, TestToken, LoadtestToken
<1>11. BindingsSeeded(E)
  <2>1. ASSUME NEW b \in Live(E, "bindings")
        PROVE  SeededBinding(D, Row(E, "bindings", b))
    BY <1>5, <1>10 DEF Seeded, BindingsSeeded, LoadtestBound
  <2> QED BY <1>6, <2>1, BindingStaysSeeded DEF BindingsSeeded
<1>12. Reached(E, 17, mem)  BY <1>6, <1>9, ReachedGrows
<1>13. ASSUME NEW q \in Having(E, "projects", "token", LoadtestToken)
       PROVE  \E b \in BindingOf(E, q) : Row(E, "bindings", b).script \in LoadtestScripts(E)
  <2>1. p \in Having(E, "projects", "token", LoadtestToken)  BY <1>2, <1>12 DEF Reached
  <2>2. p = q  BY <1>9, <1>13, <2>1 DEF ProjectsSeeded, Having
  <2>3. s \in LoadtestScripts(E)
    BY <1>1, <1>6, HavingGrows, TablesAre DEF LoadtestScripts
  <2> QED BY <1>5, <2>2, <2>3 DEF LoadtestBound
<1>14. Complete(E)
  <2>1. /\ Shows(E, "sinks", "id", "events") /\ Shows(E, "sinks", "id", "events_error")
        /\ Shows(E, "sinks", "id", "parquet_events") /\ Shows(E, "sinks", "id", "loadtest_events")
        /\ Shows(E, "projects", "token", TestToken) /\ Shows(E, "projects", "token", LoadtestToken)
        /\ Unbound(E) = {}
    BY <1>12 DEF Reached
  <2> QED BY <1>13, <2>1 DEF Complete, SinkSteps
<1> QED BY <1>6, <1>8, <1>9, <1>11, <1>14 DEF Seeded

(* Every project bound to the default script, if it had no binding.        *)
LEMMA DefaultsReach ==
  ASSUME NEW D, IsDatabase(D), Seeded(D), DefaultScript(D) # 0, NEW mem, Reached(D, 15, mem),
         NEW E, E = DefaultBindings(D)
  PROVE  Grows(D, E) /\ Seeded(E) /\ Reached(E, 16, mem)
<1>1. CASE Unbound(D) = {}
  <2>1. E = D  BY <1>1 DEF DefaultBindings
  <2>2. Grows(D, D)  BY DEF Grows
  <2> QED BY <1>1, <2>1, <2>2 DEF Reached
<1>2. CASE Unbound(D) # {}
  <2> DEFINE d == DefaultScript(D)
  <2>1. /\ \A t \in Tables \ {"bindings"} : E.rows[t] = D.rows[t]
        /\ \A b \in Live(D, "bindings") : /\ b \in Live(E, "bindings")
                                          /\ Row(E, "bindings", b) = Row(D, "bindings", b)
        /\ \A b \in Live(E, "bindings") \ Live(D, "bindings") :
             \E p \in Unbound(D) : Row(E, "bindings", b) = LoadtestRow(p, d)
        /\ \A p \in Unbound(D) : \E b \in Live(E, "bindings") :
             Row(E, "bindings", b) = LoadtestRow(p, d)
    BY <1>2, DefaultBindingsTyped
  <2>2. d \in Live(D, "scripts") /\ Row(D, "scripts", d).key = DefaultKey  BY DefaultScriptIs
  <2> HIDE DEF d
  <2>3. \A t \in Tables \ {"bindings"} :
          Live(E, t) = Live(D, t) /\ \A i : Row(E, t, i) = Row(D, t, i)
    BY <2>1, SameTable
  <2>4. Grows(D, E)  BY <2>1, <2>3 DEF Grows
  <2>5. SinksSeeded(E)  BY <2>3, TablesAre DEF Seeded, SinksSeeded
  <2>6. ProjectsSeeded(E)
    <3>1. /\ Live(E, "projects") = Live(D, "projects")
          /\ \A i : Row(E, "projects", i) = Row(D, "projects", i)
      BY <2>3, TablesAre
    <3> QED BY <3>1 DEF Seeded, ProjectsSeeded
  <2>7. ASSUME NEW p \in Unbound(D) PROVE SeededBinding(D, LoadtestRow(p, d))
    BY <2>2, <2>7 DEF SeededBinding, LoadtestRow, Unbound
  <2>8. BindingsSeeded(E)
    <3>1. ASSUME NEW b \in Live(E, "bindings") PROVE SeededBinding(D, Row(E, "bindings", b))
      <4>1. CASE b \in Live(D, "bindings")  BY <2>1, <4>1 DEF Seeded, BindingsSeeded
      <4>2. CASE b \notin Live(D, "bindings")  BY <2>1, <2>7, <4>2
      <4> QED BY <4>1, <4>2
    <3> QED BY <2>4, <3>1, BindingStaysSeeded DEF BindingsSeeded
  <2>9. Unbound(E) = {}
    <3>1. Live(E, "projects") = Live(D, "projects")  BY <2>3, TablesAre
    <3>2. ASSUME NEW p \in Live(D, "projects") PROVE BindingOf(E, p) # {}
      <4>1. CASE p \in Unbound(D)
        <5>1. PICK b \in Live(E, "bindings") : Row(E, "bindings", b) = LoadtestRow(p, d)
          BY <2>1, <4>1
        <5>2. LoadtestRow(p, d).project = p  BY DEF LoadtestRow
        <5> QED BY <5>1, <5>2 DEF BindingOf
      <4>2. CASE p \notin Unbound(D)
        <5>1. BindingOf(D, p) # {}  BY <3>2, <4>2 DEF Unbound
        <5> QED BY <2>4, <5>1, BindingOfGrows
      <4> QED BY <4>1, <4>2
    <3> QED BY <3>1, <3>2 DEF Unbound
  <2>10. Reached(E, 15, mem)  BY <2>4, <2>6, ReachedGrows
  <2> QED BY <2>4, <2>5, <2>6, <2>8, <2>9, <2>10 DEF Seeded, Reached
<1> QED BY <1>1, <1>2

(***************************************************************************)
(* An instruction that has nothing to do finds there what it would write.  *)
(***************************************************************************)
GoesWell(D, k, does) ==
  /\ does.write.do = "refuse" /\ does.write.error = "nothing" =>
       k # 17 /\ Reached(D, k + 1, does.mem)
  /\ does.write.do # "refuse" =>
       /\ Reached(D, k, does.mem)
       /\ k = 17 => BindsLoadtest(D, does.mem, does.write)

LEMMA SkipGoesWell ==
  ASSUME NEW D, NEW k, k # 17, NEW mem, Reached(D, k + 1, mem)
  PROVE  GoesWell(D, k, Skip(mem))
BY DEF GoesWell, Skip, Refuse

LEMMA StopGoesWell ==
  ASSUME NEW D, NEW k, NEW error, error # "nothing"
  PROVE  GoesWell(D, k, Stops(error))
BY DEF GoesWell, Stops, Refuse

(* A repository's refusal is an error, and ends the start.                 *)
IsError(w) == w.do = "refuse" => w.error # "nothing"

LEMMA WriteGoesWell ==
  ASSUME NEW D, NEW k, NEW mem, Reached(D, k, mem), NEW w, IsError(w),
         w.do # "refuse" /\ k = 17 => BindsLoadtest(D, mem, w)
  PROVE  GoesWell(D, k, Writes(w, mem))
BY DEF GoesWell, Writes, IsError

LEMMA RefusalsAreErrors ==
  ASSUME NEW D
  PROVE  /\ \A row : IsError(CreateTarget(D, row))
         /\ \A row : IsError(CreateSink(D, row))
         /\ \A row : IsError(CreateProject(D, row))
         /\ \A row, ids : IsError(CreateScript(D, row, ids))
         /\ \A p, s : IsError(Assigns(D, p, s))
<1>1. \A row : IsError(CreateTarget(D, row))  BY DEF IsError, CreateTarget, Refuse, Insert
<1>2. \A row : IsError(CreateSink(D, row))  BY DEF IsError, CreateSink, Refuse, Insert
<1>3. \A row : IsError(CreateProject(D, row))  BY DEF IsError, CreateProject, Refuse, Insert
<1>4. \A row, ids : IsError(CreateScript(D, row, ids))
  BY DEF IsError, CreateScript, Refuse, Insert
<1>5. \A p, s : IsError(Assigns(D, p, s))
  BY DEF IsError, Assigns, AssignProcessor, Refuse, Insert, Update
<1> QED BY <1>1, <1>2, <1>3, <1>4, <1>5

LEMMA ReachedSame ==
  ASSUME NEW D, NEW k, NEW mem, NEW other, other.missing = mem.missing,
         other.project = mem.project, Reached(D, k, mem)
  PROVE  Reached(D, k, other)
BY DEF Reached

LEMMA EnsureTargetGoesWell ==
  ASSUME NEW D, NEW k, k # 17, NEW target, NEW mem \in Memory,
         Reached(D, k, mem), Reached(D, k + 1, mem)
  PROVE  GoesWell(D, k, EnsureTarget(D, target, mem))
<1> DEFINE found == Having(D, "targets", "id", target.id)
           old == [mem EXCEPT !.target = TheOne(found)]
           new == [mem EXCEPT !.target = Len(D.rows["targets"]) + 1]
<1>1. /\ old.missing = mem.missing /\ old.project = mem.project
      /\ new.missing = mem.missing /\ new.project = mem.project
  BY DEF Memory
<1> HIDE DEF old, new
<1>2. Reached(D, k + 1, old) /\ Reached(D, k, new)  BY <1>1, ReachedSame
<1>3. GoesWell(D, k, Skip(old))  BY <1>2, SkipGoesWell
<1>4. GoesWell(D, k, Writes(CreateTarget(D, target), new))
  BY <1>2, RefusalsAreErrors, WriteGoesWell
<1> QED BY <1>3, <1>4 DEF EnsureTarget, old, new

LEMMA DecideGoesWell ==
  ASSUME NEW D, IsDatabase(D), NEW k \in DOMAIN Seed, k # 15, NEW mem \in Memory,
         Reached(D, k, mem)
  PROVE  GoesWell(D, k, Decide(Seed[k], D, mem))
<1>0. k \in {1, 2, 3, 4, 5, 6, 7, 8, 9, 10, 11, 12, 13, 14, 16, 17}  BY DEF Seed
<1> USE DEF DefaultSinks
<1>1. ASSUME k \in {1, 2, 4, 9, 13, 14, 7} PROVE Reached(D, k + 1, mem)
  BY <1>1 DEF Reached
<1>2. \A row : k \notin {16, 17} => GoesWell(D, k, Writes(CreateSink(D, row), mem))
  BY RefusalsAreErrors, WriteGoesWell
<1>3. CASE k \in {1, 2, 4, 9}
  <2>1. \A target : GoesWell(D, k, EnsureTarget(D, target, mem))
    BY <1>1, <1>3, EnsureTargetGoesWell
  <2>2. GoesWell(D, k, Skip(mem))  BY <1>1, <1>3, SkipGoesWell
  <2>3. CASE k = 1
    <3>1. Seed[k] = "local_kafka"  BY <2>3 DEF Seed
    <3>2. Decide(Seed[k], D, mem) = EnsureTarget(D, DefaultTargets[1], mem)
      BY <3>1 DEF Decide
    <3> QED BY <2>1, <3>2
  <2>4. CASE k = 2
    <3>1. Seed[k] = "local_parquet"  BY <2>4 DEF Seed
    <3>2. Decide(Seed[k], D, mem) = EnsureTarget(D, DefaultTargets[2], mem)
      BY <3>1 DEF Decide
    <3> QED BY <2>1, <3>2
  <2>5. CASE k = 4
    <3>1. Seed[k] = "default_stdout"  BY <2>5 DEF Seed
    <3>2. Decide(Seed[k], D, mem) = IF mem.missing = {} THEN Skip(mem)
                                    ELSE EnsureTarget(D, DefaultTargets[3], mem)
      BY <3>1 DEF Decide
    <3> QED BY <2>1, <2>2, <3>2
  <2>6. CASE k = 9
    <3>1. Seed[k] = "loadtest_blackhole"  BY <2>6 DEF Seed
    <3>2. Decide(Seed[k], D, mem) = EnsureTarget(D, DefaultTargets[4], mem)
      BY <3>1 DEF Decide
    <3> QED BY <2>1, <3>2
  <2> QED BY <1>3, <2>3, <2>4, <2>5, <2>6
<1>4. CASE k = 3
  <2> DEFINE new == [mem EXCEPT !.missing =
                       {s \in DefaultSinks : Having(D, "sinks", "id", s) = {}}]
  <2>1. Decide(Seed[k], D, mem) = Skip(new)  BY <1>4 DEF Decide, Seed
  <2>2. \A s \in DefaultSinks : s \in new.missing \/ Shows(D, "sinks", "id", s)
    BY DEF Memory, Shows
  <2> HIDE DEF new
  <2>3. Reached(D, k + 1, new)  BY <1>4, <2>2 DEF Reached
  <2> QED BY <1>4, <2>1, <2>3, SkipGoesWell
<1>5. CASE k \in {5, 6}
  <2> DEFINE step == Seed[k]
  <2>1. step = IF k = 5 THEN "events" ELSE "events_error"  BY <1>5 DEF Seed
  <2>2. Decide(step, D, mem) =
          IF step \notin mem.missing THEN Skip(mem)
          ELSE Writes(CreateSink(D, SeedSink(step, mem.target, "plain")), mem)
    BY <1>5, <2>1 DEF Decide
  <2>3. step \notin mem.missing => Reached(D, k + 1, mem)  BY <1>5, <2>1 DEF Reached
  <2> HIDE DEF step
  <2>4. GoesWell(D, k, Decide(step, D, mem))  BY <1>2, <1>5, <2>2, <2>3, SkipGoesWell
  <2> QED BY <2>4 DEF step
<1>6. CASE k = 7
  <2> DEFINE found == Having(D, "targets", "id", "local_parquet")
             new == [mem EXCEPT !.target = TheOne(found)]
  <2>1. Decide(Seed[k], D, mem) = IF found = {}
                                  THEN Stops("local parquet delivery target is missing")
                                  ELSE Skip(new)
    BY <1>6 DEF Decide, Seed
  <2>2. new.missing = mem.missing /\ new.project = mem.project  BY DEF Memory
  <2> HIDE DEF found, new
  <2>3. Reached(D, k + 1, new)  BY <1>1, <1>6, <2>2, ReachedSame
  <2>4. GoesWell(D, k, Skip(new))  BY <1>6, <2>3, SkipGoesWell
  <2>5. GoesWell(D, k, Stops("local parquet delivery target is missing"))  BY StopGoesWell
  <2> QED BY <2>1, <2>4, <2>5
<1>7. CASE k \in {8, 10}
  <2> DEFINE step == Seed[k]
  <2>1. step = IF k = 8 THEN "parquet_events" ELSE "loadtest_events"  BY <1>7 DEF Seed
  <2>2. \E dest : Decide(step, D, mem) = EnsureSink(D, step, dest, mem)
    BY <1>7, <2>1 DEF Decide
  <2>3. Having(D, "sinks", "id", step) # {} => Reached(D, k + 1, mem)
    BY <1>7, <2>1 DEF Reached, Shows
  <2> HIDE DEF step
  <2>4. GoesWell(D, k, Decide(step, D, mem))
    BY <1>2, <1>7, <2>2, <2>3, SkipGoesWell DEF EnsureSink
  <2> QED BY <2>4 DEF step
<1>8. CASE k \in {11, 12}
  <2> DEFINE step == Seed[k]
             token == IF k = 11 THEN TestToken ELSE LoadtestToken
  <2>1. step = IF k = 11 THEN "test_app" ELSE "loadtest_app"  BY <1>8 DEF Seed
  <2>2. Decide(step, D, mem) = EnsureProject(D, token, step, mem)  BY <1>8, <2>1 DEF Decide
  <2>3. Having(D, "projects", "token", token) # {} => Reached(D, k + 1, mem)
    BY <1>8 DEF Reached, Shows
  <2> HIDE DEF step, token
  <2>4. \A row : GoesWell(D, k, Writes(CreateProject(D, row), mem))
    BY <1>8, RefusalsAreErrors, WriteGoesWell
  <2>5. GoesWell(D, k, Decide(step, D, mem))
    BY <1>8, <2>2, <2>3, <2>4, SkipGoesWell DEF EnsureProject
  <2> QED BY <2>5 DEF step
<1>9. CASE k \in {13, 14}
  <2>1. \A row, ids : GoesWell(D, k, Writes(CreateScript(D, row, ids), mem))
    BY <1>9, RefusalsAreErrors, WriteGoesWell
  <2>2. GoesWell(D, k, Skip(mem))  BY <1>1, <1>9, SkipGoesWell
  <2>3. \A exists, key, source : GoesWell(D, k, EnsureScript(D, exists, key, source, mem))
    BY <2>1, <2>2 DEF EnsureScript
  <2>4. CASE k = 13
    <3>1. Seed[k] = "default_script"  BY <2>4 DEF Seed
    <3>2. Decide(Seed[k], D, mem) =
            EnsureScript(D, DefaultScript(D) # 0, DefaultKey, {Constant[s] : s \in DefaultSinks}, mem)
      BY <3>1, Zenon DEF Decide
    <3> QED BY <2>3, <3>2, Zenon
  <2>5. CASE k = 14
    <3>1. Seed[k] = "loadtest_script"  BY <2>5 DEF Seed
    <3>2. Decide(Seed[k], D, mem) =
            EnsureScript(D, Having(D, "scripts", "key", LoadtestScript) # {}, LoadtestScript,
                         {Constant["loadtest_events"]}, mem)
      BY <3>1, Zenon DEF Decide
    <3> QED BY <2>3, <3>2, Zenon
  <2> QED BY <1>9, <2>4, <2>5
<1>10. CASE k = 16
  <2> DEFINE found == Having(D, "projects", "token", LoadtestToken)
             new == [mem EXCEPT !.project = IF found = {} THEN 0 ELSE TheOne(found)]
  <2>1. Decide(Seed[k], D, mem) = Skip(new)  BY <1>10 DEF Decide, Seed
  <2>2. found # {}  BY <1>10 DEF Reached, Shows
  <2>3. TheOne(found) \in found  BY <2>2 DEF TheOne
  <2>4. new.missing = mem.missing /\ new.project \in found  BY <2>2, <2>3 DEF Memory
  <2> HIDE DEF new
  <2>5. Reached(D, k + 1, new)  BY <1>10, <2>4 DEF Reached
  <2> QED BY <1>10, <2>1, <2>5, SkipGoesWell
<1>11. CASE k = 17
  <2> DEFINE found == Having(D, "scripts", "key", LoadtestScript)
  <2>1. mem.project # 0  BY <1>11, HavingIsLive, TablesAre DEF Reached
  <2>2. Decide(Seed[k], D, mem) = IF found = {} THEN Stops("loadtest processor seed is missing")
                                  ELSE Writes(Assigns(D, mem.project, TheOne(found)), mem)
    BY <1>11, <2>1, Zenon DEF Decide, Seed, BindLoadtest, Assigns
  <2>3. ASSUME found # {}, NEW p, p = mem.project, NEW w, w = Assigns(D, p, TheOne(found)),
               w.do # "refuse"
        PROVE  BindsLoadtest(D, mem, w)
    <3>1. PICK s \in found : s = TheOne(found)  BY <2>3 DEF TheOne
    <3>2. \/ w = Insert("bindings", LoadtestRow(p, s))
          \/ \E b \in BindingOf(D, p) : w = Update("bindings", b, Loadtest(s))
      BY <2>3, <3>1, AssignIs
    <3> QED BY <2>3, <3>1, <3>2 DEF BindsLoadtest, LoadtestScripts
  <2>4. ASSUME found # {}, NEW p, p = mem.project, NEW w, w = Assigns(D, p, TheOne(found))
        PROVE  GoesWell(D, k, Writes(w, mem))
    <3>1. IsError(w)  BY <2>4, RefusalsAreErrors
    <3>2. w.do # "refuse" => BindsLoadtest(D, mem, w)  BY <2>3, <2>4
    <3> QED BY <3>1, <3>2, WriteGoesWell
  <2>5. GoesWell(D, k, Stops("loadtest processor seed is missing"))  BY StopGoesWell
  <2> HIDE DEF found
  <2> QED BY <2>2, <2>4, <2>5
<1> QED BY <1>0, <1>3, <1>4, <1>5, <1>6, <1>7, <1>8, <1>9, <1>10, <1>11

(***************************************************************************)
(* The steps, while nobody changes the configuration.                      *)
(***************************************************************************)
SeedNow == Seeded(db) /\ \A n \in Nodes : SeedNode(db, node[n])

LEMMA GrowsItself == ASSUME NEW D PROVE Grows(D, D)
BY DEF Grows

LEMMA NodeGoesOn ==
  ASSUME TypeInv, SeedNow, NEW n \in Nodes, NEW state, Goes(n, state), SeedNode(db', state),
         Grows(db, db'), Seeded(db')
  PROVE  SeedNow'
<1>1. \A m \in Nodes : node'[m] = IF m = n THEN state ELSE node[m]
  BY DEF TypeInv, NodesTyped, Goes
<1>2. \A m \in Nodes : SeedNode(db', node[m])
  BY SeedNodeGrows DEF TypeInv, NodesTyped, SeedNow, Seeded
<1> QED BY <1>1, <1>2 DEF SeedNow

LEMMA QuietSeed ==
  ASSUME TypeInv, SeedNow, NEW n \in Nodes, NEW state, Goes(n, state), SeedNode(db, state),
         UNCHANGED db
  PROVE  SeedNow'
BY NodeGoesOn, GrowsItself DEF SeedNow

LEMMA DownIsSeeded == ASSUME NEW D PROVE SeedNode(D, Down)
BY DEF SeedNode, Down

LEMMA OnwardIsSeeded ==
  ASSUME TypeInv, NEW n \in Nodes, node[n].pc \in {"seed", "write"}, NEW mem, NEW D,
         node[n].step # 17 => Reached(D, node[n].step + 1, mem),
         node[n].step = 17 => Complete(D)
  PROVE  SeedNode(D, Onward(n, mem))
<1>1. DOMAIN node[n] = DOMAIN Down  BY DEF TypeInv, NodesTyped, NodeTyped
<1>2. Len(Seed) = 17  BY DEF Seed
<1> DEFINE x == Onward(n, mem)
<1>3. /\ x.pc = IF node[n].step = 17 THEN "load" ELSE "seed"
      /\ x.step = node[n].step + 1 /\ x.mem = mem
  BY <1>1, <1>2 DEF Onward, Down
<1> HIDE DEF x
<1>4. SeedNode(D, x)  BY <1>3 DEF SeedNode
<1> QED BY <1>4 DEF x

LEMMA LookSeeds == ASSUME TypeInv, SeedNow, NEW n \in Nodes, Look(n) PROVE SeedNow'
<1> DEFINE k == node[n].step
           does == Decide(Seed[k], db, node[n].mem)
<1>1. UNCHANGED db  BY DEF Look, Exits
<1>2. /\ node[n].pc = "seed" /\ k \in DOMAIN Seed /\ DOMAIN node[n] = DOMAIN Down
      /\ node[n].mem \in Memory
  BY DEF Look, TypeInv, NodesTyped, NodeTyped
<1>3. Reached(db, k, node[n].mem)  BY <1>2 DEF SeedNow, SeedNode
<1>4. k # 15  BY DEF Look, Seed
<1>5. GoesWell(db, k, does)  BY <1>2, <1>3, <1>4, DecideGoesWell DEF TypeInv
<1> HIDE DEF does
<1>6. \/ /\ does.write.do = "refuse" /\ does.write.error = "nothing"
         /\ Goes(n, Onward(n, does.mem))
      \/ Goes(n, Down)
      \/ /\ does.write.do # "refuse"
         /\ Goes(n, [node[n] EXCEPT !.pc = "write", !.write = does.write, !.mem = does.mem])
  BY DEF Look, Exits, does
<1>7. CASE /\ does.write.do = "refuse" /\ does.write.error = "nothing"
           /\ Goes(n, Onward(n, does.mem))
  <2>1. k # 17 /\ Reached(db, k + 1, does.mem)  BY <1>5, <1>7 DEF GoesWell
  <2>2. SeedNode(db, Onward(n, does.mem))  BY <1>2, <2>1, OnwardIsSeeded
  <2> QED BY <1>1, <1>7, <2>2, QuietSeed
<1>8. CASE Goes(n, Down)  BY <1>1, <1>8, DownIsSeeded, QuietSeed
<1>9. CASE /\ does.write.do # "refuse"
           /\ Goes(n, [node[n] EXCEPT !.pc = "write", !.write = does.write, !.mem = does.mem])
  <2> DEFINE x == [node[n] EXCEPT !.pc = "write", !.write = does.write, !.mem = does.mem]
  <2>1. x.pc = "write" /\ x.step = k /\ x.write = does.write /\ x.mem = does.mem
    BY <1>2 DEF Down
  <2>2. /\ Reached(db, k, does.mem)
        /\ k = 17 => BindsLoadtest(db, does.mem, does.write)
    BY <1>5, <1>9 DEF GoesWell
  <2>3. Seed[k] = "bind_loadtest" => k = 17  BY <1>2 DEF Seed
  <2> HIDE DEF x, k
  <2>4. SeedNode(db, x)  BY <2>1, <2>2, <2>3 DEF SeedNode
  <2>5. Goes(n, x)  BY <1>9 DEF x
  <2> QED BY <1>1, <2>4, <2>5, QuietSeed
<1> QED BY <1>6, <1>7, <1>8, <1>9

LEMMA WriteSeeds == ASSUME TypeInv, SeedNow, NEW n \in Nodes, Write(n) PROVE SeedNow'
<1> DEFINE w == node[n].write
           k == node[n].step
           mem == node[n].mem
<1>1. /\ node[n].pc = "write" /\ WriteTyped(Seed[k], w) /\ k \in DOMAIN Seed
      /\ IsDatabase(db)
  BY DEF Write, TypeInv, NodesTyped, NodeTyped
<1>2. /\ Seeded(db) /\ Reached(db, k, mem)
      /\ Seed[k] = "bind_loadtest" => BindsLoadtest(db, mem, w)
  BY <1>1 DEF SeedNow, SeedNode
<1>3. k \in 1 .. 17 /\ (Seed[k] = "bind_loadtest" <=> k = 17)  BY <1>1 DEF Seed
<1> HIDE DEF w, k, mem
<1>4. CASE /\ Allowed(db, w)
           /\ db' = Commit(db, w, db.version[CounterOf(w.table)])
           /\ Goes(n, Onward(n, mem))
  <2>1. /\ Grows(db, db') /\ Seeded(db')
        /\ k # 17 => Reached(db', k + 1, mem)
        /\ k = 17 => Complete(db')
    <3>1. CASE k = 17
      <4>1. BindsLoadtest(db, mem, w) /\ Reached(db, 17, mem)  BY <1>2, <1>3, <3>1
      <4> QED BY <1>1, <1>2, <1>4, <3>1, <4>1, LoadtestCompletes
    <3>2. CASE k # 17
      <4>1. PICK t, row : t = w.table /\ row = w.row /\ w = Insert(t, row)
                          /\ SeedRow(Seed[k], t, row)
        BY <1>1, <1>3, <3>2 DEF WriteTyped
      <4>2. db' = Commit(db, w, db.version[CounterOf(t)])  BY <1>4, <4>1
      <4>3. Grows(db, db') /\ Seeded(db')
        BY <1>1, <1>2, <1>4, <4>1, <4>2, SeedRowKeepsSeeded
      <4>4. Reached(db', k + 1, mem)
        BY <1>1, <1>2, <1>4, <4>1, <4>2, SeedRowReaches
      <4> QED BY <3>2, <4>3, <4>4
    <3> QED BY <3>1, <3>2
  <2>2. SeedNode(db', Onward(n, mem))  BY <1>1, <2>1, OnwardIsSeeded DEF k
  <2> QED BY <1>4, <2>1, <2>2, NodeGoesOn
<1>5. CASE Goes(n, Down) /\ UNCHANGED db  BY <1>5, DownIsSeeded, QuietSeed
<1> QED BY <1>4, <1>5 DEF Write, Exits, w, mem

LEMMA BindDefaultsSeeds ==
  ASSUME TypeInv, SeedNow, NEW n \in Nodes, BindDefaults(n) PROVE SeedNow'
<1>1. /\ node[n].pc = "seed" /\ node[n].step \in DOMAIN Seed
      /\ Seed[node[n].step] = "default_bindings"
  BY DEF BindDefaults, TypeInv, NodesTyped, NodeTyped
<1>2. node[n].step = 15  BY <1>1 DEF Seed
<1>3. Seeded(db) /\ Reached(db, 15, node[n].mem)  BY <1>1, <1>2 DEF SeedNow, SeedNode
<1>4. \/ Goes(n, Down) /\ UNCHANGED db
      \/ /\ DefaultScript(db) # 0 /\ db' = DefaultBindings(db)
         /\ Goes(n, Onward(n, node[n].mem))
  BY DEF BindDefaults, Exits
<1>5. CASE Goes(n, Down) /\ UNCHANGED db  BY <1>5, DownIsSeeded, QuietSeed
<1>6. CASE /\ DefaultScript(db) # 0 /\ db' = DefaultBindings(db)
           /\ Goes(n, Onward(n, node[n].mem))
  <2>1. Grows(db, db') /\ Seeded(db') /\ Reached(db', 16, node[n].mem)
    BY <1>3, <1>6, DefaultsReach DEF TypeInv
  <2>2. SeedNode(db', Onward(n, node[n].mem))  BY <1>1, <1>2, <2>1, OnwardIsSeeded
  <2> QED BY <1>6, <2>1, <2>2, NodeGoesOn
<1> QED BY <1>4, <1>5, <1>6

LEMMA OwnStepSeeds ==
  ASSUME TypeInv, SeedNow, NEW n \in Nodes,
         \/ Start(n) \/ Load(n) \/ Bind(n) \/ FindRow(n) \/ PutRow(n) \/ Beat(n) \/ Mark(n)
         \/ Fails(n) \/ Crash(n)
  PROVE  SeedNow'
<1>1. UNCHANGED db
  BY DEF Start, Load, Bind, FindRow, PutRow, Beat, Mark, Fails, Crash, Exits, NotRegistered
<1>2. /\ DOMAIN node[n] = DOMAIN Down
      /\ node[n].started => node[n].pc \notin {"down", "seed", "write"}
  BY DEF TypeInv, NodesTyped, NodeTyped, Late
<1>3. node[n].pc \notin {"down", "seed", "write"} => Complete(db)  BY DEF SeedNow, SeedNode
<1> DEFINE Sane(x) == SeedNode(db, x)
<1>4. Sane(Down)  BY DownIsSeeded
<1>5. Sane([Down EXCEPT !.pc = "seed", !.step = 1])
  <2> DEFINE x == [Down EXCEPT !.pc = "seed", !.step = 1]
  <2>1. x.pc = "seed" /\ x.step = 1  BY DEF Down
  <2> HIDE DEF x
  <2>2. SeedNode(db, x)  BY <2>1 DEF SeedNode, Reached
  <2> QED BY <2>2 DEF x
<1>6. ASSUME node[n].pc \notin {"down", "seed", "write"}, NEW x, x.pc \in Late PROVE Sane(x)
  BY <1>3, <1>6 DEF SeedNode, Late
<1> HIDE DEF Sane
<1>7. \A pc \in Late : [node[n] EXCEPT !.pc = pc].pc \in Late  BY <1>2 DEF Down
<1>8. /\ "find" \in Late /\ "put" \in Late /\ "bind" \in Late /\ "sleep" \in Late
      /\ "mark" \in Late
  BY DEF Late
<1>9. \E state : Goes(n, state) /\ Sane(state)
  <2>1. CASE Start(n)  BY <1>5, <2>1 DEF Start
  <2>2. CASE Load(n)
    <3>1. [Down EXCEPT !.pc = "find", !.status = "starting"].pc = "find"  BY DEF Down
    <3>2. node[n].pc \notin {"down", "seed", "write"}  BY <2>2 DEF Load
    <3> QED BY <1>4, <1>6, <1>8, <2>2, <3>1, <3>2 DEF Load, Exits
  <2>3. CASE Bind(n)
    <3>1. [node[n] EXCEPT !.pc = "find", !.status = "running"].pc = "find"  BY <1>2 DEF Down
    <3>2. node[n].pc \notin {"down", "seed", "write"}  BY <2>3 DEF Bind
    <3> QED BY <1>6, <1>8, <2>3, <3>1, <3>2 DEF Bind
  <2>4. CASE FindRow(n)
    <3>1. \A found : [node[n] EXCEPT !.pc = "put", !.found = found].pc = "put"
      BY <1>2 DEF Down
    <3>2. node[n].pc \notin {"down", "seed", "write"}  BY <2>4 DEF FindRow
    <3> QED BY <1>6, <1>8, <2>4, <3>1, <3>2 DEF FindRow
  <2>5. ASSUME NotRegistered(n) PROVE \E state : Goes(n, state) /\ Sane(state)
    <3>1. CASE node[n].started
      <4>1. Goes(n, [node[n] EXCEPT !.pc = "sleep"])  BY <2>5, <3>1 DEF NotRegistered
      <4> QED BY <1>2, <1>6, <1>7, <1>8, <3>1, <4>1
    <3>2. CASE ~node[n].started
      BY <1>4, <2>5, <3>2 DEF NotRegistered, Exits
    <3> QED BY <3>1, <3>2
  <2>6. CASE PutRow(n)
    <3>1. node[n].pc \notin {"down", "seed", "write"}  BY <2>6 DEF PutRow
    <3>2. AfterRegister(n).pc \in Late
      <4>1. [node[n] EXCEPT !.pc = "sleep", !.started = TRUE].pc = "sleep"  BY <1>2 DEF Down
      <4> QED BY <1>7, <1>8, <4>1 DEF AfterRegister
    <3>3. Goes(n, AfterRegister(n)) \/ NotRegistered(n)  BY <2>6 DEF PutRow
    <3> QED BY <1>6, <2>5, <3>1, <3>2, <3>3
  <2>7. CASE Beat(n)
    <3>1. node[n].pc \notin {"down", "seed", "write"}  BY <2>7 DEF Beat
    <3>2. \E pc \in Late : Goes(n, [node[n] EXCEPT !.pc = pc])  BY <1>8, <2>7 DEF Beat
    <3> QED BY <1>6, <1>7, <3>1, <3>2
  <2>8. CASE Mark(n)
    <3>1. node[n].pc \notin {"down", "seed", "write"}  BY <2>8 DEF Mark
    <3>2. \E pc \in Late : Goes(n, [node[n] EXCEPT !.pc = pc])  BY <1>8, <2>8 DEF Mark
    <3> QED BY <1>6, <1>7, <3>1, <3>2
  <2>9. CASE Fails(n)  BY <2>5, <2>9 DEF Fails
  <2>10. CASE Crash(n)  BY <1>4, <2>10 DEF Crash, Exits
  <2> QED BY <2>1, <2>2, <2>3, <2>4, <2>6, <2>7, <2>8, <2>9, <2>10
<1>10. PICK state : Goes(n, state) /\ Sane(state)  BY <1>9
<1> QED BY <1>1, <1>10, QuietSeed DEF Sane

LEMMA SeedNext == ASSUME TypeInv, SeedInv, [Next]_vars PROVE SeedInv'
<1> SUFFICES ASSUME changes' = 0 PROVE SeedNow'
  BY DEF SeedInv, SeedNow
<1>0. changes \in Nat  BY NodeStartAssumption DEF TypeInv, Bounded
<1>1. ~MayChange  BY <1>0 DEF MayChange
<1>2. ~Administer
  BY <1>1 DEF Administer, ChangeProject, DeleteAProject, DisableSink, RemoveSink, Assign, Unassign,
              Administers, DeleteNode
<1>3. SeedNow /\ changes = 0
  <2>1. UNCHANGED changes
    BY <1>2 DEF Next, Tick, Starting, Registering, Fails, Crash, Start, Look, Write, BindDefaults,
                Load, Bind, FindRow, PutRow, Beat, Mark, bounds, vars
  <2> QED BY <2>1 DEF SeedInv, SeedNow
<1>4. CASE UNCHANGED <<db, node>>  BY <1>3, <1>4 DEF SeedNow
<1>5. ASSUME NEW n \in Nodes, Starting(n) \/ Registering(n) \/ Fails(n) \/ Crash(n)
      PROVE  SeedNow'
  BY <1>3, <1>5, LookSeeds, WriteSeeds, BindDefaultsSeeds, OwnStepSeeds
     DEF Starting, Registering
<1> QED BY <1>2, <1>4, <1>5 DEF Next, Tick, vars

(* A node serves only once the whole seed is there, whatever failed,       *)
(* crashed or ran at the same time before (db/seed.rs), as long as nobody  *)
(* has changed the configuration.                                          *)
THEOREM SeedIsComplete == Spec => []SeedComplete
<1>1. Init => TypeInv /\ SeedInv  BY TypeInit, SeedInit
<1>2. TypeInv /\ SeedInv /\ [Next]_vars => TypeInv' /\ SeedInv'  BY TypeNext, SeedNext
<1>3. TypeInv /\ SeedInv => SeedComplete  BY SeedInvImplies
<1> QED BY <1>1, <1>2, <1>3, PTL DEF Spec
=============================================================================
