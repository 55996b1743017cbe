------------------------- MODULE RepositoriesProofs -------------------------
(***************************************************************************)
(* Lemmas about Repositories, for every value of its constants: what a     *)
(* write makes of the tables, and that each operation, decided and written *)
(* on the same database, keeps the tables typed and sound.  Typed they     *)
(* stay on whatever database it was decided.                               *)
(***************************************************************************)
EXTENDS Repositories, SequenceTheorems, TLAPS

(***************************************************************************)
(* What a write makes of the tables.                                       *)
(***************************************************************************)
LEMMA TablesAre ==
  /\ Tables = {"projects", "scripts", "bindings", "targets", "sinks"}
  /\ Rows["projects"] = ProjectRow /\ Rows["scripts"] = ScriptRow
  /\ Rows["bindings"] = BindingRow /\ Rows["targets"] = TargetRow
  /\ Rows["sinks"] = SinkRow
BY DEF Tables, Rows

LEMMA TableTyped ==
  ASSUME NEW D, IsDatabase(D), NEW t \in Tables
  PROVE  /\ D.rows[t] \in Seq(Rows[t] \cup {Deleted})
         /\ Len(D.rows[t]) \in Nat /\ DOMAIN D.rows[t] = 1 .. Len(D.rows[t])
         /\ \A i \in Live(D, t) : i \in Nat /\ i # 0 /\ Row(D, t, i) \in Rows[t]
<1>1. D.rows[t] \in Seq(Rows[t] \cup {Deleted})  BY DEF IsDatabase
<1>2. Len(D.rows[t]) \in Nat /\ DOMAIN D.rows[t] = 1 .. Len(D.rows[t])  BY <1>1
<1>3. \A i \in 1 .. Len(D.rows[t]) : D.rows[t][i] \in Rows[t] \cup {Deleted}  BY <1>1
<1> QED BY <1>1, <1>2, <1>3 DEF Live, Row

LEMMA VersionTyped ==
  ASSUME NEW D, IsDatabase(D), NEW w, w.table \in Tables, NEW seen \in Nat
  PROVE  Bumped(D, w, seen) \in [Counters -> Nat]
<1>1. D.version \in [Counters -> Nat]  BY DEF IsDatabase
<1>2. CounterOf(w.table) \in Counters  BY DEF CounterOf, Tables, Counters
<1> QED BY <1>1, <1>2 DEF Bumped

LEMMA CommitTyped ==
  ASSUME NEW D, IsDatabase(D), NEW w, w.table \in Tables, NEW seen \in Nat,
         \A t \in Tables : Written(D, w, t) \in Seq(Rows[t] \cup {Deleted})
  PROVE  /\ IsDatabase(Commit(D, w, seen))
         /\ \A t \in Tables : Commit(D, w, seen).rows[t] = Written(D, w, t)
<1>1. Bumped(D, w, seen) \in [Counters -> Nat]  BY VersionTyped
<1> QED BY <1>1 DEF Commit, IsDatabase

LEMMA InsertWrites ==
  ASSUME NEW D, IsDatabase(D), NEW t \in Tables, NEW row \in Rows[t], NEW seen \in Nat,
         NEW E, E = Commit(D, Insert(t, row), seen)
  PROVE  /\ IsDatabase(E)
         /\ \A u \in Tables \ {t} : E.rows[u] = D.rows[u]
         /\ \E n \in Nat : /\ n # 0 /\ n \notin Live(D, t)
                           /\ Live(E, t) = Live(D, t) \cup {n}
                           /\ Row(E, t, n) = row
                           /\ \A i \in Live(D, t) : Row(E, t, i) = Row(D, t, i)
<1> DEFINE w == Insert(t, row)
           s == D.rows[t]
           X == Rows[t] \cup {Deleted}
           n == Len(s) + 1
<1>1. w.do = "insert" /\ w.table = t /\ w.row = row  BY DEF Insert
<1>2. s \in Seq(X) /\ Len(s) \in Nat /\ DOMAIN s = 1 .. Len(s)  BY TableTyped
<1>3. Written(D, w, t) = Append(s, row)  BY <1>1 DEF Written
<1>4. \A u \in Tables \ {t} : Written(D, w, u) = D.rows[u]  BY <1>1 DEF Written
<1>5. row \in X /\ row # Deleted  BY DeletedAssumption
<1> HIDE DEF w, X
<1>6. /\ Append(s, row) \in Seq(X) /\ Len(Append(s, row)) = n
      /\ \A i \in 1 .. Len(s) : Append(s, row)[i] = s[i]
      /\ Append(s, row)[n] = row
  BY <1>2, <1>5, AppendProperties
<1>7. DOMAIN Append(s, row) = 1 .. n  BY <1>6
<1>8. \A u \in Tables : Written(D, w, u) \in Seq(Rows[u] \cup {Deleted})
  <2>1. Written(D, w, t) \in Seq(Rows[t] \cup {Deleted})  BY <1>3, <1>6 DEF X
  <2>2. \A u \in Tables \ {t} : Written(D, w, u) \in Seq(Rows[u] \cup {Deleted})
    BY <1>4, TableTyped
  <2> QED BY <2>1, <2>2
<1>9. IsDatabase(E) /\ \A u \in Tables : E.rows[u] = Written(D, w, u)
  BY <1>1, <1>8, CommitTyped DEF w
<1>10. E.rows[t] = Append(s, row)  BY <1>3, <1>9
<1>11. n \in Nat /\ n # 0 /\ n \notin Live(D, t)  BY <1>2 DEF Live
<1>12. Live(E, t) = Live(D, t) \cup {n}
  BY <1>2, <1>5, <1>6, <1>7, <1>10 DEF Live
<1>13. Row(E, t, n) = row /\ \A i \in Live(D, t) : Row(E, t, i) = Row(D, t, i)
  BY <1>2, <1>6, <1>10 DEF Live, Row
<1> HIDE DEF n
<1> QED BY <1>4, <1>9, <1>11, <1>12, <1>13

(* A sequence of the same length as one, with values of its type.          *)
LEMMA SameLength ==
  ASSUME NEW X, NEW s \in Seq(X), NEW r, DOMAIN r = DOMAIN s,
         r = [i \in DOMAIN s |-> r[i]], \A i \in DOMAIN s : r[i] \in X
  PROVE  r \in Seq(X)
<1>1. Len(s) \in Nat /\ DOMAIN s = 1 .. Len(s)  OBVIOUS
<1>2. r \in [1 .. Len(s) -> X]  BY <1>1
<1> QED BY <1>1, <1>2, SeqDef

LEMMA UpdateWrites ==
  ASSUME NEW D, IsDatabase(D), NEW t \in Tables, NEW i \in Live(D, t), NEW set,
         With(Row(D, t, i), set) \in Rows[t], NEW seen \in Nat,
         NEW E, E = Commit(D, Update(t, i, set), seen)
  PROVE  /\ IsDatabase(E)
         /\ \A u \in Tables \ {t} : E.rows[u] = D.rows[u]
         /\ Live(E, t) = Live(D, t)
         /\ Row(E, t, i) = With(Row(D, t, i), set)
         /\ \A j \in Live(D, t) \ {i} : Row(E, t, j) = Row(D, t, j)
<1> DEFINE w == Update(t, i, set)
           s == D.rows[t]
           X == Rows[t] \cup {Deleted}
           new == With(Row(D, t, i), set)
           r == [s EXCEPT ![i] = new]
<1>1. w.do = "update" /\ w.table = t /\ w.id = i /\ w.set = set  BY DEF Update
<1>2. s \in Seq(X) /\ i \in DOMAIN s  BY TableTyped DEF Live
<1>3. Written(D, w, t) = r  BY <1>1 DEF Written
<1>4. \A u \in Tables \ {t} : Written(D, w, u) = D.rows[u]  BY <1>1 DEF Written
<1>5. new \in X /\ new # Deleted  BY DeletedAssumption
<1> HIDE DEF w, new
<1>6. r \in Seq(X)
  <2>1. DOMAIN r = DOMAIN s /\ r = [j \in DOMAIN s |-> r[j]]  OBVIOUS
  <2>2. \A j \in DOMAIN s : r[j] \in X  BY <1>2, <1>5
  <2> HIDE DEF r, X
  <2> QED BY <1>2, <2>1, <2>2, SameLength
<1>7. \A u \in Tables : Written(D, w, u) \in Seq(Rows[u] \cup {Deleted})
  <2> HIDE DEF r
  <2> QED BY <1>3, <1>4, <1>6, TableTyped
<1>8. IsDatabase(E) /\ \A u \in Tables : E.rows[u] = Written(D, w, u)
  BY <1>1, <1>7, CommitTyped DEF w
<1>9. E.rows[t] = r  BY <1>3, <1>8
<1>10. DOMAIN r = DOMAIN s /\ r[i] = new /\ \A j \in DOMAIN s \ {i} : r[j] = s[j]
  BY <1>2
<1>11. s[i] # Deleted  BY DEF Live, Row
<1> HIDE DEF r
<1>12. Live(E, t) = Live(D, t)
  BY <1>2, <1>5, <1>9, <1>10, <1>11 DEF Live, Row
<1>13. Row(E, t, i) = new /\ \A j \in Live(D, t) \ {i} : Row(E, t, j) = Row(D, t, j)
  BY <1>9, <1>10 DEF Live, Row
<1> QED BY <1>4, <1>8, <1>12, <1>13 DEF new

(* Taking rows out of one table.                                           *)
TakenOut(D, t, out) ==
  [i \in DOMAIN D.rows[t] |-> IF i \in out THEN Deleted ELSE D.rows[t][i]]

LEMMA RowsTakenOut ==
  ASSUME NEW D, IsDatabase(D), NEW t \in Tables, NEW out
  PROVE  TakenOut(D, t, out) \in Seq(Rows[t] \cup {Deleted})
<1> DEFINE s == D.rows[t]
           X == Rows[t] \cup {Deleted}
           r == TakenOut(D, t, out)
<1>1. s \in Seq(X)  BY TableTyped
<1>2. /\ DOMAIN r = DOMAIN s /\ r = [i \in DOMAIN s |-> r[i]]
      /\ \A i \in DOMAIN s : r[i] = IF i \in out THEN Deleted ELSE s[i]
  BY DEF TakenOut
<1>3. Deleted \in X  OBVIOUS
<1> HIDE DEF X, s, r
<1>4. \A i \in DOMAIN s : s[i] \in X  BY <1>1
<1>5. \A i \in DOMAIN s : r[i] \in X  BY <1>2, <1>3, <1>4
<1>6. r \in Seq(X)  BY <1>1, <1>2, <1>5, SameLength
<1> QED BY <1>6 DEF X, r

LEMMA LiveTakenOut ==
  ASSUME NEW D, NEW E, NEW t, NEW out, E.rows[t] = TakenOut(D, t, out)
  PROVE  /\ Live(E, t) = Live(D, t) \ out
         /\ \A j \in Live(E, t) : Row(E, t, j) = Row(D, t, j)
BY DEF TakenOut, Live, Row

LEMMA DeleteWrites ==
  ASSUME NEW D, IsDatabase(D), NEW t \in Tables \ {"projects"}, NEW i, NEW seen \in Nat,
         NEW E, E = Commit(D, Delete(t, i), seen)
  PROVE  /\ IsDatabase(E)
         /\ \A u \in Tables \ {t} : E.rows[u] = D.rows[u]
         /\ Live(E, t) = Live(D, t) \ {i}
         /\ \A j \in Live(E, t) : Row(E, t, j) = Row(D, t, j)
<1> DEFINE w == Delete(t, i)
<1>1. w.do = "delete" /\ w.table = t /\ w.id = i  BY DEF Delete
<1>2. Written(D, w, t) = TakenOut(D, t, {i})  BY <1>1 DEF Written, TakenOut
<1>3. \A u \in Tables \ {t} : Written(D, w, u) = D.rows[u]  BY <1>1 DEF Written
<1> HIDE DEF w
<1>4. \A u \in Tables : Written(D, w, u) \in Seq(Rows[u] \cup {Deleted})
  BY <1>2, <1>3, RowsTakenOut, TableTyped
<1>5. IsDatabase(E) /\ \A u \in Tables : E.rows[u] = Written(D, w, u)
  BY <1>1, <1>4, CommitTyped DEF w
<1> QED BY <1>2, <1>3, <1>5, LiveTakenOut

LEMMA DeleteProjectWrites ==
  ASSUME NEW D, IsDatabase(D), NEW i, NEW seen \in Nat,
         NEW E, E = Commit(D, Delete("projects", i), seen)
  PROVE  /\ IsDatabase(E)
         /\ \A u \in {"scripts", "targets", "sinks"} : E.rows[u] = D.rows[u]
         /\ Live(E, "projects") = Live(D, "projects") \ {i}
         /\ Live(E, "bindings") = Live(D, "bindings") \ BindingOf(D, i)
         /\ \A b \in Live(E, "bindings") : Row(E, "bindings", b) = Row(D, "bindings", b)
<1> DEFINE w == Delete("projects", i)
<1>1. w.do = "delete" /\ w.table = "projects" /\ w.id = i  BY DEF Delete
<1>2. Written(D, w, "projects") = TakenOut(D, "projects", {i})
  BY <1>1 DEF Written, TakenOut
<1>3. Written(D, w, "bindings") = TakenOut(D, "bindings", BindingOf(D, i))
  BY <1>1 DEF Written, TakenOut
<1>4. \A u \in {"scripts", "targets", "sinks"} : Written(D, w, u) = D.rows[u]
  BY <1>1 DEF Written
<1> HIDE DEF w
<1>5. \A u \in Tables : Written(D, w, u) \in Seq(Rows[u] \cup {Deleted})
  BY <1>2, <1>3, <1>4, RowsTakenOut, TableTyped, TablesAre
<1>6. IsDatabase(E) /\ \A u \in Tables : E.rows[u] = Written(D, w, u)
  BY <1>1, <1>5, CommitTyped, TablesAre DEF w
<1>7. E.rows["projects"] = TakenOut(D, "projects", {i})  BY <1>2, <1>6, TablesAre
<1>8. E.rows["bindings"] = TakenOut(D, "bindings", BindingOf(D, i))
  BY <1>3, <1>6, TablesAre
<1> QED BY <1>4, <1>6, <1>7, <1>8, LiveTakenOut, TablesAre

(***************************************************************************)
(* The three parts of Sound, and what keeps each of them.                  *)
(***************************************************************************)
BindingsPart(D) == \A b \in Live(D, "bindings") : SoundBinding(D, b)
SinksPart(D) == \A s \in Live(D, "sinks") : SoundSink(D, s)

IsDefault(D, i) == /\ i \in Live(D, "scripts")
                   /\ Row(D, "scripts", i).key = DefaultKey
                   /\ Row(D, "scripts", i).status = "active"

LEMMA SoundInParts ==
  ASSUME NEW D
  PROVE  Sound(D) <=> BindingsPart(D) /\ DefaultScript(D) # 0 /\ SinksPart(D)
BY DEF Sound, BindingsPart, SinksPart

LEMMA DefaultIsThere ==
  ASSUME NEW D, IsDatabase(D)
  PROVE  DefaultScript(D) # 0 <=> \E i : IsDefault(D, i)
<1> DEFINE found == {i \in Live(D, "scripts") :
                       /\ Row(D, "scripts", i).key = DefaultKey
                       /\ Row(D, "scripts", i).status = "active"}
<1>1. DefaultScript(D) = IF found = {} THEN 0 ELSE CHOOSE i \in found : TRUE
  BY DEF DefaultScript
<1>2. \A i : i \in found <=> IsDefault(D, i)  BY DEF IsDefault
<1>3. \A i \in found : i # 0  BY TableTyped, TablesAre
<1> HIDE DEF found
<1>4. CASE found = {}  BY <1>1, <1>2, <1>4
<1>5. CASE found # {}
  <2>1. (CHOOSE i \in found : TRUE) \in found  BY <1>5
  <2> QED BY <1>1, <1>2, <1>3, <1>5, <2>1
<1> QED BY <1>4, <1>5

LEMMA SameTable ==
  ASSUME NEW D, NEW E, NEW t, E.rows[t] = D.rows[t]
  PROVE  Live(E, t) = Live(D, t) /\ \A i : Row(E, t, i) = Row(D, t, i)
BY DEF Live, Row

(* The bindings stay sound if projects and scripts stay, and the scripts   *)
(* in use stay active.                                                     *)
LEMMA BindingsKept ==
  ASSUME NEW D, NEW E, BindingsPart(D), E.rows["bindings"] = D.rows["bindings"],
         Live(D, "projects") \subseteq Live(E, "projects"),
         \A i \in Live(D, "scripts") :
           /\ i \in Live(E, "scripts")
           /\ InUse(D, i) /\ Row(D, "scripts", i).status = "active" =>
                Row(E, "scripts", i).status = "active"
  PROVE  BindingsPart(E)
<1> SUFFICES ASSUME NEW b \in Live(E, "bindings") PROVE SoundBinding(E, b)
  BY DEF BindingsPart
<1>1. /\ Live(E, "bindings") = Live(D, "bindings")
      /\ \A i : Row(E, "bindings", i) = Row(D, "bindings", i)
  BY SameTable
<1>2. SoundBinding(D, b)  BY <1>1 DEF BindingsPart
<1>3. \A p : BindingOf(E, p) = BindingOf(D, p)  BY <1>1 DEF BindingOf
<1>4. Row(D, "bindings", b).enabled => InUse(D, Row(D, "bindings", b).script)
  BY <1>1 DEF InUse
<1> QED BY <1>1, <1>2, <1>3, <1>4 DEF SoundBinding

LEMMA SinksKept ==
  ASSUME NEW D, NEW E, SinksPart(D), E.rows["sinks"] = D.rows["sinks"],
         \A i \in Live(D, "targets") :
           SinksOf(D, i) # {} =>
             /\ i \in Live(E, "targets")
             /\ Row(E, "targets", i).type = Row(D, "targets", i).type
  PROVE  SinksPart(E)
<1> SUFFICES ASSUME NEW s \in Live(E, "sinks") PROVE SoundSink(E, s)
  BY DEF SinksPart
<1>1. /\ Live(E, "sinks") = Live(D, "sinks")
      /\ \A i : Row(E, "sinks", i) = Row(D, "sinks", i)
  BY SameTable
<1>2. SoundSink(D, s)  BY <1>1 DEF SinksPart
<1>3. SinksOf(D, Row(D, "sinks", s).target) # {}  BY <1>1 DEF SinksOf
<1> QED BY <1>1, <1>2, <1>3 DEF SoundSink

LEMMA SinksAlone ==
  ASSUME NEW D, NEW E, SinksPart(D), E.rows["sinks"] = D.rows["sinks"],
         E.rows["targets"] = D.rows["targets"]
  PROVE  SinksPart(E)
<1>1. /\ Live(E, "targets") = Live(D, "targets")
      /\ \A i : Row(E, "targets", i) = Row(D, "targets", i)
  BY SameTable
<1> QED BY <1>1, SinksKept

LEMMA ScriptsAlone ==
  ASSUME NEW D, NEW E, IsDatabase(D), IsDatabase(E), E.rows["scripts"] = D.rows["scripts"],
         DefaultScript(D) # 0
  PROVE  DefaultScript(E) # 0
<1>1. PICK i : IsDefault(D, i)  BY DefaultIsThere
<1>2. IsDefault(E, i)  BY <1>1, SameTable DEF IsDefault
<1> QED BY <1>2, DefaultIsThere

(***************************************************************************)
(* A write that is decided on a sound database and allowed by it keeps it  *)
(* typed and sound.                                                        *)
(***************************************************************************)
KeepsSound(D, w) ==
  Allowed(D, w) =>
    \A seen \in Nat : IsDatabase(Commit(D, w, seen)) /\ Sound(Commit(D, w, seen))

LEMMA RefuseKeeps == ASSUME NEW D, NEW error PROVE KeepsSound(D, Refuse(error))
BY DEF KeepsSound, Allowed, Refuse

LEMMA InsertProjectKeeps ==
  ASSUME NEW D, IsDatabase(D), Sound(D), NEW row \in ProjectRow
  PROVE  KeepsSound(D, Insert("projects", row))
<1> SUFFICES ASSUME NEW seen \in Nat,
                    NEW E, E = Commit(D, Insert("projects", row), seen)
             PROVE  IsDatabase(E) /\ Sound(E)
  BY DEF KeepsSound
<1>0. "projects" \in Tables /\ row \in Rows["projects"]  BY TablesAre
<1>1. /\ IsDatabase(E) /\ Live(D, "projects") \subseteq Live(E, "projects")
      /\ \A u \in Tables \ {"projects"} : E.rows[u] = D.rows[u]
  BY <1>0, InsertWrites
<1>2. \A u \in {"scripts", "bindings", "targets", "sinks"} : E.rows[u] = D.rows[u]
  BY <1>1, TablesAre
<1>3. BindingsPart(E)  BY <1>1, <1>2, SoundInParts, BindingsKept, SameTable
<1> QED BY <1>1, <1>2, <1>3, SoundInParts, SinksAlone, ScriptsAlone

LEMMA UpdateProjectKeeps ==
  ASSUME NEW D, IsDatabase(D), Sound(D), NEW i, NEW set,
         i \in Live(D, "projects") => With(Row(D, "projects", i), set) \in ProjectRow
  PROVE  KeepsSound(D, Update("projects", i, set))
<1> SUFFICES ASSUME i \in Live(D, "projects"), NEW seen \in Nat,
                    NEW E, E = Commit(D, Update("projects", i, set), seen)
             PROVE  IsDatabase(E) /\ Sound(E)
  BY DEF KeepsSound, Allowed, Update
<1>1. /\ IsDatabase(E) /\ Live(D, "projects") = Live(E, "projects")
      /\ \A u \in Tables \ {"projects"} : E.rows[u] = D.rows[u]
  BY UpdateWrites, TablesAre
<1>2. \A u \in {"scripts", "bindings", "targets", "sinks"} : E.rows[u] = D.rows[u]
  BY <1>1, TablesAre
<1>3. BindingsPart(E)  BY <1>1, <1>2, SoundInParts, BindingsKept, SameTable
<1> QED BY <1>1, <1>2, <1>3, SoundInParts, SinksAlone, ScriptsAlone

LEMMA DeleteProjectKeeps ==
  ASSUME NEW D, IsDatabase(D), Sound(D), NEW i
  PROVE  KeepsSound(D, Delete("projects", i))
<1> SUFFICES ASSUME NEW seen \in Nat,
                    NEW E, E = Commit(D, Delete("projects", i), seen)
             PROVE  IsDatabase(E) /\ Sound(E)
  BY DEF KeepsSound
<1>1. /\ IsDatabase(E)
      /\ \A u \in {"scripts", "targets", "sinks"} : E.rows[u] = D.rows[u]
      /\ Live(E, "projects") = Live(D, "projects") \ {i}
      /\ Live(E, "bindings") = Live(D, "bindings") \ BindingOf(D, i)
      /\ \A b \in Live(E, "bindings") : Row(E, "bindings", b) = Row(D, "bindings", b)
  BY DeleteProjectWrites
<1>2. ASSUME NEW b \in Live(E, "bindings") PROVE SoundBinding(E, b)
  <2>1. SoundBinding(D, b) /\ b \notin BindingOf(D, i) /\ b \in Live(D, "bindings")
    BY <1>1, <1>2, SoundInParts DEF BindingsPart
  <2>2. Row(D, "bindings", b).project # i  BY <2>1 DEF BindingOf
  <2>3. BindingOf(E, Row(D, "bindings", b).project) = {b}
    BY <1>1, <1>2, <2>1 DEF BindingOf, SoundBinding
  <2>4. /\ Live(E, "scripts") = Live(D, "scripts")
        /\ \A j : Row(E, "scripts", j) = Row(D, "scripts", j)
    BY <1>1, SameTable
  <2> QED BY <1>1, <1>2, <2>1, <2>2, <2>3, <2>4 DEF SoundBinding
<1>3. BindingsPart(E)  BY <1>2 DEF BindingsPart
<1> QED BY <1>1, <1>3, SoundInParts, SinksAlone, ScriptsAlone

LEMMA InsertScriptKeeps ==
  ASSUME NEW D, IsDatabase(D), Sound(D), NEW row \in ScriptRow
  PROVE  KeepsSound(D, Insert("scripts", row))
<1> SUFFICES ASSUME NEW seen \in Nat,
                    NEW E, E = Commit(D, Insert("scripts", row), seen)
             PROVE  IsDatabase(E) /\ Sound(E)
  BY DEF KeepsSound
<1>0. "scripts" \in Tables /\ row \in Rows["scripts"]  BY TablesAre
<1>1. /\ IsDatabase(E)
      /\ \A u \in Tables \ {"scripts"} : E.rows[u] = D.rows[u]
      /\ \A i \in Live(D, "scripts") : /\ i \in Live(E, "scripts")
                                       /\ Row(E, "scripts", i) = Row(D, "scripts", i)
  <2>1. PICK n \in Nat : /\ Live(E, "scripts") = Live(D, "scripts") \cup {n}
                         /\ \A i \in Live(D, "scripts") :
                              Row(E, "scripts", i) = Row(D, "scripts", i)
    BY <1>0, InsertWrites
  <2>2. IsDatabase(E) /\ \A u \in Tables \ {"scripts"} : E.rows[u] = D.rows[u]
    BY <1>0, InsertWrites
  <2> QED BY <2>1, <2>2
<1>2. \A u \in {"projects", "bindings", "targets", "sinks"} : E.rows[u] = D.rows[u]
  BY <1>1, TablesAre
<1>3. BindingsPart(E)  BY <1>1, <1>2, SoundInParts, BindingsKept, SameTable
<1>4. DefaultScript(E) # 0
  <2>1. PICK i : IsDefault(D, i)  BY DefaultIsThere, SoundInParts
  <2>2. IsDefault(E, i)  BY <1>1, <2>1 DEF IsDefault
  <2> QED BY <1>1, <2>2, DefaultIsThere
<1> QED BY <1>1, <1>2, <1>3, <1>4, SoundInParts, SinksAlone

(* A script that is not left active is not the default one, nor in use.    *)
LEMMA UpdateScriptKeeps ==
  ASSUME NEW D, IsDatabase(D), Sound(D), NEW i, NEW set, "key" \notin DOMAIN set,
         "status" \in DOMAIN set, set.status # "active" => CanBeDisabled(D, i),
         i \in Live(D, "scripts") => With(Row(D, "scripts", i), set) \in ScriptRow
  PROVE  KeepsSound(D, Update("scripts", i, set))
<1> SUFFICES ASSUME i \in Live(D, "scripts"), NEW seen \in Nat,
                    NEW E, E = Commit(D, Update("scripts", i, set), seen)
             PROVE  IsDatabase(E) /\ Sound(E)
  BY DEF KeepsSound, Allowed, Update
<1> DEFINE old == Row(D, "scripts", i)
           new == With(old, set)
<1>1. /\ IsDatabase(E) /\ Live(D, "scripts") = Live(E, "scripts")
      /\ \A u \in Tables \ {"scripts"} : E.rows[u] = D.rows[u]
      /\ Row(E, "scripts", i) = new
      /\ \A j \in Live(D, "scripts") \ {i} : Row(E, "scripts", j) = Row(D, "scripts", j)
  BY UpdateWrites, TablesAre
<1>2. \A u \in {"projects", "bindings", "targets", "sinks"} : E.rows[u] = D.rows[u]
  BY <1>1, TablesAre
<1>3. new.key = old.key /\ new.status = set.status
  <2>1. old \in ScriptRow  BY TableTyped, TablesAre
  <2> QED BY <2>1 DEF With, ScriptRow
<1> HIDE DEF old, new
<1>4. BindingsPart(E)
  <2>1. \A j \in Live(D, "scripts") :
          /\ j \in Live(E, "scripts")
          /\ InUse(D, j) /\ Row(D, "scripts", j).status = "active" =>
               Row(E, "scripts", j).status = "active"
    BY <1>1, <1>3 DEF CanBeDisabled
  <2> QED BY <1>2, <2>1, SoundInParts, BindingsKept, SameTable
<1>5. DefaultScript(E) # 0
  <2>1. PICK j : IsDefault(D, j)  BY DefaultIsThere, SoundInParts
  <2>2. IsDefault(E, j)  BY <1>1, <1>3, <2>1 DEF IsDefault, CanBeDisabled, old
  <2> QED BY <1>1, <2>2, DefaultIsThere
<1> QED BY <1>1, <1>2, <1>4, <1>5, SoundInParts, SinksAlone

(* A project gets a binding when it has none.                              *)
LEMMA InsertBindingKeeps ==
  ASSUME NEW D, IsDatabase(D), Sound(D), NEW row \in BindingRow,
         row.project \in Live(D, "projects"), row.script \in Live(D, "scripts"),
         row.enabled => Row(D, "scripts", row.script).status = "active",
         BindingOf(D, row.project) = {}
  PROVE  KeepsSound(D, Insert("bindings", row))
<1> SUFFICES ASSUME NEW seen \in Nat,
                    NEW E, E = Commit(D, Insert("bindings", row), seen)
             PROVE  IsDatabase(E) /\ Sound(E)
  BY DEF KeepsSound
<1>0. "bindings" \in Tables /\ row \in Rows["bindings"]  BY TablesAre
<1>1. /\ IsDatabase(E)
      /\ \A u \in Tables \ {"bindings"} : E.rows[u] = D.rows[u]
  BY <1>0, InsertWrites
<1>2. PICK n \in Nat : /\ n \notin Live(D, "bindings")
                       /\ Live(E, "bindings") = Live(D, "bindings") \cup {n}
                       /\ Row(E, "bindings", n) = row
                       /\ \A b \in Live(D, "bindings") :
                            Row(E, "bindings", b) = Row(D, "bindings", b)
  BY <1>0, InsertWrites
<1>3. \A u \in {"projects", "scripts", "targets", "sinks"} : E.rows[u] = D.rows[u]
  BY <1>1, TablesAre
<1>4. /\ Live(E, "projects") = Live(D, "projects") /\ Live(E, "scripts") = Live(D, "scripts")
      /\ \A j : Row(E, "scripts", j) = Row(D, "scripts", j)
  BY <1>3, SameTable
<1>5. SoundBinding(E, n)
  <2>1. BindingOf(E, row.project) = {n}  BY <1>2 DEF BindingOf
  <2> QED BY <1>2, <1>4, <2>1 DEF SoundBinding
<1>6. ASSUME NEW b \in Live(D, "bindings") PROVE SoundBinding(E, b)
  <2>1. SoundBinding(D, b)  BY SoundInParts DEF BindingsPart
  <2>2. Row(D, "bindings", b).project # row.project  BY DEF BindingOf
  <2>3. BindingOf(E, Row(D, "bindings", b).project) = BindingOf(D, Row(D, "bindings", b).project)
    BY <1>2, <2>2 DEF BindingOf
  <2> QED BY <1>2, <1>4, <2>1, <2>3 DEF SoundBinding
<1>7. BindingsPart(E)  BY <1>2, <1>5, <1>6 DEF BindingsPart
<1> QED BY <1>1, <1>3, <1>7, SoundInParts, SinksAlone, ScriptsAlone

(* The binding a project has is given another script, or switched.         *)
LEMMA UpdateBindingKeeps ==
  ASSUME NEW D, IsDatabase(D), Sound(D), NEW i \in Live(D, "bindings"), NEW set,
         DOMAIN set = {"script", "enabled"}, set.enabled \in BOOLEAN,
         set.script \in Live(D, "scripts"),
         set.enabled => Row(D, "scripts", set.script).status = "active"
  PROVE  KeepsSound(D, Update("bindings", i, set))
<1> SUFFICES ASSUME NEW seen \in Nat,
                    NEW E, E = Commit(D, Update("bindings", i, set), seen)
             PROVE  IsDatabase(E) /\ Sound(E)
  BY DEF KeepsSound
<1> DEFINE old == Row(D, "bindings", i)
           new == With(old, set)
<1>1. /\ new \in BindingRow /\ new.project = old.project /\ new.script = set.script
      /\ new.enabled = set.enabled
  <2>1. old \in BindingRow /\ set.script \in Nat  BY TableTyped, TablesAre
  <2> QED BY <2>1 DEF With, BindingRow
<1>2. /\ IsDatabase(E) /\ Live(E, "bindings") = Live(D, "bindings")
      /\ \A u \in Tables \ {"bindings"} : E.rows[u] = D.rows[u]
      /\ Row(E, "bindings", i) = new
      /\ \A b \in Live(D, "bindings") \ {i} : Row(E, "bindings", b) = Row(D, "bindings", b)
  BY <1>1, UpdateWrites, TablesAre
<1> HIDE DEF new
<1>3. \A u \in {"projects", "scripts", "targets", "sinks"} : E.rows[u] = D.rows[u]
  BY <1>2, TablesAre
<1>4. /\ Live(E, "projects") = Live(D, "projects") /\ Live(E, "scripts") = Live(D, "scripts")
      /\ \A j : Row(E, "scripts", j) = Row(D, "scripts", j)
  BY <1>3, SameTable
<1>5. \A p : BindingOf(E, p) = BindingOf(D, p)  BY <1>1, <1>2 DEF BindingOf
<1>6. ASSUME NEW b \in Live(D, "bindings") PROVE SoundBinding(E, b)
  <2>1. SoundBinding(D, b)  BY SoundInParts DEF BindingsPart
  <2> QED BY <1>1, <1>2, <1>4, <1>5, <2>1 DEF SoundBinding
<1>7. BindingsPart(E)  BY <1>2, <1>6 DEF BindingsPart
<1> QED BY <1>2, <1>3, <1>7, SoundInParts, SinksAlone, ScriptsAlone

LEMMA DeleteBindingKeeps ==
  ASSUME NEW D, IsDatabase(D), Sound(D), NEW i
  PROVE  KeepsSound(D, Delete("bindings", i))
<1> SUFFICES ASSUME NEW seen \in Nat,
                    NEW E, E = Commit(D, Delete("bindings", i), seen)
             PROVE  IsDatabase(E) /\ Sound(E)
  BY DEF KeepsSound
<1>0. "bindings" \in Tables \ {"projects"}  BY TablesAre
<1>1. /\ IsDatabase(E) /\ Live(E, "bindings") = Live(D, "bindings") \ {i}
      /\ \A u \in Tables \ {"bindings"} : E.rows[u] = D.rows[u]
      /\ \A b \in Live(E, "bindings") : Row(E, "bindings", b) = Row(D, "bindings", b)
  BY <1>0, DeleteWrites
<1>2. \A u \in {"projects", "scripts", "targets", "sinks"} : E.rows[u] = D.rows[u]
  BY <1>1, TablesAre
<1>3. /\ Live(E, "projects") = Live(D, "projects") /\ Live(E, "scripts") = Live(D, "scripts")
      /\ \A j : Row(E, "scripts", j) = Row(D, "scripts", j)
  BY <1>2, SameTable
<1>4. ASSUME NEW b \in Live(E, "bindings") PROVE SoundBinding(E, b)
  <2>1. SoundBinding(D, b)  BY <1>1, SoundInParts DEF BindingsPart
  <2>2. BindingOf(E, Row(D, "bindings", b).project) = {b}
    BY <1>1, <2>1 DEF BindingOf, SoundBinding
  <2> QED BY <1>1, <1>3, <2>1, <2>2 DEF SoundBinding
<1>5. BindingsPart(E)  BY <1>4 DEF BindingsPart
<1> QED BY <1>1, <1>2, <1>5, SoundInParts, SinksAlone, ScriptsAlone

LEMMA InsertTargetKeeps ==
  ASSUME NEW D, IsDatabase(D), Sound(D), NEW row \in TargetRow
  PROVE  KeepsSound(D, Insert("targets", row))
<1> SUFFICES ASSUME NEW seen \in Nat,
                    NEW E, E = Commit(D, Insert("targets", row), seen)
             PROVE  IsDatabase(E) /\ Sound(E)
  BY DEF KeepsSound
<1>0. "targets" \in Tables /\ row \in Rows["targets"]  BY TablesAre
<1>1. IsDatabase(E) /\ \A u \in Tables \ {"targets"} : E.rows[u] = D.rows[u]
  BY <1>0, InsertWrites
<1>2. \A i \in Live(D, "targets") : /\ i \in Live(E, "targets")
                                    /\ Row(E, "targets", i) = Row(D, "targets", i)
  <2>1. PICK n \in Nat : /\ Live(E, "targets") = Live(D, "targets") \cup {n}
                         /\ \A i \in Live(D, "targets") :
                              Row(E, "targets", i) = Row(D, "targets", i)
    BY <1>0, InsertWrites
  <2> QED BY <2>1
<1>3. \A u \in {"projects", "scripts", "bindings", "sinks"} : E.rows[u] = D.rows[u]
  BY <1>1, TablesAre
<1>4. SinksPart(E)  BY <1>2, <1>3, SoundInParts, SinksKept
<1> QED BY <1>1, <1>3, <1>4, SoundInParts, BindingsKept, ScriptsAlone, SameTable

LEMMA UpdateTargetKeeps ==
  ASSUME NEW D, IsDatabase(D), Sound(D), NEW i, NEW set, "type" \notin DOMAIN set,
         i \in Live(D, "targets") => With(Row(D, "targets", i), set) \in TargetRow
  PROVE  KeepsSound(D, Update("targets", i, set))
<1> SUFFICES ASSUME i \in Live(D, "targets"), NEW seen \in Nat,
                    NEW E, E = Commit(D, Update("targets", i, set), seen)
             PROVE  IsDatabase(E) /\ Sound(E)
  BY DEF KeepsSound, Allowed, Update
<1> DEFINE old == Row(D, "targets", i)
           new == With(old, set)
<1>1. /\ IsDatabase(E) /\ Live(D, "targets") = Live(E, "targets")
      /\ \A u \in Tables \ {"targets"} : E.rows[u] = D.rows[u]
      /\ Row(E, "targets", i) = new
      /\ \A j \in Live(D, "targets") \ {i} : Row(E, "targets", j) = Row(D, "targets", j)
  BY UpdateWrites, TablesAre
<1>2. \A u \in {"projects", "scripts", "bindings", "sinks"} : E.rows[u] = D.rows[u]
  BY <1>1, TablesAre
<1>3. new.type = old.type
  <2>1. old \in TargetRow  BY TableTyped, TablesAre
  <2> QED BY <2>1 DEF With, TargetRow
<1>4. SinksPart(E)
  <2> HIDE DEF new
  <2> QED BY <1>1, <1>2, <1>3, SoundInParts, SinksKept
<1> QED BY <1>1, <1>2, <1>4, SoundInParts, BindingsKept, ScriptsAlone, SameTable

(* The database refuses to delete a target that has sinks.                 *)
LEMMA DeleteTargetKeeps ==
  ASSUME NEW D, IsDatabase(D), Sound(D), NEW i
  PROVE  KeepsSound(D, Delete("targets", i))
<1> SUFFICES ASSUME SinksOf(D, i) = {}, NEW seen \in Nat,
                    NEW E, E = Commit(D, Delete("targets", i), seen)
             PROVE  IsDatabase(E) /\ Sound(E)
  BY DEF KeepsSound, Allowed, Held, Delete
<1>0. "targets" \in Tables \ {"projects"}  BY TablesAre
<1>1. /\ IsDatabase(E) /\ Live(E, "targets") = Live(D, "targets") \ {i}
      /\ \A u \in Tables \ {"targets"} : E.rows[u] = D.rows[u]
      /\ \A j \in Live(E, "targets") : Row(E, "targets", j) = Row(D, "targets", j)
  BY <1>0, DeleteWrites
<1>2. \A u \in {"projects", "scripts", "bindings", "sinks"} : E.rows[u] = D.rows[u]
  BY <1>1, TablesAre
<1>3. SinksPart(E)  BY <1>1, <1>2, SoundInParts, SinksKept
<1> QED BY <1>1, <1>2, <1>3, SoundInParts, BindingsKept, ScriptsAlone, SameTable

FitsItsTarget(D, row) ==
  /\ row.target \in Live(D, "targets")
  /\ row.dest \in SinkFits[Row(D, "targets", row.target).type]

LEMMA InsertSinkKeeps ==
  ASSUME NEW D, IsDatabase(D), Sound(D), NEW row \in SinkRow, FitsItsTarget(D, row)
  PROVE  KeepsSound(D, Insert("sinks", row))
<1> SUFFICES ASSUME NEW seen \in Nat,
                    NEW E, E = Commit(D, Insert("sinks", row), seen)
             PROVE  IsDatabase(E) /\ Sound(E)
  BY DEF KeepsSound
<1>0. "sinks" \in Tables /\ row \in Rows["sinks"]  BY TablesAre
<1>1. IsDatabase(E) /\ \A u \in Tables \ {"sinks"} : E.rows[u] = D.rows[u]
  BY <1>0, InsertWrites
<1>2. PICK n \in Nat : /\ Live(E, "sinks") = Live(D, "sinks") \cup {n}
                       /\ Row(E, "sinks", n) = row
                       /\ \A s \in Live(D, "sinks") : Row(E, "sinks", s) = Row(D, "sinks", s)
  BY <1>0, InsertWrites
<1>3. \A u \in {"projects", "scripts", "bindings", "targets"} : E.rows[u] = D.rows[u]
  BY <1>1, TablesAre
<1>4. /\ Live(E, "targets") = Live(D, "targets")
      /\ \A j : Row(E, "targets", j) = Row(D, "targets", j)
  BY <1>3, SameTable
<1>5. SinksPart(E)
  BY <1>2, <1>4, SoundInParts DEF SinksPart, SoundSink, FitsItsTarget
<1> QED BY <1>1, <1>3, <1>5, SoundInParts, BindingsKept, ScriptsAlone, SameTable

LEMMA UpdateSinkKeeps ==
  ASSUME NEW D, IsDatabase(D), Sound(D), NEW i, NEW set,
         i \in Live(D, "sinks") => /\ With(Row(D, "sinks", i), set) \in SinkRow
                                  /\ FitsItsTarget(D, With(Row(D, "sinks", i), set))
  PROVE  KeepsSound(D, Update("sinks", i, set))
<1> SUFFICES ASSUME i \in Live(D, "sinks"), NEW seen \in Nat,
                    NEW E, E = Commit(D, Update("sinks", i, set), seen)
             PROVE  IsDatabase(E) /\ Sound(E)
  BY DEF KeepsSound, Allowed, Update
<1> DEFINE new == With(Row(D, "sinks", i), set)
<1>1. /\ IsDatabase(E) /\ Live(D, "sinks") = Live(E, "sinks")
      /\ \A u \in Tables \ {"sinks"} : E.rows[u] = D.rows[u]
      /\ Row(E, "sinks", i) = new
      /\ \A j \in Live(D, "sinks") \ {i} : Row(E, "sinks", j) = Row(D, "sinks", j)
  BY UpdateWrites, TablesAre
<1>2. \A u \in {"projects", "scripts", "bindings", "targets"} : E.rows[u] = D.rows[u]
  BY <1>1, TablesAre
<1>3. /\ Live(E, "targets") = Live(D, "targets")
      /\ \A j : Row(E, "targets", j) = Row(D, "targets", j)
  BY <1>2, SameTable
<1>4. FitsItsTarget(D, new)  OBVIOUS
<1>5. SinksPart(E)
  <2> HIDE DEF new
  <2> QED BY <1>1, <1>3, <1>4, SoundInParts DEF SinksPart, SoundSink, FitsItsTarget
<1> QED BY <1>1, <1>2, <1>5, SoundInParts, BindingsKept, ScriptsAlone, SameTable

LEMMA DeleteSinkKeeps ==
  ASSUME NEW D, IsDatabase(D), Sound(D), NEW i
  PROVE  KeepsSound(D, Delete("sinks", i))
<1> SUFFICES ASSUME NEW seen \in Nat,
                    NEW E, E = Commit(D, Delete("sinks", i), seen)
             PROVE  IsDatabase(E) /\ Sound(E)
  BY DEF KeepsSound
<1>0. "sinks" \in Tables \ {"projects"}  BY TablesAre
<1>1. /\ IsDatabase(E) /\ Live(E, "sinks") = Live(D, "sinks") \ {i}
      /\ \A u \in Tables \ {"sinks"} : E.rows[u] = D.rows[u]
      /\ \A s \in Live(E, "sinks") : Row(E, "sinks", s) = Row(D, "sinks", s)
  BY <1>0, DeleteWrites
<1>2. \A u \in {"projects", "scripts", "bindings", "targets"} : E.rows[u] = D.rows[u]
  BY <1>1, TablesAre
<1>3. /\ Live(E, "targets") = Live(D, "targets")
      /\ \A j : Row(E, "targets", j) = Row(D, "targets", j)
  BY <1>2, SameTable
<1>4. SinksPart(E)  BY <1>1, <1>3, SoundInParts DEF SinksPart, SoundSink
<1> QED BY <1>1, <1>2, <1>4, SoundInParts, BindingsKept, ScriptsAlone, SameTable

(***************************************************************************)
(* The operations, each decided on the database it is written to.          *)
(***************************************************************************)
(* What a request makes of a row has the types of the table.               *)
LEMMA CreatedProject ==
  ASSUME NEW row, Creates(row, ProjectBody), row.token # Blank, row.key # Blank
  PROVE  row \in ProjectRow
<1>1. /\ row = [c \in DOMAIN row |-> row[c]]
      /\ DOMAIN row = {"token", "key", "public", "ips", "enabled"}
  BY DEF Creates, Sets, ProjectBody
<1>2. /\ row.token \in Tokens \cup {Blank} /\ row.key \in Keys \cup {Blank}
      /\ row.public \in BOOLEAN /\ row.ips \in SUBSET Ips /\ row.enabled \in BOOLEAN
  BY DEF Creates, Sets, ProjectBody
<1> QED BY <1>1, <1>2 DEF ProjectRow

LEMMA ChangedProject ==
  ASSUME NEW row \in ProjectRow,
         NEW set, Changes(set, ProjectBody, {}), ~BlankIn(set, "token"), ~BlankIn(set, "key")
  PROVE  With(row, set) \in ProjectRow
<1>1. /\ "token" \in DOMAIN set => set.token \in Tokens
      /\ "key" \in DOMAIN set => set.key \in Keys
      /\ "public" \in DOMAIN set => set.public \in BOOLEAN
      /\ "ips" \in DOMAIN set => set.ips \in SUBSET Ips
      /\ "enabled" \in DOMAIN set => set.enabled \in BOOLEAN
  BY DEF Changes, Sets, ProjectBody, BlankIn
<1> QED BY <1>1 DEF ProjectRow, With

LEMMA ProjectsKeep ==
  ASSUME NEW D, IsDatabase(D), Sound(D)
  PROVE  /\ \A row : Creates(row, ProjectBody) => KeepsSound(D, CreateProject(D, row))
         /\ \A i, set : Changes(set, ProjectBody, {}) => KeepsSound(D, UpdateProject(D, i, set))
         /\ \A i : KeepsSound(D, DeleteProject(D, i))
<1>1. \A i \in Live(D, "projects") : Row(D, "projects", i) \in ProjectRow
  BY TableTyped, TablesAre
<1>2. ASSUME NEW row, Creates(row, ProjectBody) PROVE KeepsSound(D, CreateProject(D, row))
  BY <1>2, CreatedProject, RefuseKeeps, InsertProjectKeeps DEF CreateProject
<1>3. ASSUME NEW i, NEW set, Changes(set, ProjectBody, {})
      PROVE  KeepsSound(D, UpdateProject(D, i, set))
  BY <1>1, <1>3, ChangedProject, RefuseKeeps, UpdateProjectKeeps DEF UpdateProject
<1>4. ASSUME NEW i PROVE KeepsSound(D, DeleteProject(D, i))
  BY RefuseKeeps, DeleteProjectKeeps DEF DeleteProject
<1> QED BY <1>2, <1>3, <1>4

(* Ids are those of sinks that were enabled when the handler read them.    *)
LEMMA CreatedScript ==
  ASSUME NEW row, Creates(row, ScriptBody), NEW ids, ids \subseteq SinkIds,
         ScriptAccepted(row.source, ids)
  PROVE  row \in ScriptRow
<1>1. row = [c \in DOMAIN row |-> row[c]] /\ DOMAIN row = {"key", "source", "status"}
  BY DEF Creates, Sets, ScriptBody
<1>2. row.key \in ScriptKeys /\ row.status \in Statuses
  BY DEF Creates, Sets, ScriptBody
<1>3. row.source \in SUBSET ConstantNames  BY DEF ScriptAccepted, ConstantNames
<1> QED BY <1>1, <1>2, <1>3 DEF ScriptRow

LEMMA ChangedScript ==
  ASSUME NEW row \in ScriptRow, NEW set, Sets(set, {"source", "status"}, ScriptBody),
         NEW ids, ids \subseteq SinkIds, ScriptAccepted(set.source, ids)
  PROVE  With(row, set) \in ScriptRow
<1>1. DOMAIN set = {"source", "status"} /\ set.status \in Statuses
  BY DEF Sets, ScriptBody
<1>2. set.source \in SUBSET ConstantNames  BY DEF ScriptAccepted, ConstantNames
<1> QED BY <1>1, <1>2 DEF ScriptRow, With

LEMMA ScriptsKeep ==
  ASSUME NEW D, IsDatabase(D), Sound(D), NEW ids, ids \subseteq SinkIds
  PROVE  /\ \A row : Creates(row, ScriptBody) => KeepsSound(D, CreateScript(D, row, ids))
         /\ \A i, set : Sets(set, {"source", "status"}, ScriptBody) =>
                        KeepsSound(D, UpdateScript(D, i, set, ids))
         /\ \A i : \A status \in Statuses : KeepsSound(D, UpdateScriptStatus(D, i, status))
<1>1. \A i \in Live(D, "scripts") : Row(D, "scripts", i) \in ScriptRow
  BY TableTyped, TablesAre
<1>2. ASSUME NEW row, Creates(row, ScriptBody) PROVE KeepsSound(D, CreateScript(D, row, ids))
  BY <1>2, CreatedScript, RefuseKeeps, InsertScriptKeeps DEF CreateScript
<1>3. ASSUME NEW i, NEW set, Sets(set, {"source", "status"}, ScriptBody)
      PROVE  KeepsSound(D, UpdateScript(D, i, set, ids))
  <2>1. DOMAIN set = {"source", "status"}  BY <1>3 DEF Sets
  <2>2. CASE UpdateScript(D, i, set, ids).do = "refuse"
    BY <2>2 DEF KeepsSound, Allowed
  <2>3. CASE UpdateScript(D, i, set, ids).do # "refuse"
    <3>1. /\ UpdateScript(D, i, set, ids) = Update("scripts", i, set)
          /\ i \in Live(D, "scripts") /\ ScriptAccepted(set.source, ids)
          /\ set.status # "active" => CanBeDisabled(D, i)
      BY <2>3 DEF UpdateScript, Refuse
    <3>2. With(Row(D, "scripts", i), set) \in ScriptRow  BY <1>1, <1>3, <3>1, ChangedScript
    <3> QED BY <2>1, <3>1, <3>2, UpdateScriptKeeps
  <2> QED BY <2>2, <2>3
<1>4. ASSUME NEW i, NEW status \in Statuses PROVE KeepsSound(D, UpdateScriptStatus(D, i, status))
  <2> DEFINE set == [status |-> status]
  <2>1. CASE UpdateScriptStatus(D, i, status).do = "refuse"
    BY <2>1 DEF KeepsSound, Allowed
  <2>2. CASE UpdateScriptStatus(D, i, status).do # "refuse"
    <3>1. /\ UpdateScriptStatus(D, i, status) = Update("scripts", i, set)
          /\ i \in Live(D, "scripts")
          /\ status # "active" => CanBeDisabled(D, i)
      BY <2>2 DEF UpdateScriptStatus, Refuse
    <3>2. Row(D, "scripts", i) \in ScriptRow  BY <3>1, TableTyped, TablesAre
    <3>3. With(Row(D, "scripts", i), set) \in ScriptRow
      BY <3>2 DEF ScriptRow, With
    <3>4. DOMAIN set = {"status"} /\ set.status = status  OBVIOUS
    <3> HIDE DEF set
    <3> QED BY <3>1, <3>3, <3>4, UpdateScriptKeeps
  <2> QED BY <2>1, <2>2
<1> QED BY <1>2, <1>3, <1>4

LEMMA BindingsKeep ==
  ASSUME NEW D, IsDatabase(D), Sound(D)
  PROVE  /\ \A p, i : \A enabled \in BOOLEAN : KeepsSound(D, AssignProcessor(D, p, i, enabled))
         /\ \A p, script : KeepsSound(D, AssignDefaultProcessor(D, script, p))
         /\ \A p : KeepsSound(D, DeleteBinding(D, p))
<1>1. ASSUME NEW p, NEW i, NEW enabled \in BOOLEAN
      PROVE  KeepsSound(D, AssignProcessor(D, p, i, enabled))
  <2> DEFINE w == AssignProcessor(D, p, i, enabled)
             row == [project |-> p, script |-> i, enabled |-> enabled]
             set == [script |-> i, enabled |-> enabled]
             b == CHOOSE b \in BindingOf(D, p) : TRUE
  <2>1. CASE w.do = "refuse"  BY <2>1 DEF KeepsSound, Allowed
  <2>2. ASSUME w.do # "refuse"
        PROVE  /\ p \in Live(D, "projects") /\ i \in Live(D, "scripts")
               /\ enabled => Row(D, "scripts", i).status = "active"
               /\ w = IF BindingOf(D, p) = {} THEN Insert("bindings", row)
                      ELSE Update("bindings", b, set)
    BY <2>2 DEF AssignProcessor, Refuse
  <2>3. CASE w.do # "refuse" /\ BindingOf(D, p) = {}
    <3>1. p \in Nat /\ i \in Nat  BY <2>2, <2>3, TableTyped, TablesAre
    <3>2. row \in BindingRow /\ row.project = p /\ row.script = i /\ row.enabled = enabled
      BY <3>1 DEF BindingRow
    <3>3. w = Insert("bindings", row)  BY <2>2, <2>3
    <3> HIDE DEF row, w
    <3> QED BY <2>2, <2>3, <3>2, <3>3, InsertBindingKeeps DEF w
  <2>4. CASE w.do # "refuse" /\ BindingOf(D, p) # {}
    <3>1. b \in Live(D, "bindings")  BY <2>4 DEF BindingOf
    <3>2. DOMAIN set = {"script", "enabled"} /\ set.script = i /\ set.enabled = enabled
      OBVIOUS
    <3>3. w = Update("bindings", b, set)  BY <2>2, <2>4
    <3> HIDE DEF set, w, b
    <3> QED BY <2>2, <2>4, <3>1, <3>2, <3>3, UpdateBindingKeeps DEF w
  <2> QED BY <2>1, <2>3, <2>4
<1>2. ASSUME NEW p, NEW script PROVE KeepsSound(D, AssignDefaultProcessor(D, script, p))
  BY <1>1, RefuseKeeps DEF AssignDefaultProcessor
<1>3. ASSUME NEW p PROVE KeepsSound(D, DeleteBinding(D, p))
  BY RefuseKeeps, DeleteBindingKeeps DEF DeleteBinding
<1> QED BY <1>1, <1>2, <1>3

LEMMA ConfigsAre ==
  ASSUME NEW t \in Types
  PROVE  TargetFits[t] \subseteq Configs /\ SinkFits[t] \subseteq Dests
BY DEF Configs, Dests

LEMMA CreatedTarget ==
  ASSUME NEW row, Creates(row, TargetBody), row.config \in TargetFits[row.type]
  PROVE  row \in TargetRow
<1>1. row = [c \in DOMAIN row |-> row[c]] /\ DOMAIN row = {"id", "type", "config", "enabled"}
  BY DEF Creates, Sets, TargetBody
<1>2. row.id \in TargetIds /\ row.type \in Types /\ row.enabled \in BOOLEAN
  BY DEF Creates, Sets, TargetBody
<1>3. row.config \in Configs  BY <1>2, ConfigsAre
<1> QED BY <1>1, <1>2, <1>3 DEF TargetRow

LEMMA ChangedTarget ==
  ASSUME NEW row \in TargetRow, NEW set, Changes(set, TargetBody, {"id", "type"}),
         NEW type \in Types, "config" \in DOMAIN set => set.config \in TargetFits[type]
  PROVE  With(row, set) \in TargetRow
<1>1. /\ DOMAIN set \subseteq {"config", "enabled"}
      /\ "enabled" \in DOMAIN set => set.enabled \in BOOLEAN
  BY DEF Changes, Sets, TargetBody
<1>2. "config" \in DOMAIN set => set.config \in Configs  BY ConfigsAre
<1> QED BY <1>1, <1>2 DEF TargetRow, With

LEMMA TargetsKeep ==
  ASSUME NEW D, IsDatabase(D), Sound(D)
  PROVE  /\ \A row : Creates(row, TargetBody) => KeepsSound(D, CreateTarget(D, row))
         /\ \A i, set : Changes(set, TargetBody, {"id", "type"}) =>
                        KeepsSound(D, UpdateTarget(D, i, set))
         /\ \A i : KeepsSound(D, DeleteTarget(D, i))
<1>1. ASSUME NEW row, Creates(row, TargetBody) PROVE KeepsSound(D, CreateTarget(D, row))
  BY <1>1, CreatedTarget, RefuseKeeps, InsertTargetKeeps DEF CreateTarget
<1>2. ASSUME NEW i, NEW set, Changes(set, TargetBody, {"id", "type"})
      PROVE  KeepsSound(D, UpdateTarget(D, i, set))
  <2>1. CASE UpdateTarget(D, i, set).do = "refuse"  BY <2>1 DEF KeepsSound, Allowed
  <2>2. CASE UpdateTarget(D, i, set).do # "refuse"
    <3>1. /\ UpdateTarget(D, i, set) = Update("targets", i, set)
          /\ i \in Live(D, "targets")
          /\ "config" \in DOMAIN set => set.config \in TargetFits[Row(D, "targets", i).type]
      BY <2>2 DEF UpdateTarget, Refuse
    <3>2. Row(D, "targets", i) \in TargetRow  BY <3>1, TableTyped, TablesAre
    <3>3. "type" \notin DOMAIN set  BY <1>2 DEF Changes
    <3>4. Row(D, "targets", i).type \in Types  BY <3>2 DEF TargetRow
    <3>5. With(Row(D, "targets", i), set) \in TargetRow
      BY <1>2, <3>1, <3>2, <3>4, ChangedTarget
    <3> QED BY <3>1, <3>3, <3>5, UpdateTargetKeeps
  <2> QED BY <2>1, <2>2
<1>3. ASSUME NEW i PROVE KeepsSound(D, DeleteTarget(D, i))
  BY RefuseKeeps, DeleteTargetKeeps DEF DeleteTarget
<1> QED BY <1>1, <1>2, <1>3

LEMMA FittingIsTyped ==
  ASSUME NEW D, IsDatabase(D), NEW row, FitsItsTarget(D, row)
  PROVE  row.target \in Nat /\ row.dest \in Dests
<1>1. /\ row.target \in Nat /\ Row(D, "targets", row.target) \in TargetRow
  BY TableTyped, TablesAre DEF FitsItsTarget
<1>2. Row(D, "targets", row.target).type \in Types  BY <1>1 DEF TargetRow
<1> QED BY <1>1, <1>2, ConfigsAre DEF FitsItsTarget

LEMMA CreatedSink ==
  ASSUME NEW D, IsDatabase(D), NEW row, Creates(row, SinkBody),
         CreateSink(D, row).do # "refuse"
  PROVE  /\ CreateSink(D, row) = Insert("sinks", row)
         /\ row \in SinkRow /\ FitsItsTarget(D, row)
<1>1. /\ CreateSink(D, row) = Insert("sinks", row)
      /\ row.id # Blank /\ FitsItsTarget(D, row)
  BY DEF CreateSink, Refuse, FitsItsTarget
<1>2. row = [c \in DOMAIN row |-> row[c]] /\ DOMAIN row = {"id", "target", "dest", "enabled"}
  BY DEF Creates, Sets, SinkBody
<1>3. row.id \in SinkIds \cup {Blank} /\ row.enabled \in BOOLEAN
  BY DEF Creates, Sets, SinkBody
<1>4. row.target \in Nat /\ row.dest \in Dests  BY <1>1, FittingIsTyped
<1>5. row \in SinkRow  BY <1>1, <1>2, <1>3, <1>4 DEF SinkRow
<1> QED BY <1>1, <1>5

LEMMA ChangedSink ==
  ASSUME NEW D, IsDatabase(D), NEW i, NEW set, Changes(set, SinkBody, {"id"}),
         NEW w, w = UpdateSink(D, i, set), w.do # "refuse"
  PROVE  /\ w = Update("sinks", i, w.set) /\ i \in Live(D, "sinks")
         /\ \A row \in SinkRow : With(row, w.set) \in SinkRow
         /\ FitsItsTarget(D, With(Row(D, "sinks", i), w.set))
<1> DEFINE old == Row(D, "sinks", i)
           new == With(old, set)
           all == [c \in DOMAIN set \cup {"target", "dest"} |-> new[c]]
<1>1. /\ w = Update("sinks", i, all)
      /\ i \in Live(D, "sinks") /\ FitsItsTarget(D, new)
  BY DEF UpdateSink, Refuse, FitsItsTarget
<1>2. old \in SinkRow  BY <1>1, TableTyped, TablesAre
<1>3. /\ DOMAIN set \subseteq {"target", "dest", "enabled"}
      /\ "enabled" \in DOMAIN set => set.enabled \in BOOLEAN
  BY DEF Changes, Sets, SinkBody
<1>4. new.target \in Nat /\ new.dest \in Dests
  <2> HIDE DEF new
  <2> QED BY <1>1, FittingIsTyped
<1>5. \A row \in SinkRow : With(row, all) \in SinkRow
  <2>1. "enabled" \in DOMAIN set => new.enabled \in BOOLEAN
    BY <1>2, <1>3 DEF SinkRow, With
  <2> HIDE DEF new
  <2>2. /\ DOMAIN all \subseteq {"target", "dest", "enabled"}
        /\ all.target \in Nat /\ all.dest \in Dests
        /\ "enabled" \in DOMAIN all => all.enabled \in BOOLEAN
    BY <1>3, <1>4, <2>1
  <2> HIDE DEF all
  <2> QED BY <2>2 DEF SinkRow, With
<1>6. With(old, all) = new
  <2>1. DOMAIN old = {"id", "target", "dest", "enabled"}  BY <1>2 DEF SinkRow
  <2> QED BY <1>3, <2>1 DEF With
<1>7. w.set = all  BY <1>1 DEF Update
<1> HIDE DEF new, all
<1> QED BY <1>1, <1>5, <1>6, <1>7

LEMMA SinksKeep ==
  ASSUME NEW D, IsDatabase(D), Sound(D)
  PROVE  /\ \A row : Creates(row, SinkBody) => KeepsSound(D, CreateSink(D, row))
         /\ \A i, set : Changes(set, SinkBody, {"id"}) => KeepsSound(D, UpdateSink(D, i, set))
         /\ \A i : KeepsSound(D, DeleteSink(D, i))
<1>1. ASSUME NEW row, Creates(row, SinkBody) PROVE KeepsSound(D, CreateSink(D, row))
  <2>1. CASE CreateSink(D, row).do = "refuse"  BY <2>1 DEF KeepsSound, Allowed
  <2>2. CASE CreateSink(D, row).do # "refuse"
    <3>1. /\ CreateSink(D, row) = Insert("sinks", row)
          /\ row \in SinkRow /\ FitsItsTarget(D, row)
      BY <1>1, <2>2, CreatedSink
    <3> QED BY <3>1, InsertSinkKeeps
  <2> QED BY <2>1, <2>2
<1>2. ASSUME NEW i, NEW set, Changes(set, SinkBody, {"id"})
      PROVE  KeepsSound(D, UpdateSink(D, i, set))
  <2> DEFINE w == UpdateSink(D, i, set)
  <2>1. CASE w.do = "refuse"  BY <2>1 DEF KeepsSound, Allowed
  <2>2. CASE w.do # "refuse"
    <3>1. /\ w = Update("sinks", i, w.set) /\ i \in Live(D, "sinks")
          /\ \A row \in SinkRow : With(row, w.set) \in SinkRow
          /\ FitsItsTarget(D, With(Row(D, "sinks", i), w.set))
      BY <1>2, <2>2, ChangedSink
    <3>2. Row(D, "sinks", i) \in SinkRow  BY <3>1, TableTyped, TablesAre
    <3> HIDE DEF w
    <3>3. KeepsSound(D, Update("sinks", i, w.set))  BY <3>1, <3>2, UpdateSinkKeeps
    <3> QED BY <3>1, <3>3 DEF w
  <2> QED BY <2>1, <2>2
<1>3. ASSUME NEW i PROVE KeepsSound(D, DeleteSink(D, i))
  BY RefuseKeeps, DeleteSinkKeeps DEF DeleteSink
<1> QED BY <1>1, <1>2, <1>3

(***************************************************************************)
(* Every operation decides on a write whose values have the types of their *)
(* columns, to a row that is or has been there; on which database it is    *)
(* then made does not matter to that.                                      *)
(***************************************************************************)
TypedWrite(D, w) ==
  \/ \E t \in Tables : \E row \in Rows[t] : w = Insert(t, row)
  \/ \E t \in Tables : \E i \in DOMAIN D.rows[t] : \E set :
       w = Update(t, i, set) /\ \A row \in Rows[t] : With(row, set) \in Rows[t]
  \/ \E t \in Tables : \E i \in Nat : w = Delete(t, i)
DecidesTyped(D, w) == w.do = "refuse" \/ TypedWrite(D, w)

LEMMA RefuseIsTyped == ASSUME NEW D, NEW error PROVE DecidesTyped(D, Refuse(error))
BY DEF DecidesTyped, Refuse

LEMMA InsertIsTyped ==
  ASSUME NEW D, NEW t \in Tables, NEW row \in Rows[t] PROVE DecidesTyped(D, Insert(t, row))
BY DEF DecidesTyped, TypedWrite

LEMMA UpdateIsTyped ==
  ASSUME NEW D, NEW t \in Tables, NEW i \in Live(D, t), NEW set,
         \A row \in Rows[t] : With(row, set) \in Rows[t]
  PROVE  DecidesTyped(D, Update(t, i, set))
<1>1. i \in DOMAIN D.rows[t]  BY DEF Live
<1> QED BY <1>1 DEF DecidesTyped, TypedWrite

LEMMA DeleteIsTyped ==
  ASSUME NEW D, NEW t \in Tables, NEW i \in Nat PROVE DecidesTyped(D, Delete(t, i))
BY DEF DecidesTyped, TypedWrite

LEMMA ProjectsTyped ==
  ASSUME NEW D, IsDatabase(D)
  PROVE  /\ \A row : Creates(row, ProjectBody) => DecidesTyped(D, CreateProject(D, row))
         /\ \A i, set : Changes(set, ProjectBody, {}) => DecidesTyped(D, UpdateProject(D, i, set))
         /\ \A i : DecidesTyped(D, DeleteProject(D, i))
<1>0. "projects" \in Tables /\ Rows["projects"] = ProjectRow  BY TablesAre
<1>1. ASSUME NEW row, Creates(row, ProjectBody) PROVE DecidesTyped(D, CreateProject(D, row))
  BY <1>0, <1>1, CreatedProject, RefuseIsTyped, InsertIsTyped DEF CreateProject
<1>2. ASSUME NEW i, NEW set, Changes(set, ProjectBody, {})
      PROVE  DecidesTyped(D, UpdateProject(D, i, set))
  BY <1>0, <1>2, ChangedProject, RefuseIsTyped, UpdateIsTyped DEF UpdateProject
<1>3. ASSUME NEW i PROVE DecidesTyped(D, DeleteProject(D, i))
  BY <1>0, TableTyped, RefuseIsTyped, DeleteIsTyped DEF DeleteProject
<1> QED BY <1>1, <1>2, <1>3

LEMMA ScriptsTyped ==
  ASSUME NEW D, IsDatabase(D), NEW ids, ids \subseteq SinkIds
  PROVE  /\ \A row : Creates(row, ScriptBody) => DecidesTyped(D, CreateScript(D, row, ids))
         /\ \A i, set : Sets(set, {"source", "status"}, ScriptBody) =>
                        DecidesTyped(D, UpdateScript(D, i, set, ids))
         /\ \A i : \A status \in Statuses : DecidesTyped(D, UpdateScriptStatus(D, i, status))
<1>0. "scripts" \in Tables /\ Rows["scripts"] = ScriptRow  BY TablesAre
<1>1. ASSUME NEW row, Creates(row, ScriptBody) PROVE DecidesTyped(D, CreateScript(D, row, ids))
  BY <1>0, <1>1, CreatedScript, RefuseIsTyped, InsertIsTyped DEF CreateScript
<1>2. ASSUME NEW i, NEW set, Sets(set, {"source", "status"}, ScriptBody)
      PROVE  DecidesTyped(D, UpdateScript(D, i, set, ids))
  <2>1. CASE UpdateScript(D, i, set, ids).do = "refuse"  BY <2>1 DEF DecidesTyped
  <2>2. CASE UpdateScript(D, i, set, ids).do # "refuse"
    <3>1. /\ UpdateScript(D, i, set, ids) = Update("scripts", i, set)
          /\ i \in Live(D, "scripts") /\ ScriptAccepted(set.source, ids)
      BY <2>2 DEF UpdateScript, Refuse
    <3>2. \A row \in ScriptRow : With(row, set) \in ScriptRow
      BY <1>2, <3>1, ChangedScript
    <3> QED BY <1>0, <3>1, <3>2, UpdateIsTyped
  <2> QED BY <2>1, <2>2
<1>3. ASSUME NEW i, NEW status \in Statuses
      PROVE  DecidesTyped(D, UpdateScriptStatus(D, i, status))
  <2> DEFINE set == [status |-> status]
  <2>1. \A row \in ScriptRow : With(row, set) \in ScriptRow  BY DEF ScriptRow, With
  <2>2. \/ UpdateScriptStatus(D, i, status) = Update("scripts", i, set) /\ i \in Live(D, "scripts")
        \/ \E error : UpdateScriptStatus(D, i, status) = Refuse(error)
    BY Zenon DEF UpdateScriptStatus
  <2> HIDE DEF set
  <2> QED BY <1>0, <2>1, <2>2, UpdateIsTyped, RefuseIsTyped
<1> QED BY <1>1, <1>2, <1>3

LEMMA BindingsTyped ==
  ASSUME NEW D, IsDatabase(D)
  PROVE  /\ \A p, i : \A enabled \in BOOLEAN : DecidesTyped(D, AssignProcessor(D, p, i, enabled))
         /\ \A p, script : DecidesTyped(D, AssignDefaultProcessor(D, script, p))
         /\ \A p : DecidesTyped(D, DeleteBinding(D, p))
<1>0. "bindings" \in Tables /\ Rows["bindings"] = BindingRow  BY TablesAre
<1>1. ASSUME NEW p, NEW i, NEW enabled \in BOOLEAN
      PROVE  DecidesTyped(D, AssignProcessor(D, p, i, enabled))
  <2> DEFINE w == AssignProcessor(D, p, i, enabled)
             row == [project |-> p, script |-> i, enabled |-> enabled]
             set == [script |-> i, enabled |-> enabled]
             b == CHOOSE b \in BindingOf(D, p) : TRUE
  <2>1. CASE w.do = "refuse"  BY <2>1 DEF DecidesTyped
  <2>2. CASE w.do # "refuse"
    <3>1. /\ p \in Live(D, "projects") /\ i \in Live(D, "scripts")
          /\ w = IF BindingOf(D, p) = {} THEN Insert("bindings", row)
                 ELSE Update("bindings", b, set)
      BY <2>2 DEF AssignProcessor, Refuse
    <3>2. p \in Nat /\ i \in Nat  BY <3>1, TableTyped, TablesAre
    <3>3. row \in BindingRow  BY <3>2 DEF BindingRow
    <3>4. \A r \in BindingRow : With(r, set) \in BindingRow  BY <3>2 DEF BindingRow, With
    <3>5. BindingOf(D, p) # {} => b \in Live(D, "bindings")  BY DEF BindingOf
    <3> HIDE DEF row, set, b, w
    <3>6. DecidesTyped(D, w)  BY <1>0, <3>1, <3>3, <3>4, <3>5, InsertIsTyped, UpdateIsTyped
    <3> QED BY <3>6 DEF w
  <2> QED BY <2>1, <2>2
<1>2. ASSUME NEW p, NEW script PROVE DecidesTyped(D, AssignDefaultProcessor(D, script, p))
  BY <1>1, RefuseIsTyped DEF AssignDefaultProcessor
<1>3. ASSUME NEW p PROVE DecidesTyped(D, DeleteBinding(D, p))
  <2> DEFINE b == IF BindingOf(D, p) = {} THEN 0 ELSE CHOOSE b \in BindingOf(D, p) : TRUE
  <2>1. b \in Nat  BY <1>0, TableTyped DEF BindingOf
  <2>2. DeleteBinding(D, p) \in {Refuse("ProjectNotFound"), Delete("bindings", b)}
    BY DEF DeleteBinding
  <2> HIDE DEF b
  <2> QED BY <1>0, <2>1, <2>2, RefuseIsTyped, DeleteIsTyped
<1> QED BY <1>1, <1>2, <1>3

LEMMA TargetsTyped ==
  ASSUME NEW D, IsDatabase(D)
  PROVE  /\ \A row : Creates(row, TargetBody) => DecidesTyped(D, CreateTarget(D, row))
         /\ \A i, set : Changes(set, TargetBody, {"id", "type"}) =>
                        DecidesTyped(D, UpdateTarget(D, i, set))
         /\ \A i : DecidesTyped(D, DeleteTarget(D, i))
<1>0. "targets" \in Tables /\ Rows["targets"] = TargetRow  BY TablesAre
<1>1. ASSUME NEW row, Creates(row, TargetBody) PROVE DecidesTyped(D, CreateTarget(D, row))
  BY <1>0, <1>1, CreatedTarget, RefuseIsTyped, InsertIsTyped DEF CreateTarget
<1>2. ASSUME NEW i, NEW set, Changes(set, TargetBody, {"id", "type"})
      PROVE  DecidesTyped(D, UpdateTarget(D, i, set))
  <2>1. CASE UpdateTarget(D, i, set).do = "refuse"  BY <2>1 DEF DecidesTyped
  <2>2. CASE UpdateTarget(D, i, set).do # "refuse"
    <3>1. /\ UpdateTarget(D, i, set) = Update("targets", i, set) /\ i \in Live(D, "targets")
          /\ "config" \in DOMAIN set => set.config \in TargetFits[Row(D, "targets", i).type]
      BY <2>2 DEF UpdateTarget, Refuse
    <3>2. Row(D, "targets", i) \in TargetRow  BY <1>0, <3>1, TableTyped
    <3>3. Row(D, "targets", i).type \in Types  BY <3>2 DEF TargetRow
    <3>4. \A row \in TargetRow : With(row, set) \in TargetRow
      BY <1>2, <3>1, <3>3, ChangedTarget
    <3> QED BY <1>0, <3>1, <3>4, UpdateIsTyped
  <2> QED BY <2>1, <2>2
<1>3. ASSUME NEW i PROVE DecidesTyped(D, DeleteTarget(D, i))
  BY <1>0, TableTyped, RefuseIsTyped, DeleteIsTyped DEF DeleteTarget
<1> QED BY <1>1, <1>2, <1>3

LEMMA SinksTyped ==
  ASSUME NEW D, IsDatabase(D)
  PROVE  /\ \A row : Creates(row, SinkBody) => DecidesTyped(D, CreateSink(D, row))
         /\ \A i, set : Changes(set, SinkBody, {"id"}) => DecidesTyped(D, UpdateSink(D, i, set))
         /\ \A i : DecidesTyped(D, DeleteSink(D, i))
<1>0. "sinks" \in Tables /\ Rows["sinks"] = SinkRow  BY TablesAre
<1>1. ASSUME NEW row, Creates(row, SinkBody) PROVE DecidesTyped(D, CreateSink(D, row))
  <2>1. CASE CreateSink(D, row).do = "refuse"  BY <2>1 DEF DecidesTyped
  <2>2. CASE CreateSink(D, row).do # "refuse"
    BY <1>0, <1>1, <2>2, CreatedSink, InsertIsTyped
  <2> QED BY <2>1, <2>2
<1>2. ASSUME NEW i, NEW set, Changes(set, SinkBody, {"id"})
      PROVE  DecidesTyped(D, UpdateSink(D, i, set))
  <2> DEFINE w == UpdateSink(D, i, set)
  <2>1. CASE w.do = "refuse"  BY <2>1 DEF DecidesTyped
  <2>2. CASE w.do # "refuse"
    <3>1. /\ w = Update("sinks", i, w.set) /\ i \in Live(D, "sinks")
          /\ \A row \in SinkRow : With(row, w.set) \in SinkRow
      BY <1>2, <2>2, ChangedSink
    <3> HIDE DEF w
    <3>2. DecidesTyped(D, Update("sinks", i, w.set))  BY <1>0, <3>1, UpdateIsTyped
    <3> QED BY <3>1, <3>2 DEF w
  <2> QED BY <2>1, <2>2
<1>3. ASSUME NEW i PROVE DecidesTyped(D, DeleteSink(D, i))
  BY <1>0, TableTyped, RefuseIsTyped, DeleteIsTyped DEF DeleteSink
<1> QED BY <1>1, <1>2, <1>3

(* A commit of such a write leaves typed tables, and no row loses its      *)
(* place.                                                                  *)
LEMMA CommitsTyped ==
  ASSUME NEW D, IsDatabase(D), NEW w, TypedWrite(D, w), Allowed(D, w), NEW seen \in Nat,
         NEW E, E = Commit(D, w, seen)
  PROVE  /\ IsDatabase(E)
         /\ \A t \in Tables : DOMAIN D.rows[t] \subseteq DOMAIN E.rows[t]
<1>1. IsDatabase(E)
  <2>1. ASSUME NEW t \in Tables, NEW row \in Rows[t], w = Insert(t, row) PROVE IsDatabase(E)
    BY <2>1, InsertWrites
  <2>2. ASSUME NEW t \in Tables, NEW i, NEW set, w = Update(t, i, set),
               \A row \in Rows[t] : With(row, set) \in Rows[t]
        PROVE  IsDatabase(E)
    <3>1. i \in Live(D, t)  BY <2>2 DEF Allowed, Update
    <3>2. With(Row(D, t, i), set) \in Rows[t]  BY <2>2, <3>1, TableTyped
    <3> QED BY <2>2, <3>1, <3>2, UpdateWrites
  <2>3. ASSUME NEW t \in Tables, NEW i \in Nat, w = Delete(t, i) PROVE IsDatabase(E)
    BY <2>3, DeleteWrites, DeleteProjectWrites
  <2> QED BY <2>1, <2>2, <2>3 DEF TypedWrite
<1>2. ASSUME NEW t \in Tables PROVE DOMAIN D.rows[t] \subseteq DOMAIN E.rows[t]
  <2>1. E.rows[t] = Written(D, w, t)  BY DEF Commit
  <2>2. D.rows[t] \in Seq(Rows[t] \cup {Deleted})  BY DEF IsDatabase
  <2>3. CASE w.do = "insert" /\ t = w.table
    <3>1. E.rows[t] = Append(D.rows[t], w.row)  BY <2>1, <2>3 DEF Written
    <3>2. w.row \in Rows[t]  BY <2>3 DEF TypedWrite, Insert, Update, Delete
    <3> QED BY <2>2, <3>1, <3>2
  <2>4. CASE ~(w.do = "insert" /\ t = w.table)
    <3>1. DOMAIN Written(D, w, t) = DOMAIN D.rows[t]  BY <2>4 DEF Written
    <3> QED BY <2>1, <3>1
  <2> QED BY <2>3, <2>4
<1> QED BY <1>1, <1>2
=============================================================================
