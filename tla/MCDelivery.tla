----------------------------- MODULE MCDelivery -----------------------------
(* Delivery on small instances: three records; sink 1 is a topic, sinks 2  *)
(* to 4 are files in the three kinds of storage, sink 5 a blackhole.       *)
EXTENDS Delivery, TLC

MCKind == <<"kafka", "parquet", "parquet", "parquet", "blackhole">>
MCStorage == <<"plain", "rename", "conditional", "plain", "plain">>

Event(l, n, shape) == [lsn |-> l, n |-> n, bytes |-> 1, at |-> [id |-> shape]]
Column(type, nullable) == [path |-> "id", type |-> type, nullable |-> nullable]
Policy(e, b) == [events |-> e, bytes |-> b]

(* Every record has an event for the files, the second a fraction where    *)
(* the others have an integer, and two for the topic; the first has one    *)
(* for the blackhole.                                                      *)
One(l) == <<Event(l, 1, "integer")>>
OneEach ==
  LET Row(forTopic, forFiles, forBlackhole) ==
        <<forTopic, forFiles, forFiles, forFiles, forBlackhole>>
  IN  <<Row(One(1), One(1), One(1)),
        Row(<<Event(2, 1, "integer"), Event(2, 2, "string")>>, <<Event(2, 1, "fraction")>>, <<>>),
        Row(<<>>, One(3), <<>>)>>
Pair(l) == <<Event(l, 1, "integer"), Event(l, 2, "integer")>>
Twice == <<<<<<>>, Pair(1), <<>>, <<>>, <<>>>>, <<<<>>, Pair(2), <<>>, <<>>, <<>>>>,
           <<<<>>, Pair(3), <<>>, <<>>, <<>>>>>>

For5(x) == <<x, x, x, x, x>>
Wide == [emits |-> OneEach, sinks |-> {1, 2, 3, 4, 5}, failing |-> {},
         batch |-> For5(Policy(2, 9)), columns |-> For5({Column("number", FALSE)})]
Narrow == [Wide EXCEPT !.batch = For5(Policy(9, 1))]
Faulty == [Wide EXCEPT !.columns = For5({Column("integer", TRUE)}), !.failing = {5}]
Fewer == [Wide EXCEPT !.sinks = {1, 2, 3, 4}, !.emits[3][1] = One(3)]

AllConfigs == [wide |-> Wide, faulty |-> Faulty, fewer |-> Fewer, narrow |-> Narrow]
Splitting == [twice |-> [Wide EXCEPT !.emits = Twice, !.batch = For5(Policy(1, 9))]]
=============================================================================
