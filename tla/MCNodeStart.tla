---------------------------- MODULE MCNodeStart ----------------------------
(* NodeStart with the defaults the seed writes, and one more token.        *)
EXTENDS NodeStart, TLC

CONSTANTS n1, n2

MCConstant == ("events" :> "SINK_EVENTS") @@ ("events_error" :> "SINK_EVENTS_ERROR")
              @@ ("parquet_events" :> "SINK_PARQUET_EVENTS")
              @@ ("loadtest_events" :> "SINK_LOADTEST_EVENTS")
MCTargetFits == ("kafka" :> {"broker"}) @@ ("parquet" :> {"fs"})
                @@ ("stdout" :> {"plain"}) @@ ("blackhole" :> {"plain"})
MCSinkFits == ("kafka" :> {"topic"}) @@ ("parquet" :> {"prefix"})
              @@ ("stdout" :> {"plain"}) @@ ("blackhole" :> {"plain"})
MCBuilds == {<<"kafka", "broker", "topic">>, <<"parquet", "fs", "prefix">>,
             <<"stdout", "plain", "plain">>, <<"blackhole", "plain", "plain">>}

TokenReplaced == {[token |-> "other"]}
ProjectEdits == {[enabled |-> FALSE], [token |-> "other", key |-> "other_app"]}

OneNode == {[starts |-> {n1}, kept |-> {n1}, troubles |-> 2]}

(* One node that is kept, with most trouble; one that comes and goes; and  *)
(* one of each together.                                                   *)
Everything == {[starts |-> {n1}, kept |-> {n1}, troubles |-> 3],
               [starts |-> {n1}, kept |-> {}, troubles |-> 2],
               [starts |-> {n1, n2}, kept |-> {n1}, troubles |-> 1]}
=============================================================================
