--------------------------- MODULE MCControlPlane ---------------------------
(* ControlPlane on small instances: one project, the default script and    *)
(* another one, one target with one sink; requests that change each.       *)
EXTENDS ControlPlane, TLC

CONSTANTS t1, t2, k1, k2, ip1, ip2

Project(token, key) == [token |-> token, key |-> key, public |-> FALSE, ips |-> {}, enabled |-> TRUE]
MCRows == [projects |-> <<Project(t1, k1)>>,
           scripts |-> <<[key |-> "default", source |-> {"SINK_A"}, status |-> "active"],
                         [key |-> "other", source |-> {"SINK_A"}, status |-> "active"]>>,
           bindings |-> <<[project |-> 1, script |-> 1, enabled |-> TRUE]>>,
           targets |-> <<[id |-> "files", type |-> "parquet", config |-> "fs", enabled |-> TRUE]>>,
           sinks |-> <<[id |-> "a", target |-> 1, dest |-> "prefix", enabled |-> TRUE]>>]

MCConstant == [s \in {"a", "b"} |-> IF s = "a" THEN "SINK_A" ELSE "SINK_B"]
MCTargetFits == [t \in {"stdout", "parquet"} |-> IF t = "stdout" THEN {"plain"} ELSE {"fs", "typo"}]
MCSinkFits == [t \in {"stdout", "parquet"} |-> IF t = "stdout" THEN {"plain"} ELSE {"prefix"}]
MCBuilds == {<<"stdout", "plain", "plain">>, <<"parquet", "fs", "prefix">>}

MCNewProjects == {Project(t2, k2), Project(t1, k2)}
MCProjectChanges == {[token |-> t2], [enabled |-> FALSE], [enabled |-> TRUE],
                     [public |-> TRUE, ips |-> {ip1}]}
MCNewScripts == {[key |-> "third", source |-> {"SINK_B"}, status |-> "draft"]}
MCScriptChanges == {[source |-> {"SINK_A"}, status |-> "archived"],
                    [source |-> {"SINK_B"}, status |-> "active"]}
MCNewTargets == {[id |-> "stdout", type |-> "stdout", config |-> "plain", enabled |-> TRUE]}
MCTargetChanges == {[enabled |-> FALSE], [config |-> "typo"], [config |-> "fs"]}
MCNewSinks == {[id |-> "b", target |-> 1, dest |-> "prefix", enabled |-> TRUE],
               [id |-> "b", target |-> 2, dest |-> "plain", enabled |-> TRUE]}
MCSinkChanges == {[enabled |-> FALSE], [enabled |-> TRUE], [target |-> 2, dest |-> "plain"]}

MCRequests == {[method |-> "POST", empty |-> FALSE, form |-> FALSE, parses |-> TRUE, key |-> k,
                header |-> h, field |-> f, ip |-> i, size |-> 1] :
                 k \in {k1, k2}, h \in {NoToken, t1, t2}, f \in {NoToken, t1}, i \in {ip1, ip2}}

Watching(watch, ops) == [watch |-> watch, ops |-> ops]
ProjectWork == Watching({"projects"}, {"create_project", "update_project", "delete_project"})
ScriptWork == Watching({"scripts"}, {"create_script", "update_script", "update_script_status",
                                     "assign_processor", "delete_binding"})
BindingWork == Watching({"projects", "scripts"}, {"create_project", "update_project",
                                                  "delete_project", "update_script_status"})
SinkWork == Watching({"sinks"}, {"create_target", "update_target", "delete_target",
                                 "create_sink", "update_sink", "delete_sink"})
Everything == {ProjectWork, ScriptWork, BindingWork, SinkWork}
SwitchWork == {Watching({"scripts"}, {"update_project", "assign_processor"})}
=============================================================================
