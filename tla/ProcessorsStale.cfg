SPECIFICATION FairSpec
CONSTANTS
  Blank = Blank
  t1 = t1
  t2 = t2
  k1 = k1
  k2 = k2
  ip1 = ip1
  ip2 = ip2
  Tokens = {t1, t2}
  Keys = {k1, k2}
  Ips = {ip1, ip2}
  ScriptKeys = {"default", "other", "third"}
  DefaultKey = "default"
  SinkIds = {"a", "b"}
  Constant <- MCConstant
  TargetIds = {"stdout", "files"}
  Types = {"stdout", "parquet"}
  TargetFits <- MCTargetFits
  SinkFits <- MCSinkFits
  Builds <- MCBuilds
  Deleted = Deleted
  NoToken = NoToken
  MaxEventBytes = 1
  Handlers = {h1}
  Remote = {}
  Isolation = "serializable"
  Scenarios <- SwitchWork
  InitialRows <- MCRows
  NewProjects <- MCNewProjects
  ProjectChanges <- MCProjectChanges
  NewScripts <- MCNewScripts
  ScriptChanges <- MCScriptChanges
  NewTargets <- MCNewTargets
  TargetChanges <- MCTargetChanges
  NewSinks <- MCNewSinks
  SinkChanges <- MCSinkChanges
  Requests <- MCRequests
  Nobody = Nobody
  Loop = Loop
  MaxChanges = 2
  MaxErrors = 0
  MaxRestarts = 1
PROPERTIES
  ProcessorsConverge
CHECK_DEADLOCK FALSE
