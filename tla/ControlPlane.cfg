SPECIFICATION FairSpec
CONSTANTS
  Blank = Blank
  t1 = t1
  t2 = t2
  k1 = k1
  k2 = k2
  ip1 = ip1
  ip2 = ip2
  Tokens = {t1, t2}
  Keys = {k1, k2}
  Ips = {ip1, ip2}
  ScriptKeys = {"default", "other", "third"}
  DefaultKey = "default"
  SinkIds = {"a", "b"}
  Constant <- MCConstant
  TargetIds = {"stdout", "files"}
  Types = {"stdout", "parquet"}
  TargetFits <- MCTargetFits
  SinkFits <- MCSinkFits
  Builds <- MCBuilds
  Deleted = Deleted
  NoToken = NoToken
  MaxEventBytes = 1
  Handlers = {h1, h2}
  Remote = {h2}
  Isolation = "serializable"
  Scenarios <- Everything
  InitialRows <- MCRows
  NewProjects <- MCNewProjects
  ProjectChanges <- MCProjectChanges
  NewScripts <- MCNewScripts
  ScriptChanges <- MCScriptChanges
  NewTargets <- MCNewTargets
  TargetChanges <- MCTargetChanges
  NewSinks <- MCNewSinks
  SinkChanges <- MCSinkChanges
  Requests <- MCRequests
  Nobody = Nobody
  Loop = Loop
  MaxChanges = 2
  MaxErrors = 1
  MaxRestarts = 1
INVARIANTS
  TypeOK
  CurrentMeansEqual
  RouterFollowsBindings
  AnsweredInForce
  AcceptedIffEntitled
  BindingsSound
PROPERTIES
  RegistriesConverge
CHECK_DEADLOCK FALSE
