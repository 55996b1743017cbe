SPECIFICATION FairSpec
CONSTANTS
  Blank = Blank
  Tokens = {"igx_local_test_token", "igx_loadtest_token", "other"}
  Keys = {"test_app", "loadtest_app", "other_app"}
  Ips = {}
  ScriptKeys = {"default", "loadtest_blackhole_processor"}
  DefaultKey = "default"
  SinkIds = {"events", "events_error", "parquet_events", "loadtest_events"}
  Constant <- MCConstant
  TargetIds = {"local_kafka", "local_parquet", "default_stdout", "loadtest_blackhole"}
  Types = {"kafka", "parquet", "stdout", "blackhole"}
  TargetFits <- MCTargetFits
  SinkFits <- MCSinkFits
  Builds <- MCBuilds
  Deleted = Deleted
  NoRow = NoRow
  StaleAfter = 1
  n1 = n1
  n2 = n2
  Nodes = {n1, n2}
  ProjectChanges <- TokenReplaced
  Scenarios <- OneNode
PROPERTIES
  ComesUp
