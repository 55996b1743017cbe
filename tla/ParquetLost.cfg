SPECIFICATION FairSpec
CONSTANTS
  LastLsn = 3
  Kind <- MCKind
  Storage <- MCStorage
  Configs <- Splitting
  WindowRecords = 2
  MaxTroubles = 0
INVARIANTS
  NothingLost
CHECK_DEADLOCK FALSE
