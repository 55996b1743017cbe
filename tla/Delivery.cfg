SPECIFICATION FairSpec
CONSTANTS
  LastLsn = 3
  Kind <- MCKind
  Storage <- MCStorage
  Configs <- AllConfigs
  WindowRecords = 2
  MaxTroubles = 2
INVARIANTS
  TypeOK
  NothingLost
  InLogOrder
  FilesAreWhole
  NoFileTwice
PROPERTIES
  EventuallyDelivered
CHECK_DEADLOCK FALSE
