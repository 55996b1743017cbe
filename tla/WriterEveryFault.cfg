SPECIFICATION FairSpec
CONSTANTS
  Records = {r1, r2, r3}
  NoRecord = NoRecord
  FlushRecords = 3
  SegmentMaxFrames = 2
  NoSync = FALSE
  Faults = {"space", "write", "sync", "crash", "power", "undo"}
  MaxCrashes = 1
INVARIANTS
  TypeOK
  AckInv
PROPERTIES
  AckedFrameStays
  EveryAppendAnswered
CHECK_DEADLOCK FALSE
