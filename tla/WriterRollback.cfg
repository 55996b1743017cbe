SPECIFICATION RollbackSpec
CONSTANTS
  Records = {r1, r2, r3, r4, r5}
  NoRecord = NoRecord
  FlushRecords = 3
  SegmentMaxFrames = 2
  NoSync = FALSE
  Faults = {"space", "write", "sync", "crash"}
  MaxCrashes = 2
SYMMETRY RecordSymmetry
INVARIANTS
  LogHasNoGap
  LogStaysReadable
CHECK_DEADLOCK FALSE
