SPECIFICATION WriterSpec
CONSTANTS
  Records = {r1, r2, r3, r4, r5}
  NoRecord = NoRecord
  FlushRecords = 3
  SegmentMaxFrames = 2
  NoSync = FALSE
  Faults = {"write", "crash"}
  MaxCrashes = 1
SYMMETRY RecordSymmetry
INVARIANTS
  LogHasNoGap
CHECK_DEADLOCK FALSE
