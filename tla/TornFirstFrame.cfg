SPECIFICATION WriterSpec
CONSTANTS
  Records = {r1, r2, r3, r4}
  NoRecord = NoRecord
  FlushRecords = 3
  SegmentMaxFrames = 2
  NoSync = FALSE
  Faults = {"power"}
  MaxCrashes = 1
SYMMETRY RecordSymmetry
INVARIANTS
  LogReadable
CHECK_DEADLOCK FALSE
