SPECIFICATION WriterSpec
CONSTANTS
  Records = {r1, r2, r3, r4}
  NoRecord = NoRecord
  FlushRecords = 3
  SegmentMaxFrames = 2
  NoSync = TRUE
  Faults = {"space", "write", "sync", "crash"}
  MaxCrashes = 1
SYMMETRY RecordSymmetry
INVARIANTS
  AcceptedKept
CHECK_DEADLOCK FALSE
