SPECIFICATION Spec
CONSTANTS
  Records = {r1, r2, r3}
  NoRecord = NoRecord
  FlushRecords = 2
  SegmentMaxFrames = 3
  NoSync = FALSE
  Faults = {"space"}
  MaxCrashes = 0
SYMMETRY RecordSymmetry
INVARIANTS
  AckedReachable
CHECK_DEADLOCK FALSE
