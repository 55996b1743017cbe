SPECIFICATION Spec
CONSTANTS
  Records = {r1, r2, r3, r4}
  NoRecord = NoRecord
  FlushRecords = 2
  SegmentMaxFrames = 2
  NoSync = FALSE
  Faults = {"crash", "power"}
  MaxCrashes = 2
SYMMETRY RecordSymmetry
INVARIANTS
  BufferFollowsLog
PROPERTIES
  KeepsPromise
CHECK_DEADLOCK FALSE
