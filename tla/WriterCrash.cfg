SPECIFICATION WriterSpec
CONSTANTS
  Records = {r1, r2, r3, r4, r5}
  NoRecord = NoRecord
  FlushRecords = 3
  SegmentMaxFrames = 2
  NoSync = FALSE
  Faults = {"space", "write", "sync", "crash", "power"}
  MaxCrashes = 2
SYMMETRY RecordSymmetry
INVARIANTS
  AckedDurable
  WriterAtEnd
  RefusedNotLogged
  BufferFollowsLog
  LogHasNoGap
  LogStaysReadable
PROPERTIES
  KeepsPromise
CHECK_DEADLOCK FALSE
