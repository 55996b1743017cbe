SPECIFICATION Spec
CONSTANTS
  Records = {r1, r2}
  NoRecord = NoRecord
  Sinks = {1}
  Initial = {1}
  Latest = {1}
  Timed = {}
  Plans = {{1}}
  BatchEvents = 2
  WindowRecords = 2
  CheckpointRecords = 2
  ReadLimit = 4
  SegmentMaxFrames = 2
  Faults = {}
  MaxFailures = 1
  MaxCrashes = 1
  MaxToggles = 0
SYMMETRY RecordSymmetry
INVARIANTS
  NothingSkipped
