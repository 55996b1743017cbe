SPECIFICATION InTurnSpec
CONSTANTS
  Records = {1, 2, 3}
  NoRecord = NoRecord
  Sinks = {1, 2}
  Initial = {1, 2}
  Latest = {}
  Timed = {2}
  Plans = {{1, 2}, {2}, {0}}
  BatchEvents = 2
  WindowRecords = 2
  CheckpointRecords = 3
  ReadLimit = 2
  SegmentMaxFrames = 1
  Faults = {"sink", "checkpoint", "gap"}
  MaxFailures = 1
  MaxCrashes = 1
  MaxToggles = 1
INVARIANTS
  TypeOK
  NothingSkipped
  SinkOrder
  GapStops
  PassInStep
  OnceUndisturbed
PROPERTIES
  CoveredNotResent
  HandledOrPutOff
CHECK_DEADLOCK FALSE
