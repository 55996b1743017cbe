SPECIFICATION FairSpec
CONSTANTS
  Records = {r1, r2, r3}
  NoRecord = NoRecord
  Sinks = {1}
  Initial = {1}
  Latest = {}
  Timed = {1}
  Plans = {{1}, {0}}
  BatchEvents = 2
  WindowRecords = 2
  CheckpointRecords = 3
  ReadLimit = 4
  SegmentMaxFrames = 2
  Faults = {}
  MaxFailures = 1
  MaxCrashes = 0
  MaxToggles = 0
PROPERTIES
  EventuallyHandled
