SPECIFICATION Spec
CONSTANTS
  NumRuns = 1
  NumEvents = 2
  MaxOutbox = 2
  MaxInFlight = 1
  MaxDrops = 1
  MaxCrashes = 1
  MaxRepeats = 2
  Hazards = {"rollback", "slow", "slow_ack", "late_frames", "storage", "mid_command"}
INVARIANTS ExecutedAtMostOnce CursorBehindStore
PROPERTY ImplementsRemoteRuns
CHECK_DEADLOCK FALSE
