SPECIFICATION FairSpec
CONSTANTS
  NumRuns = 1
  NumEvents = 2
  MaxOutbox = 4
  MaxInFlight = 2
  MaxDrops = 2
  MaxCrashes = 1
  MaxRepeats = 1
  Hazards = {"rollback"}
INVARIANT AnswerKept
PROPERTIES EndSticks EndIsLearned
CHECK_DEADLOCK FALSE
