SPECIFICATION FairSpec
CONSTANTS
  People = {1, 2}
  NumRuns = 2
  MaxRows = 2
  MaxEvents = 3
  Window = 2
  MaxRequests = 3
  MaxFaults = 1
  Kinds = {"blocked", "completed_in_card", "completed_bare", "oversized"}
  Outcomes = {"completed", "failed"}
  RunIds = {"node", "plane"}
INVARIANTS NothingSkipped CurrentAttempt
PROPERTIES CompletedByItsRun 
CHECK_DEADLOCK FALSE
