SPECIFICATION Spec
CONSTANTS
  NumRuns = 2
  NumPasses = 1
  MaxRestarts = 1
  MaxForgets = 0
  Hazards = {"restart_live"}
INVARIANT
  SingleFlight
