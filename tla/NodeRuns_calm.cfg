SPECIFICATION Spec
CONSTANTS
  NumRuns = 2
  NumPasses = 1
  MaxRestarts = 1
  MaxForgets = 1
  Hazards = {}
INVARIANTS SingleFlight RecordIsTrue
PROPERTY ImplementsLifecycle
