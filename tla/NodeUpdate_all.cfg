SPECIFICATION Spec
CONSTANTS
  r1 = r1
  r2 = r2
  w1 = w1
  w2 = w2
  None = None
  Releases = {r1, r2}
  Workers = {w1}
  MaxOps = 2
  MaxAttempts = 3
  MaxFaults = 1
  MaxCrashes = 1
  Hazards = {"effects", "crash", "drop", "rollback"}
SYMMETRY ReleaseSymmetry
INVARIANTS ProvenRuntimeKept
PROPERTIES SuccessIsCoherent RestoredIsBack
CHECK_DEADLOCK FALSE
