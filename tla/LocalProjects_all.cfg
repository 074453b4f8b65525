SPECIFICATION Spec
CONSTANTS
  c1 = c1
  c2 = c2
  k1 = k1
  k2 = k2
  Commands = {c1, c2}
  Categories = {k1, k2}
  NoCategory = NoCategory
  MaxCommands = 2
  MaxRuns = 1
  MaxEdits = 1
  MaxFaults = 1
SYMMETRY CommandSymmetry
INVARIANTS KnownRunSpared PinsInEffect RevokedReturnsByRace
CHECK_DEADLOCK FALSE
