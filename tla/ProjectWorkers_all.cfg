SPECIFICATION Spec
CONSTANTS
  p1 = p1
  p2 = p2
  c1 = c1
  m1 = m1
  m2 = m2
  NoCredential = NoCredential
  Projects = {p1, p2}
  Credentials = {c1}
  Models = {m1, m2}
  DefaultModel = m1
  Ports = {1, 2}
  MaxCommands = 5
  MaxFaults = 2
  MaxDeaths = 2
  Hazards = {"effects", "crash", "reboot", "operator"}
INVARIANTS  ServesAssigned ProvenKept
PROPERTIES UndisturbedRuns
CHECK_DEADLOCK FALSE

SYMMETRY ProjectSymmetry
