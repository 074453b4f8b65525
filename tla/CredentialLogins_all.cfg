SPECIFICATION FairSpec
CONSTANTS
  c1 = c1
  c2 = c2
  p1 = p1
  NoCredential = NoCredential
  Credentials = {c1, c2}
  Projects = {p1}
  MaxLogins = 2
  MaxRuns = 1
  MaxFaults = 2
  Hazards = {"stray_cancel", "cancel_all", "storage", "stubborn", "silent"}
INVARIANTS SupersededDiscarded SwapExcludesRuns NoOrphanLogin
PROPERTIES ReportAboutCurrent LoginSettles
CHECK_DEADLOCK FALSE
