SPECIFICATION FairSpec
CONSTANTS
  f1 = f1
  f2 = f2
  NoFrame = NoFrame
  NumRequests = 2
  Frames = {f1, f2}
  MaxCrashes = 1
  Hazards = {"crash", "unreachable", "approval_timeout", "identical", "policy_race", "end_race", "forgotten", "stall"}
INVARIANTS ForwardedAtMostOnce RecordedAsHermesDid StrayOnlyAfterTimeout
PROPERTY AllowAllAnswers
CHECK_DEADLOCK FALSE
