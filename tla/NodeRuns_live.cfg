SPECIFICATION FairSpec
CONSTANTS
  NumRuns = 1
  NumPasses = 2
  MaxRestarts = 1
  MaxForgets = 1
  Hazards = {"restart_live", "crash_in_submission", "cancel_in_submission", "overlap", "unreachable", "lost_reply", "stall", "routing", "unlisted"}
INVARIANTS SubmittedAtMostOnce CompletedOnEvidence
PROPERTY EveryRunSettles
