SPECIFICATION FairSpec
CONSTANTS
  MaxKeys = 3
  MaxTokens = 2
  MaxCrashes = 2
  MaxLost = 1
  MaxBoots = 2
  MaxRevokes = 1
  Hazards = {"crash", "lost", "silent", "foreign", "edited"}
INVARIANTS NeverMintsOver OneNodePerKey SupersededSessionRaced
PROPERTIES KeyKeptUntilAccepted RegisteredConnects
CHECK_DEADLOCK FALSE
