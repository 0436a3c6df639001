SPECIFICATION FairSpec
CONSTANTS
  N = 3
  MaxMissedPings = 2
  MaxView = 2
  MaxCrashes = 1
  Restarts = FALSE
  Timeouts = FALSE
PROPERTIES NewLeaderServes
