SPECIFICATION Spec
CONSTANTS
  N = 3
  MaxMissedPings = 1
  MaxView = 1
  MaxCrashes = 1
  Restarts = TRUE
  Timeouts = TRUE
INVARIANTS CommitBacked NoViewSkipped LeaderOfReachedView
