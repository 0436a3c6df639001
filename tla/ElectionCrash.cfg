SPECIFICATION FairSpec
CONSTANTS
  N = 3
  MaxMissedPings = 2
  MaxView = 3
  MaxCrashes = 2
  Restarts = FALSE
  Timeouts = FALSE
INVARIANTS TypeOK CommitBacked LeaderOfReachedView
PROPERTIES ViewNeverRegresses DeadLeaderAbandoned
