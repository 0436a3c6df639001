SPECIFICATION FairSpec
CONSTANTS
  N = 2
  Worker = {w1, w2}
  Calls = 1
  MaxAttempts = 4
  Timely = FALSE
  Slack = 0
  Kills = 2
  Restarts = TRUE
  Deadlines = TRUE
INVARIANT TypeOK
PROPERTY CallsEnd
CHECK_DEADLOCK FALSE
