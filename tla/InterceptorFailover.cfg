SPECIFICATION Spec
CONSTANTS
  N = 3
  Worker = {w1, w2}
  Calls = 1
  MaxAttempts = 15
  Timely = TRUE
  Slack = 8
  Kills = 1
  Restarts = FALSE
  Deadlines = FALSE
INVARIANT FailoverTransparent
CHECK_DEADLOCK FALSE
