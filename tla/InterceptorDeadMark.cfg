SPECIFICATION Spec
CONSTANTS
  N = 3
  Worker = {w1}
  Calls = 1
  MaxAttempts = 15
  Timely = TRUE
  Slack = 8
  Kills = 1
  Restarts = TRUE
  Deadlines = FALSE
INVARIANT FailoverTransparent
CHECK_DEADLOCK FALSE
