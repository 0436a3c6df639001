SPECIFICATION Spec
CONSTANTS
  N = 3
  Worker = {w1, w2}
  Rounds = 1
  MaxTries = 2
  MaxCancels = 0
  MaxLate = 0
  Deadlines = FALSE
  DedupModes = {TRUE}
  Mortal = {0}
  Restarts = FALSE
INVARIANTS ReadsCoverAcked
\* The workers come to the end of their requests.
CHECK_DEADLOCK FALSE
