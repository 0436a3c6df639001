SPECIFICATION FairSpec
CONSTANTS
  N = 3
  Worker = {w1}
  Rounds = 3
  MaxTries = 2
  MaxCancels = 0
  MaxLate = 0
  Deadlines = FALSE
  DedupModes = {TRUE, FALSE}
  Mortal = {0, 2}
  Restarts = TRUE
INVARIANTS ExactlyOnce ReadsCoverAcked CacheAgrees
PROPERTIES AllAnswered ImplementsService
\* The workers come to the end of their requests.
CHECK_DEADLOCK FALSE
