SPECIFICATION Spec
CONSTANTS
  N = 2
  Worker = {w1, w2}
  Rounds = 1
  MaxTries = 2
  MaxCancels = 1
  MaxLate = 1
  Deadlines = TRUE
  DedupModes = {TRUE, FALSE}
  Mortal = {1}
  Restarts = TRUE
SYMMETRY WorkerSymmetry
INVARIANTS TypeOK DistinctReplies FollowerNeverAhead AckedAtSurvivors
PROPERTIES CacheEntriesStable ImplementsService
\* The workers come to the end of their requests.
CHECK_DEADLOCK FALSE
