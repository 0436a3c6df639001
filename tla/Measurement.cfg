SPECIFICATION MSpec
CONSTANTS
  Worker = {w1, w2}
  Increments = 2
  ThinkTime = TRUE
  KillAfter = 2
  Peers <- TwoPeers
  KillTarget = "follower"
  KillAddress = ""
  ChanCap = 1
  FlushEvery = 2
  StartNS = 400300
  Clock = {400300, 1700900}
  DiskErrors = TRUE
  Earlier <- EarlierKill
INVARIANTS TypeOK CsvComplete KillReported KillNotEarly FailoverEndEarliest PercentilesRank AxesHoldSamples
PROPERTIES RunEnds
CHECK_DEADLOCK FALSE
