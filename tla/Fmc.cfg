SPECIFICATION FairSpec
CONSTANTS
  MaxRank = 2
  NoIp = "none"
  BufSize = 6
  FifoDepth = 4
  HwDepth = 2
  Depth = 2
  VersionMod = 8
  Works <- MCWorks
INVARIANTS AnswerIsJust ConfigurationIntact
PROPERTIES WrittenDecoupled EveryRequestAnswered TableMirrored
