CONSTANTS
  PollLimit = 2
  FifoDepth = 2
  WordsPerBlock = 2
  Requests <- MCRequests
  Retries = 1
  KeepFifo <- MCKeepBoth
  MaxCalls = 2
SPECIFICATION FairSpec
INVARIANTS TypeOK CardLeftReady StatusTruthful
PROPERTIES ReadsSectors CallsTerminate
CHECK_DEADLOCK FALSE
