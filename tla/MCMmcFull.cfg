CONSTANTS
  PollLimit = 2
  FifoDepth = 2
  WordsPerBlock = 2
  Requests <- MCRequests
  Retries = 1
  KeepFifo <- MCFlush
  MaxCalls = 2
SPECIFICATION Spec
INVARIANT FullImageRead
CHECK_DEADLOCK FALSE
