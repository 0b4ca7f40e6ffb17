SPECIFICATION TCPFairSpec
CONSTANTS
  MaxSent = 1
  Window = 1
INVARIANTS EndMeansComplete NothingLeftOpen
PROPERTIES EverythingArrives ErrorsEndHandler QueriesEndHandler
CHECK_DEADLOCK FALSE
