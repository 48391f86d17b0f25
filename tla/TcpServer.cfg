SPECIFICATION FairSpec
CONSTANTS
  numThreads_ = 2
  FdLimit = 3
  MaxClients = 2
INVARIANTS ServerInv Descriptors LeastLoaded
PROPERTIES ClientsAnswered ClosedFreed
CHECK_DEADLOCK FALSE
