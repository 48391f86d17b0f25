SPECIFICATION FairSpec
CONSTANTS
  Threads = {t1}
  Lengths = {1, 2}
  rollSize_ = 2
  flushInterval_ = 0
  checkEveryN_ = 2
  kRollPerSeconds_ = 2
  MaxTime = 3
  MaxMessages = 3
  MaxRuns = 2
INVARIANTS LogInv Complete Rolling
PROPERTIES NothingErased ReachesDisk
