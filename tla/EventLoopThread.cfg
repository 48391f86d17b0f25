SPECIFICATION ThreadFairSpec
CONSTANTS
  Owner = main
  Threads = {main}
  Channels = {}
  LoopThread = io
  WakeupChannel = wk
  Functors = {f1, f2}
  InitEventsSize = 1
INVARIANT OwnerInv
PROPERTIES ConstructorReturns RunningLoopJoins
