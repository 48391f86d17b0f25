SPECIFICATION FairSpec
CONSTANTS
  Threads = {t1, t2}
  LoopThread = io
  Channels = {c1}
  WakeupChannel = wk
  Functors = {f1, f2, f3}
  InitEventsSize = 1
INVARIANTS LoopInv NoLostWakeup
PROPERTIES ImplementsExecutor FunctorsRun QuitStops
