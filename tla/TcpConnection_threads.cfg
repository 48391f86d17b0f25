SPECIFICATION Spec
CONSTANTS
  SndBuf = 2
  MaxIn = 1
  Threads = {t1}
  Ops = {}
  SendSizes = {}
  FileSizes = {}
  MaxCalls = 1
  MaxBytes = 0
INVARIANT DestroyedOnce
