SPECIFICATION FairSpec
CONSTANTS
  SndBuf = 2
  MaxIn = 1
  Threads = {t1}
  Ops = {"send", "sendFile", "shutdown", "forceClose", "startRead", "stopRead", "writeComplete"}
  SendSizes = {1, 3}
  FileSizes = {3}
  MaxCalls = 3
  MaxBytes = 4
INVARIANTS OneTeardown ConnectionInv StreamIntact ShortAnswers
CHECK_DEADLOCK FALSE
PROPERTIES OutputDrains ShutdownCompletes PeerCloseFrees
