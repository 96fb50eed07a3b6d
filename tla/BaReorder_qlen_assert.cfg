\* A pool larger than the window, so that only the window bounds the list.
SPECIFICATION Spec
CONSTANTS
  SeqSpace = 16
  FirstSn = 13
  WinSizes = {3}
  PoolSize = 8
  OthersMax = 0
  NFrames = 9
  MaxCopies = 2
  MaxLoss = 0
  Eapol = {2}
INVARIANT QlenAssert
CHECK_DEADLOCK FALSE
