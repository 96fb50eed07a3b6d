SPECIFICATION Spec
CONSTANTS
  SeqSpace = 16
  FirstSn = 13
  WinSizes = {2, 3}
  PoolSize = 4
  OthersMax = 0
  NFrames = 8
  MaxCopies = 2
  MaxLoss = 1
  Eapol = {}
PROPERTY PassedUpInOrder
CHECK_DEADLOCK FALSE
