SPECIFICATION FairSpec
CONSTANTS
  SeqSpace = 16
  FirstSn = 13
  WinSizes = {2}
  PoolSize = 4
  OthersMax = 0
  NFrames = 4
  MaxCopies = 2
  MaxLoss = 1
  Eapol = {}
PROPERTY PendingPassedUp
CHECK_DEADLOCK FALSE
