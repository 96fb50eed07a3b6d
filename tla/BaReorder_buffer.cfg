SPECIFICATION Spec
CONSTANTS
  SeqSpace = 16
  FirstSn = 13
  WinSizes = {2, 3}
  PoolSize = 3
  OthersMax = 1
  NFrames = 13
  MaxCopies = 2
  MaxLoss = 1
  Eapol = {2, 6, 10}
INVARIANTS TypeOK QlenBounded PendingInWindow InOrderNotHeld PoolConserved
PROPERTY InOrderButForBar
CHECK_DEADLOCK FALSE
