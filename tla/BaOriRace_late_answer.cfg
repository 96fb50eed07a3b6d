SPECIFICATION Spec
CONSTANTS
  Tids = {t1, t2}
  OriLen = 3
  MaxRetry = 2
  Senders = {s1, s2}
  Mlme = mlme
  Smp = FALSE
INVARIANT MasksHaveSession
CHECK_DEADLOCK FALSE
