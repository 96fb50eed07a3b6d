SPECIFICATION Spec
CONSTANTS
  Wcids = {w1}
  Tids = {t1}
  OriLen = 2
  RecLen = 2
  MaxRetry = 2
INVARIANT SessionMasked
CHECK_DEADLOCK FALSE
