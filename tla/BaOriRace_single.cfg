SPECIFICATION Spec
CONSTANTS
  Tids = {t1, t2}
  OriLen = 3
  MaxRetry = 2
  Senders = {s1, s2}
  Mlme = mlme
  Smp = TRUE
CONSTRAINT Unraced
INVARIANTS TypeOK CountOri NoneLost MaskedMapped
PROPERTY ImplementsAgreement
CHECK_DEADLOCK FALSE
