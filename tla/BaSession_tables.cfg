SPECIFICATION FairSpec
CONSTANTS
  Wcids = {w1, w2}
  Tids = {t1}
  OriLen = 3
  RecLen = 2
  MaxRetry = 2
INVARIANTS TypeOK IndexesOwned CountsExact BitmapsBacked TimersMatch
PROPERTIES ImplementsAgreement SetUpEnds
CHECK_DEADLOCK FALSE
