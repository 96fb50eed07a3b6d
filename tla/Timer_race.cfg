SPECIFICATION Spec
CONSTANTS
  Callers = {p, q}
  Cb = cb
  None = none
INVARIANTS TypeOK KeepsPromise AddedOnce
PROPERTY Returns
CHECK_DEADLOCK FALSE
