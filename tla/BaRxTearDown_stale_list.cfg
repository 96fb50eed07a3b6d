SPECIFICATION Spec
CONSTANTS
  Keys = {k1, k2}
  NFrames = 4
INVARIANT AddAssert
CHECK_DEADLOCK FALSE
