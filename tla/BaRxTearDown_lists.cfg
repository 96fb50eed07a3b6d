SPECIFICATION Spec
CONSTANTS
  Keys = {k1, k2}
  NFrames = 4
INVARIANT EachOnce
CHECK_DEADLOCK FALSE
