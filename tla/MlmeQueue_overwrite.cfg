SPECIFICATION Spec
CONSTANTS
  Max = 4
  Tasklets = {}
  Callers = {timer}
  Limit = 6
  Msgs = {m1, m2}
  None = None
PROPERTY WaitingKept
CHECK_DEADLOCK FALSE
