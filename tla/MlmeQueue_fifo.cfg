SPECIFICATION FairSpec
CONSTANTS
  Max = 4
  Tasklets = {rx}
  Callers = {timer, user}
  Limit = 6
  Msgs = {m1, m2}
  None = None
INVARIANTS TypeOK ElemApart OccupiedExact
PROPERTIES ImplementsFifo Handled
CHECK_DEADLOCK FALSE
