SPECIFICATION Spec
CONSTANTS
  Tries = 1
  MaxAssoc = 1
  MaxRekey = 1
PROPERTY CountdownEnsures
CHECK_DEADLOCK FALSE
