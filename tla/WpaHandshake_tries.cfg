SPECIFICATION Spec
CONSTANTS
  Tries = 3
  MaxAssoc = 1
  MaxRekey = 1
INVARIANTS TypeOK KeysAgree GroupKeyAgrees
PROPERTY Ends
CHECK_DEADLOCK FALSE
