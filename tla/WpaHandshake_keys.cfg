SPECIFICATION Spec
CONSTANTS
  Tries = 1
  MaxAssoc = 2
  MaxRekey = 1
CONSTRAINT Few
INVARIANTS TypeOK KeysAgree GroupKeyAgrees
PROPERTY Ends
CHECK_DEADLOCK FALSE
