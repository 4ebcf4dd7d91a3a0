\* close is called a second time.
SPECIFICATION Spec
CONSTANTS
  Conn = {k1}
  Message = {m1}
  NULL = NULL
INVARIANT MayCloseTwice
CHECK_DEADLOCK FALSE
