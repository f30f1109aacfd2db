SPECIFICATION Spec
CONSTANTS
  Rows = 3
  Fault = {}
  MaxOps = 1
CHECK_DEADLOCK FALSE
PROPERTY LatchedFirst
