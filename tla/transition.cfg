SPECIFICATION FairSpec
CONSTANTS
  Rows = 3
  Fault = {"blind", "lost", "load"}
  MaxOps = 2
CHECK_DEADLOCK FALSE
 
PROPERTIES LateCompletionIgnored 
