SPECIFICATION LiveSpec
CONSTANTS
  Callers = {c1}
  MaxKills = 0
PROPERTY TerminateReturnsAlways
CHECK_DEADLOCK FALSE
