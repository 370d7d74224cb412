SPECIFICATION LiveSpec
CONSTANTS
  MaxSends = 2
  MaxReads = 1
PROPERTY CloseResolves
CHECK_DEADLOCK FALSE
