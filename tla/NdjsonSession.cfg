SPECIFICATION LiveSpec
CONSTANTS
  MaxSends = 2
  MaxReads = 2
INVARIANTS RecvLosesNothing TornFrameIsLastFrame
PROPERTIES PortSpec EndersReturn OnlyAStuckFrameDelays
CHECK_DEADLOCK FALSE
