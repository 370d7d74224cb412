SPECIFICATION LiveSpec
CONSTANTS
  Callers = {c1, c2}
  MaxKills = 1
PROPERTIES NoSignalAfterReap AnswersAreCurrent StubbornChildIsKilled WatchedTerminateReturns
CHECK_DEADLOCK FALSE
