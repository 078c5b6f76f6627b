SPECIFICATION Spec
CONSTANTS
  Dialects <- MCDialects
  ClientLen = 150
  MaxSessions = 2
  MaxFaults = 0
  LateAnswers = TRUE
INVARIANT NothingBeforeStart
CHECK_DEADLOCK FALSE
