SPECIFICATION Spec
CONSTANTS
  Dialects <- MCDialects
  ClientLen = 150
  MaxSessions = 3
  MaxFaults = 2
  LateAnswers = FALSE
INVARIANTS NobodyWaits AudioAfterFinish RecordsIntact TranscriptOrder
           HeadersSurvive
PROPERTIES HandshakeCompletes
CHECK_DEADLOCK FALSE
