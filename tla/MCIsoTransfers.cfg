SPECIFICATION Spec
CONSTANTS
  NumXfers = 2
  GoneResults <- MCGoneResults
INVARIANTS QueuesStayFull OutSubmittedOnce
PROPERTIES SessionEnds SessionOfRun
