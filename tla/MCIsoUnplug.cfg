SPECIFICATION Spec
CONSTANTS
  NumXfers = 2
  GoneResults <- MCGoneResults
PROPERTIES UnplugEndsSession
