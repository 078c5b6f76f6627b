SPECIFICATION Spec
CONSTANTS
  Capacity = 4
  TargetBacklog = 1
  TrimFrames = 1
  WriteSizes <- MCWriteSizes
  ReadSizes <- MCReadSizes
  HalReads = TRUE
  MaxFrames = 8
INVARIANTS IntactUnlessLapped FreshCapture
PROPERTIES CaptureIsLossyFifo
