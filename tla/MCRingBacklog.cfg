SPECIFICATION BacklogSpec
CONSTANTS
  Capacity = 32768
  TargetBacklog = 1536
  TrimFrames = 64
  CycleFrames = 512
  XferFrames = 384
  Jitter = 768
  StallFrames <- MCStallFrames
  MaxStalls = 2
INVARIANTS NormalOperationLossless
PROPERTIES LatencySettles
