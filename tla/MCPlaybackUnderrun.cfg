SPECIFICATION FillSpec
CONSTANTS
  Capacity = 4
  TargetBacklog = 1
  TrimFrames = 1
  WriteSizes <- MCWriteSizes
  ReadSizes <- MCXferSizes
  HalReads = FALSE
  MaxFrames = 6
INVARIANTS UnderrunsAreStarvation
