SPECIFICATION FillSpec
CONSTANTS
  Capacity = 3
  TargetBacklog = 0
  TrimFrames = 1
  WriteSizes <- MCWriteSizes
  ReadSizes <- MCXferSizes
  HalReads = FALSE
  MaxFrames = 6
INVARIANTS ReadNotAhead
PROPERTIES JoinsConcealed
