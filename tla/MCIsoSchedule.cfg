SPECIFICATION Spec
CONSTANTS
  NumXfers = 3
  AudioPkts = 2
  LeadFrames = 8
  AbortPoll = 2
  DrainFrames = 37
  Tolerated = 4
  MaxHold = 7
  MaxFailed = 3
  MaxLost = 1
INVARIANTS
  OneTransferPerFrame
  NeverDry
  GapBounded
  DrainOutlastsQueue
