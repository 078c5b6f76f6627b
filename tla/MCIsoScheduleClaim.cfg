SPECIFICATION Spec
CONSTANTS
  NumXfers = 6
  AudioPkts = 8
  LeadFrames = 64
  AbortPoll = 20
  DrainFrames = 300
  Tolerated = 48
  MaxHold = 56
  MaxFailed = 0
  MaxLost = 0
INVARIANTS NeverDry
