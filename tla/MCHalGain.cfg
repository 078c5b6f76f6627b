SPECIFICATION Spec
CONSTANTS
  MaxVolume = 1
  Listeners <- MCListeners
  Period = 2
  Often = 1
  MaxPause = 5
  MaxPauses = 1
  MaxClients = 2
  MaxCalls = 2
PROPERTIES GainWasSet
