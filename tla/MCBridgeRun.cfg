SPECIFICATION Spec
CONSTANTS
  MaxResets <- MCMaxResets
INVARIANTS
  AsleepNotReset
  OnlineHonestAfterRetry
PROPERTIES
  AsleepRetriedSlower
  StopEndsBridge
  HeadsetOnStreams
CHECK_DEADLOCK TRUE
