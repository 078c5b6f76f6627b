SPECIFICATION Spec
CONSTANTS
  MaxResets <- MCMaxResets
PROPERTY
  AskedBridgeStops
CHECK_DEADLOCK TRUE
