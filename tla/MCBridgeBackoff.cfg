SPECIFICATION Spec
CONSTANTS
  MaxResets <- MCMaxResets
PROPERTY
  BackoffGrows
CHECK_DEADLOCK TRUE
