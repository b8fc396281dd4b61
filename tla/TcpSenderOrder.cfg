SPECIFICATION Spec
CONSTANTS
  MaxClients = 2
  MaxFrames = 1
  FdLimit = 2
INVARIANT ResponseBeforeFrames
CHECK_DEADLOCK FALSE
