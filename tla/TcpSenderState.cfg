SPECIFICATION Spec
CONSTANTS
  MaxClients = 2
  MaxFrames = 1
  FdLimit = 2
INVARIANT ConnectionStateIsTrue
CHECK_DEADLOCK FALSE
