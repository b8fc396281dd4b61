SPECIFICATION FairSpec
CONSTANTS
  MaxClients = 2
  MaxFrames = 0
  FdLimit = 2
PROPERTY NewClientIsCalled
CHECK_DEADLOCK FALSE
