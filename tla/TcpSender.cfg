SPECIFICATION FairSpec
CONSTANTS
  MaxClients = 3
  MaxFrames = 1
  FdLimit = 2
INVARIANTS
  TypeOK
  BackDefined
  NoOpenClientDropped
  IdleIsDisconnected
PROPERTY ThreadsEnd
CHECK_DEADLOCK FALSE
