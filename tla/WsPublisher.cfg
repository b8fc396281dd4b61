SPECIFICATION FairSpec
CONSTANTS
  Conns = {c1}
  None = none
  MaxMessages = 3
INVARIANTS
  TypeOK
  HandlesAreLive
  QueueIsServed
  NothingSkipped
  CloseIsLast
PROPERTIES
  ClosingEnds
CHECK_DEADLOCK FALSE
