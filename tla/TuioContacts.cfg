SPECIFICATION MCSpec
CONSTANTS
  Kinds = {"cursor", "blob"}
  Places = {p, q}
  Speeds = {0, 1}
  Room = 1
  MaxSession = 2
  MaxFrame = 1
  MaxWire = 0
SYMMETRY PlacesAreAlike
INVARIANTS
  TypeOK
  ManagerPoolIsWhole
  ReceiverPoolIsWhole
  ReceiverMirrors
CHECK_DEADLOCK FALSE
