SPECIFICATION MCSpec
CONSTANTS
  Tags = {1, 2}
  Poses = {zero, left, right}
  Zero = zero
  Absent = absent
  TuioEnabled = TRUE
  MaxSession = 3
INVARIANTS
  TypeOK
  EraseDefined
  BoardMatchesFrame
  ObjectsMatchTable
  NoGhostObject
  RestingTagIsRight
  PublishersAgree
PROPERTY LifeSpec
CHECK_DEADLOCK FALSE
