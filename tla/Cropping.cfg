SPECIFICATION MCSpec
CONSTANTS
  Width = 5
  Height = 3
  BlankWidth = 2
  BlankHeight = 5
  MinArea = 1
INVARIANTS
  TypeOK
  OffsetIsOrigin
  SelectionIsUsable
PROPERTY SelectingNarrows
CHECK_DEADLOCK FALSE
