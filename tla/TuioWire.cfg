SPECIFICATION MCSpec
CONSTANTS
  Tags = {1, 2}
  Poses = {left, right}
  Window = 1
  MaxDelay = 1
  MaxFrame = 4
  MaxRuns = 2
INVARIANTS
  TypeOK
  LastMessageCounts
  NoGhost
  AliveListRepairs
  HearsAgain
CHECK_DEADLOCK FALSE
