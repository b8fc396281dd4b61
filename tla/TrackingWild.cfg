SPECIFICATION Spec
CONSTANTS
  Tags = {1, 2}
  Poses = {zero, left, right}
  Zero = zero
  Absent = absent
  TuioEnabled = TRUE
  MaxSession = 3
INVARIANT RefersToObject
CHECK_DEADLOCK FALSE
