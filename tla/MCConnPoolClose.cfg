CONSTANTS
  Client = {c1}
  Conn = {x1, x2}
  None = None
  MaxSize = 1
  MinIdle = 1
SPECIFICATION Spec
CHECK_DEADLOCK FALSE
INVARIANT ReleasedOnce
