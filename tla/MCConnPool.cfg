CONSTANTS
  Client = {c1, c2, c3}
  Conn = {x1, x2, x3}
  None = None
  MaxSize = 2
  MinIdle = 0
SPECIFICATION Spec
CHECK_DEADLOCK FALSE
INVARIANTS PermitsConserved AtMostMaxSize OnePlace
PROPERTIES CloseFreesWaiters CloseClosesAll
