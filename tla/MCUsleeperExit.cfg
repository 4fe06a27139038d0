CONSTANTS
  Sleeper = {s1}
  Co = {c1}
  Waker = {w1}
  None = None
  MaxNow = 1
  MaxDur = 1
  Calls = 1
  SqSize = 2
SPECIFICATION Spec
CHECK_DEADLOCK FALSE
PROPERTY WokenResumes
