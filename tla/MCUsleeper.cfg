CONSTANTS
  Sleeper = {s1, s2}
  Co = {c1, c2}
  Waker = {w1}
  None = None
  MaxNow = 2
  MaxDur = 2
  Calls = 2
  SqSize = 2
SPECIFICATION Spec
CHECK_DEADLOCK FALSE
INVARIANTS OneWakeup LoopExact
PROPERTY SleepsEnd
