CONSTANTS
  Writer = {w1, w2}
  Reader = {d1, d2}
  MaxReaders = 8
  None = None
SPECIFICATION Spec
INVARIANT NewReadersWait
