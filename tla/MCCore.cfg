CONSTANTS
  Parts = {"ushared_mutex", "umutex", "uchan", "cobatch"}
  Writer = {w1, w2}
  Reader = {d1, d2, d3}
  MaxReaders = 8
  None = None
  Co = {c1, c2, c3}
  MaxSpin = 1
  Sender = {s1, s2}
  Receiver = {r1, r2}
  Sizes = {0, 1, 2}
  MaxWrites = 1
  Tasks = 3
  Batch <- MCBatch
  Parent <- MCParent
  Concurrent = 2
SPECIFICATION CoreSpec
INVARIANTS RwExclusion NeverFatal DrainCounts UmutexSafe UchanSafe CobatchSafe
PROPERTIES RwProgress ImplementsMutex
PROPERTIES CloseEndsReads BatchesEnd
