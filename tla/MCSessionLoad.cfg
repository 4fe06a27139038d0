CONSTANTS
  Parts = {"session"}
  SessionFaults = {"get"}
  SqlFaults = {}
  Handlers = 3
  FileSize = 7
  Pipe = 2
  Chunk = 4
  SizeMod = 64
  KeepAliveCount = 2
  Request <- MCRequest
  MaxSets = 2
  FileCaller = {"a", "b", "c"}
  FilePath = {"p", "q"}
  Fd = {1, 2, 3, 4}
  Cap = 1
  Req = {"a", "b"}
  MaxFresh = 5
  MaxReqs = 3
  Thread = {"t1", "t2"}
  Key = {"k1", "k2", "k3"}
  Limit = 1
  MaxKeys = 2
  MaxWindow = 2
  MaxCalls = 5
  Client = {"c1", "c2"}
  User = {"u"}
  Password = {"p", "q"}
  Vid = {"v", "w"}
  Node = {1, 2, 3, 4, 5, 6}
  MaxDl = 2
SPECIFICATION RequestsSpec
CHECK_DEADLOCK FALSE
INVARIANT LoadErrorKeepsLogin
