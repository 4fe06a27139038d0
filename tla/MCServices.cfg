CONSTANTS
  Parts = {"http_server", "thread_pool", "redis_lock"}
  ServerWorker = {v1, v2}
  Client = {c1, c2}
  Fd = {1, 2}
  PoolWorker = {t1, t2}
  Caller = {e1, e3}
  Posting = {e3}
  Closer = {x1, x2}
  MaxPending = 1
  Lock = {"l1", "l2"}
  User = {"a", "b"}
  Watchdog = {"w"}
  LockOf <- MCLockOf
  Calls <- MCCalls
  MaxTokens <- MCMaxTokens
SPECIFICATION ServicesSpec
INVARIANTS HttpServerSafe ThreadPoolSafe OwnershipHonest
PROPERTIES SignalEndsServer CallsEnd
PROPERTIES NoForeignDelete LossNoticed
