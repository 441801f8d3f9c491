SPECIFICATION FairSpec
CONSTANTS
  Threads = {"t1", "t2", "t3"}
  Addrs = {"lock", "seq", "cycle", "once"}
  MAX_FUTEX_WAITERS = 3
  MaxSignals = 0
  Programs <- MutexPrograms
  JoinOf <- MCJoinOf
  None = None
PROPERTY ThreadsEnd
CHECK_DEADLOCK FALSE
