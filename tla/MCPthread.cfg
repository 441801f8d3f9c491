SPECIFICATION Spec
CONSTANTS
  Threads = {"t1", "t2", "t3"}
  Addrs = {"lock", "seq", "cycle", "once"}
  MAX_FUTEX_WAITERS = 2
  MaxSignals = 1
  Programs <- MCPrograms
  JoinOf <- MCJoinOf
  None = None
INVARIANTS Exclusion BarrierTogether OnceDone JoinOnce
CHECK_DEADLOCK FALSE
