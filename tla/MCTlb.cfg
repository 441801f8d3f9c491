SPECIFICATION FairSpec
CONSTANTS
  Cpus = {0, 1, 2}
  UserRoots = {"r"}
  Pages = {"k", "u"}
  RootOf <- MCRootOf
  Frames = {"f", "g"}
  Kernel = "kernel"
  None = None
  MAX_HELD_LOCKS = 16
  OtherAddrs = {0, 90}
  MaxPaths = 2
INVARIANTS NoStaleUse NoLockCycle PathsOrdered
PROPERTY PathsEnd
CHECK_DEADLOCK FALSE
