SPECIFICATION Spec
CONSTANTS
  Home = {"a", "b"}
  Val = {"old", "magic"}
  Magic = "magic"
  LogLen = 5
  Tags = 1
  SeqMod = 16
  CreditSet <- MCCredits
  InitDisks <- MCDisks
  MaxCommits = 2
  MaxCuts = 2
INVARIANTS NeverRefused NoFutureRecord
PROPERTY AtomicStore
CHECK_DEADLOCK FALSE
