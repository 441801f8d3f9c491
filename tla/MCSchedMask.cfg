SPECIFICATION Spec
CONSTANTS
  Cpus = {0, 1}
  Threads = {"main", "p1", "p2"}
  Procs = {"p"}
  ProcOf <- MCProcOf
  Home <- MCHome
  Idle <- MCIdle
  Bsp = 0
  Main = "main"
  None = None
INVARIANT MaskCurrent
