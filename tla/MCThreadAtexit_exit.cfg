SPECIFICATION Spec
CONSTANTS
  Threads = {t1, t2}
  Keys = {k1, k2}
  NoKey = NoKey
  NoThread = NoThread
  NodeSize = 2
  Iterations = 2
  MaxRegs = 3
INVARIANT ExitRunsAlways
CHECK_DEADLOCK FALSE
