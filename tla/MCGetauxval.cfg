SPECIFICATION Spec
CONSTANTS
  Threads = {t1, t2}
  hwcap = hwcap
  pagesz = pagesz
  execfn = execfn
  Auxv <- MCAuxv
  AuxKeys = {hwcap, pagesz, execfn}
  Capacity = 2
  Blocks = {b1, b2, b3}
  Null = Null
  Vector = Vector
  MaxCalls = 3
INVARIANTS Owned ReadsMapped AnswerRight
PROPERTIES Answered
CHECK_DEADLOCK FALSE
