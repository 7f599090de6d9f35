CONSTANTS
  t1 = t1
  t2 = t2
  none = none
  Threads <- TwoThreads
  Region <- TrioRegions
  Page <- Pages6
  Base <- TrioBase
  Total <- TrioTotal
  User <- TrioBase
  SysPtr <- SysPtrs
  Hash <- TrioHash
  Cap = 2
  QCap = 1
  Wrap = 1
  DoubleFree = FALSE
  None = none
  Guard <- TrioGuard
  Touches <- OneTouches3
  Policies = {"exit"}
SPECIFICATION PSpec
CHECK_DEADLOCK FALSE
INVARIANTS TornIsWild
