CONSTANTS
  t1 = t1
  t2 = t2
  none = none
  Threads <- TwoThreads
  Region <- WideRegions
  Page <- Pages4
  Base <- WideBase
  Total <- WideTotal
  User <- WideBase
  SysPtr <- SysPtrs
  Hash <- WideHash
  Cap = 4
  QCap = 2
  Wrap = 3
  DoubleFree = FALSE
  None = none
SPECIFICATION Spec
PROPERTIES ImplementsHeap
INVARIANTS OwnedIsLive LookupFinds ReadyIsMapped FreedIsSealed RingIsExact
SYMMETRY Symmetry
