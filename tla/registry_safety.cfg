CONSTANTS
  t1 = t1
  t2 = t2
  none = none
  Threads <- TwoThreads
  Region <- FencedRegions
  Page <- Pages4
  Base <- FencedBase
  Total <- FencedTotal
  User <- FencedBase
  SysPtr <- SysPtrs
  Hash <- FencedHash
  Cap = 2
  QCap = 1
  Wrap = 1
  DoubleFree = TRUE
  None = none
SPECIFICATION Spec
SYMMETRY Symmetry
INVARIANTS MutualExclusion RegistryInv NoOverlap NoLeak CountersExact
PROPERTIES FallbackWhenFull
