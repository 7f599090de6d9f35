CONSTANTS
  t1 = t1
  t2 = t2
  p1 = p1
  p2 = p2
  NoThread = nobody
  NoPtr = nothing
  Threads <- TwoThreads
  Main = t1
  Ptr <- TwoPtrs
  OverAlign = TRUE
  Configs <- SixEnvs
SPECIFICATION PrFairSpec
CHECK_DEADLOCK FALSE
INVARIANTS PrIInv GuardIsBalanced NoSelfWait HandlerNeverWaits NestedFreesAreSystems FencedIsWatched
PROPERTIES InitialisationEnds
