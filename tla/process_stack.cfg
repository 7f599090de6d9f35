CONSTANTS
  t1 = t1
  t2 = t2
  p1 = p1
  p2 = p2
  NoThread = nobody
  NoPtr = nothing
  Threads <- TwoThreads
  Main = t1
  Ptr <- OnePtr
  OverAlign = TRUE
  Configs <- OneEnv
CHECK_DEADLOCK FALSE
SPECIFICATION PrSpec
INVARIANT OverflowIsReported
