CONSTANTS
  t1 = t1
  t2 = t2
  none = none
  Threads <- TwoThreads
  Region <- TrioRegions
  Page <- TrioRegions
  Base <- TrioBase
  Total <- TrioTotal
  User <- TrioBase
  SysPtr <- SysPtrs
  Hash <- TrioHash
  Cap = 2
  QCap = 1
  Wrap = 1
  DoubleFree = FALSE
  None = none
  Asked <- OneAsked
SPECIFICATION FairInspection
INVARIANTS InspectInv AnswerIsRight CountersSane SystemFreesItsOwn
PROPERTIES LockIsReleased OnlyOvertaken AskIsAnswered
