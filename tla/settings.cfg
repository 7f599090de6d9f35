CONSTANTS
  unset = unset
  Unset = unset
  Bits = 6
  IntMax = 31
  Statuses = 16
  RegionSize = 3
  WordSize = 2
  DefaultMaxLive = 8
  DefaultQuarantine = 4
  SysconfPage = 0
  Envs <- SmallEnvs
SPECIFICATION SSpec
CHECK_DEADLOCK FALSE
INVARIANTS NumeralIsRead SlotsCover ArenaIsWhole ExitIsSeen PrintsBack
