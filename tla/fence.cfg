CONSTANTS
  none = none
  PageSize = 4
  Word = 64
  Layouts <- SmallLayouts
  Bases <- SmallBases
  SysRoom = 3
  NoLayout = none
SPECIFICATION FSpec
CHECK_DEADLOCK FALSE
INVARIANTS Placement NothingSilent NoFalseAlarm
