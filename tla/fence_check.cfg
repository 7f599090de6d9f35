CONSTANTS
  none = none
  PageSize = 4
  Word = 64
  Layouts <- FewLayouts
  Bases <- SmallBases
  SysRoom = 3
  NoLayout = none
SPECIFICATION FSpec
CHECK_DEADLOCK FALSE
PROPERTIES CheckedIsLive
