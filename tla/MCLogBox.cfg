CONSTANTS
  NewLine = NewLine
  MaxSize = 8
  MAX_LINES = 2
SPECIFICATION Spec
INVARIANTS
  NothingLostOrRepeated
  LinesAreWhole
  RingIsNewestLines
  UnreadTextIsAnnounced
PROPERTY TextReachesScreen
CHECK_DEADLOCK FALSE
