CONSTANTS
  PxTicks <- MCPxTicks
  SzTicks <- MCSzTicks
  SymbolNames <- MCSymbolNames
  Messages <- MCMessages
  MaxMessages = 3
  Lanes = {1, 2}
  MAX_DEPTH = 100
  NoLevel = NoLevel
  NoSymbol = NoSymbol
  Missing = Missing
  Sentinel = Sentinel
SPECIFICATION Spec
INVARIANTS
  TypeOK
  LockDiscipline
  StaleScreenIsRedrawn
PROPERTIES
  NothingRunsAfterJoin
  ImplementsAtomicBook
  QueueReachesScreen
  QuitEnds
