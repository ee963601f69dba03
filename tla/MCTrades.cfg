CONSTANTS
  PxTicks <- MCPxTicks
  SzTicks <- MCSzTicks
  SymbolNames <- MCSymbolNames
  Messages <- MCMessages
  MaxMessages = 3
  Lanes = {1, 2}
  MAX_LINES = 2
  NoSymbol = NoSymbol
  Missing = Missing
  Garbled = Garbled
SPECIFICATION Spec
INVARIANTS
  TypeOK
  RingIsNewestTrades
  StaleTradesAreRedrawn
PROPERTIES
  FramesAreWhole
  TradesReachScreen
  QuitEnds
