CONSTANTS
  PxTicks <- TwoPrices
  SzTicks <- OneSize
  SymbolNames <- MCSymbolNames
  BTC <- MCBTC
  Depths = {1, 100}
  SymbolLists <- MCSymbolLists
  Openings <- OneBid
  MaxMoves = 2
  MaxConnections = 2
  NoLevel = NoLevel
  NoSymbol = NoSymbol
  Missing = Missing
  Sentinel = Sentinel
SPECIFICATION Spec
INVARIANTS
  TypeOK
  InSync
  NeverCrossed
  NeverFails
PROPERTY ComesUpToDate
CHECK_DEADLOCK FALSE
