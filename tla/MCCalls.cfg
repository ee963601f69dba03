CONSTANTS
  PxTicks <- MCPxTicks
  SzTicks <- MCSzTicks
  SymbolNames <- MCSymbolNames
  Instruments = {"BTCUSDT", "ETHUSDT", "XRPUSDT", "BTCEUR"}
  Messages <- MCMessages
  NoLevel = NoLevel
  NoSymbol = NoSymbol
  Missing = Missing
  Sentinel = Sentinel
SPECIFICATION Spec
INVARIANTS
  LastWriterWins
  LadderIsTheBook
