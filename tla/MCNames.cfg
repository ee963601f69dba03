CONSTANTS
  PxTicks <- MCPxTicks
  SzTicks <- MCSzTicks
  SymbolNames <- MCSymbolNames
  Instruments = {"ETHUSDT", "BNBUSDT"}
  Messages <- OtherMessages
  NoLevel = NoLevel
  NoSymbol = NoSymbol
  Missing = Missing
  Sentinel = Sentinel
SPECIFICATION Spec
INVARIANT OtherInstrumentsAreSkipped
