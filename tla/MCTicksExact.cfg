CONSTANTS
  Starts = {6553600}
  Length = 6400
  Instrument = "BTCUSDT"
SPECIFICATION Scan
INVARIANT PriceIsExact
CHECK_DEADLOCK FALSE
