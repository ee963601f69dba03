CONSTANTS
  Starts = {0, 797000, 3198000, 9995000, 102398000, 614396000}
  Length = 5000
  Instrument = "BTCUSDT"
SPECIFICATION Scan
INVARIANTS
  UpperBandExact
  DyadicQuotesExact
  ShownDigitForDigit
CHECK_DEADLOCK FALSE
