CONSTANTS
  px = px
  tx = tx
  ox = ox
  Sessions = {px, tx, ox}
  getQualifier <- ThreeSessions
  MaxConnections = 2
  MaxMessages = 2
  Environments <- MCEnvironments
  Machines <- MCMachines
  Traded = {"BTCUSDT"}
  Unset = Unset
  NoDigits = NoDigits
  NoName = NoName
  Error = Error
SPECIFICATION Spec
INVARIANTS
  OneStreamPerQueue
  StreamsAreComplete
  MarketDataIsPinned
PROPERTY EverySessionComesBack
CHECK_DEADLOCK FALSE
