CONSTANTS
  px = px
  tx = tx
  ox = ox
  Sessions = {px, tx, ox}
  getQualifier <- ThreeSessions
  MaxConnections = 1
  MaxMessages = 1
  Environments <- MCEnvironments
  Machines <- MCMachines
  Traded = {"BTCUSDT"}
  Unset = Unset
  NoDigits = NoDigits
  NoName = NoName
  Error = Error
SPECIFICATION Spec
INVARIANT UnexpectedIsCaught
CHECK_DEADLOCK FALSE
