CONSTANTS
  Environments <- MCEnvironments
  Machines <- MCMachines
  Unset = Unset
  NoDigits = NoDigits
  NoName = NoName
  Error = Error
SPECIFICATION Spec
PROPERTY WorkerFailureIsReported
CHECK_DEADLOCK FALSE
