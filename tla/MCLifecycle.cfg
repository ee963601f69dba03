CONSTANTS
  Environments <- MCEnvironments
  Machines <- MCMachines
  Unset = Unset
  NoDigits = NoDigits
  NoName = NoName
  Error = Error
SPECIFICATION Spec
INVARIANTS
  OnlyWatcherMembersAreOutlived
  FeedEndsBeforeItsQueues
  EveryEndIsAnnounced
PROPERTY ProcessEnds
CHECK_DEADLOCK FALSE
