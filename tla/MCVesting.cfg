CONSTANTS
  Account = {0, 1, 2, 3, 4}
  Witness = {3}
  NoProxy = NoProxy
  Depth = 2
  MaxVotes = 1
  DeclineDelay = 1
  NullAccount = 0
  InitialRate = 2
  Intervals = 2
  Interval = 1
  Never = 1000
  Full = 2
  MaxRoutes = 2
  MinDelegation = 1
  MinUpdate = 1
  ReturnPeriod = 1
  MaxTime = 3
  Uses <- MCUses
SPECIFICATION Spec
INVARIANTS VotesSound SharesSound WithdrawalsExact
PROPERTIES SharesKeepValue
CHECK_DEADLOCK FALSE
