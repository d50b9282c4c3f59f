CONSTANTS
  Tx = {"a", "b", "c"}
  Expiration <- MCExpiration
  Needs <- MCNeeds
  Spends <- MCSpends
  NoCoin = NoCoin
  MaxUntilExpiration = 3
  BlockSize = 1
  MaxTime = 4
  MaxFork = 1
  MaxSwitches = 1
  Client = {1, 2}
  Sent <- MCSent
  NoTx = NoTx
SPECIFICATION Spec
INVARIANTS PoolSound PromisesAlive
PROPERTIES NothingLost CallsReturn
CHECK_DEADLOCK FALSE
