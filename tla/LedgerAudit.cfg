CONSTANTS
  Account = {0, 1, 2, 3}
  NullAccount = 0
  MaxOrders = 3
  MaxTime = 3
  RequestId = {1, 2}
  WithdrawTime = 2
  RequestLimit = 1
  EscrowId = {1}
  EscrowTerms <- MCTerms
  OrderId = {1, 2}
  Price <- MCPrice
  OrderLife = {1}
  RequestNo = {1}
  ConversionDelay = 1
  Feed <- MCFeed
  NoFeed = NoFeed
  Permlink = {p}
  CampaignLife = 1
  Uses <- MCUses
SPECIFICATION Spec
INVARIANT SupplyAccounted
CHECK_DEADLOCK FALSE
