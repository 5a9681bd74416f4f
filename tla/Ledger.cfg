SPECIFICATION Spec
CONSTANTS
  NAccounts = 2
  GenesisSupply = 9
  BaseReward = 4
  HalvingInterval = 2
  BootstrapSlots = 1
  MinStake = 2
  BaseFee = 1
  BurnPrice <- MCBurnPrice
  MaxHeight = 3
  MaxTxs = 2
  Amounts = {0, 2}
  Fees = {0, 2}
INVARIANTS
  TypeOK
  SupplyAccounted
  IssuanceOnSchedule
  BurnsDestroyValue
  ProportionalElection
PROPERTIES
  OnlyOwnTxsCost
CHECK_DEADLOCK FALSE
