SPECIFICATION Spec
CONSTANTS
  NAccounts = 2
  GenesisSupply = 5
  BaseReward = 3
  HalvingInterval = 1
  BootstrapSlots = 2
  MinStake = 2
  BaseFee = 1
  BurnPrice <- MCBurnPrice
  MaxHeight = 3
  MaxSlot = 2
  MaxTxs = 2
  Offered <- MCOffered
  Draws = {0, 1}
INVARIANTS
  PaidAsScheduled
CHECK_DEADLOCK FALSE
