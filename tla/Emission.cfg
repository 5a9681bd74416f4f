SPECIFICATION Spec
CONSTANTS
  NAccounts = 1
  GenesisSupply = 4200000
  BaseReward = 50
  HalvingInterval = 210240
  BootstrapSlots = 32
  MinStake = 50
  BaseFee = 1
  BurnPrice <- MainnetBurnPrice
INVARIANTS
  PoolLastsToHalving
CHECK_DEADLOCK FALSE
