SPECIFICATION Spec
CONSTANTS
  NAccounts = 1
  GenesisSupply = 10
  BaseReward = 4
  HalvingInterval = 2
  BootstrapSlots = 1
  MinStake = 2
  BaseFee = 1
  BurnPrice <- MCBurnPrice
  Nodes = {1}
  Callers = {"miner", "user"}
  UserOps <- NodeOps
  PoolMax = 2
  PeekMax = 2
  Draws = {0}
  DiskFaults = TRUE
  MaxCrashes = 1
  MaxHeight = 3
  MaxSlot = 2
  MaxNonce = 2
INVARIANTS
  BootstrapEndsWithItsSlots
CHECK_DEADLOCK FALSE
