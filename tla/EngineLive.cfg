SPECIFICATION FairSpec
CONSTANTS
  NAccounts = 1
  GenesisSupply = 10
  BaseReward = 4
  HalvingInterval = 2
  BootstrapSlots = 1
  MinStake = 2
  BaseFee = 1
  BurnPrice <- MCBurnPrice
  Nodes = {1}
  Callers = {"miner", "user"}
  UserOps <- NodeOps
  PoolMax = 2
  PeekMax = 2
  Draws = {0}
  DiskFaults = TRUE
  MaxCrashes = 2
  MaxHeight = 4
  MaxSlot = 3
  MaxNonce = 0
PROPERTIES
  MinerReachesSlot
CHECK_DEADLOCK FALSE
