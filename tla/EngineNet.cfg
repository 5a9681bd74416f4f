SPECIFICATION Spec
CONSTANTS
  NAccounts = 2
  GenesisSupply = 10
  BaseReward = 4
  HalvingInterval = 2
  BootstrapSlots = 2
  MinStake = 2
  BaseFee = 1
  BurnPrice <- MCBurnPrice
  Nodes = {1, 2}
  Callers = {"user"}
  UserOps <- NetOps
  PoolMax = 2
  PeekMax = 2
  Draws = {0, 1}
  DiskFaults = FALSE
  MaxCrashes = 0
  MaxHeight = 3
  MaxSlot = 2
  MaxNonce = 2
INVARIANTS
  StateIsReplay
  SlotsIncrease
  OneProposerPerSlot
  TxOnce
  PendingNotIncluded
PROPERTIES
  TreeSpec
CHECK_DEADLOCK FALSE
