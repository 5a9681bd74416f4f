SPECIFICATION TicketsSpec
CONSTANTS
  NAccounts = 4
  GenesisSupply = 20
  BaseReward = 6
  HalvingInterval = 4
  BootstrapSlots = 4
  MinStake = 2
  BaseFee = 1
  BurnPrice <- MCBurnPrice
  Nodes = {1, 2}
  Callers = {"miner", "user"}
  UserOps <- Activating
  PoolMax = 1
  PeekMax = 2
  Draws = {0}
  DiskFaults = FALSE
  MaxCrashes = 1
  MaxHeight = 4
  MaxSlot = 4
  MaxNonce = 1
  Messages = {1}
  WriterOf <- Writers
  BurnerOf <- Burners
  Miners = {1}
INVARIANTS
  TicketsTypeOK
  FundingNotOrphaned
  PaidOnce
  StaleTxHasRival
PROPERTIES
  AcceptedStaysKnown
CHECK_DEADLOCK FALSE
