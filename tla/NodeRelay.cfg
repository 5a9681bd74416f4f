SPECIFICATION Spec
CONSTANTS
  Nodes <- RelayNodes
  FixedPort = TRUE
  SeedMax = 3
  Seed = "seed"
  Scenes <- RelayScenes
  MaxWire = 0
  MaxCrashes = 1
  Capacity = 4
  MaxSamples = 2
  Clamp = 4
  StoreMax = 1
  Sockets <- RelaySockets
  Chats <- RelayChats
  Everyone = "all"
  MaxHops = 3
  Skew = 1
  Drift <- RelayDrift
  MaxInbox = 4
  MaxOPK = 2
INVARIANTS
  TypeOK
  NoEcho
  CarryDurable
  
  
PROPERTIES
  DeliverySpec
  
