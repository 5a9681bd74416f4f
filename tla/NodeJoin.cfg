SPECIFICATION FairSpec
CONSTANTS
  Nodes <- JoinNodes
  FixedPort = FALSE
  SeedMax = 2
  Seed = "seed"
  Scenes <- JoinScenes
  MaxWire = 2
  MaxCrashes = 1
  Capacity = 1
  MaxSamples = 1
  Clamp = 4
  StoreMax = 2
  Sockets <- JoinSockets
  Chats <- JoinChats
  Everyone = "all"
  MaxHops = 2
  Skew = 1
  Drift <- NoDrift
  MaxInbox = 3
  MaxOPK = 2

  
PROPERTIES
  MeshForms
  KeysConverge
  CarriedOut
