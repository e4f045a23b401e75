\* Clients that act in turns; beside it, clients that act at any moment.
SPECIFICATION TurnsSpec
CONSTANTS
  Paths = {"f", "d", "g"}
  Dirs = {"d"}
  Inside <- MCInside
  MaxVersion = 3
  Peers = {1, 2}
  ChunksOf <- MCChunks
  NetSlots = 3
  PeerTableSize = 2
  MaxGots = 1
  MaxCloses = 2
  Patient = TRUE
  SettledJoins = FALSE
INVARIANTS Converged TablesAgree OwnersConnected NoGhostPeer FileTableWithinFs NothingFails
PROPERTIES FreeMasterServed FreeDrains
CHECK_DEADLOCK FALSE
