\* Clients act at any moment; a flat directory.
SPECIFICATION OpenSpec
CONSTANTS
  Paths = {"f"}
  Dirs = {}
  Inside <- MCNoDirs
  MaxVersion = 2
  Peers = {1, 2}
  ChunksOf <- MCChunks
  NetSlots = 3
  PeerTableSize = 1
  MaxGots = 1
  MaxCloses = 1
  Patient = FALSE
  SettledJoins = FALSE
INVARIANTS TypeOK NewPeersAreNew LossIsFinal AlwaysOwned Accounted
CHECK_DEADLOCK FALSE
