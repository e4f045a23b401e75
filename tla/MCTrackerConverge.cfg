\* An update handled while a client joins.
SPECIFICATION Spec
CONSTANTS
  Paths = {"f"}
  Dirs = {}
  Inside <- MCNoDirs
  MaxVersion = 1
  Peers = {1, 2}
  ChunksOf <- MCChunks
  NetSlots = 3
  PeerTableSize = 2
  MaxGots = 0
  MaxCloses = 0
  Patient = FALSE
  SettledJoins = FALSE
INVARIANTS Converged
CHECK_DEADLOCK FALSE
