\* Two clients that have joined edit one file at once.
SPECIFICATION Spec
CONSTANTS
  Paths = {"f"}
  Dirs = {}
  Inside <- MCNoDirs
  MaxVersion = 2
  Peers = {1, 2}
  ChunksOf <- MCChunks
  NetSlots = 3
  PeerTableSize = 2
  MaxGots = 0
  MaxCloses = 0
  Patient = FALSE
  SettledJoins = TRUE
INVARIANTS Converged
CHECK_DEADLOCK FALSE
