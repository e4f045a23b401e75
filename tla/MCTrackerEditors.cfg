\* Two clients that have joined edit one directory at once.
SPECIFICATION Spec
CONSTANTS
  Paths = {"f", "d"}
  Dirs = {"d"}
  Inside <- MCInside
  MaxVersion = 3
  Peers = {1, 2}
  ChunksOf <- MCChunks
  NetSlots = 3
  PeerTableSize = 2
  MaxGots = 0
  MaxCloses = 0
  Patient = FALSE
  SettledJoins = TRUE
INVARIANTS NoPlusAssert
CHECK_DEADLOCK FALSE
