\* A chunk is announced while its file is removed.
SPECIFICATION Spec
CONSTANTS
  Paths = {"f"}
  Dirs = {}
  Inside <- MCNoDirs
  MaxVersion = 2
  Peers = {1, 2}
  ChunksOf <- MCChunks
  NetSlots = 3
  PeerTableSize = 2
  MaxGots = 1
  MaxCloses = 0
  Patient = FALSE
  SettledJoins = TRUE
INVARIANTS NoGotAssert
CHECK_DEADLOCK FALSE
