\* A file is deleted while it is downloaded.
SPECIFICATION Spec
CONSTANTS
  Paths = {"f"}
  Dirs <- MCNone
  Inside <- MCNone
  MaxVersion = 1
  Peers = {1, 2}
  Starters = {1, 2}
  Authors = {1}
  MaxPending = 1
  MaxJobs = 3
  MaxConns = 1
  MaxRemoves = 1
  MaxJoins = 0
  MaxLeaves = 0
  Patient = FALSE
  ChunksOf <- MCChunks
INVARIANTS LateChunksIgnored
CHECK_DEADLOCK FALSE
