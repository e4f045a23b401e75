\* A client joins a directory with a file in it.
SPECIFICATION Spec
CONSTANTS
  Paths = {"f"}
  Dirs <- MCNone
  Inside <- MCNone
  MaxVersion = 1
  Peers = {1, 2}
  Starters = {1}
  Authors = {1}
  MaxPending = 1
  MaxJobs = 3
  MaxConns = 1
  MaxRemoves = 0
  MaxJoins = 1
  MaxLeaves = 0
  Patient = TRUE
  ChunksOf <- MCChunks
INVARIANTS OnlyUserEdits
CHECK_DEADLOCK FALSE
