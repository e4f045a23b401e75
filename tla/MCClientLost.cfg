\* A client downloads from another while a third one leaves.
SPECIFICATION Spec
CONSTANTS
  Paths = {"f"}
  Dirs <- MCNone
  Inside <- MCNone
  MaxVersion = 1
  Peers = {1, 2, 3}
  Starters = {1, 2, 3}
  Authors = {1}
  MaxPending = 1
  MaxJobs = 1
  MaxConns = 1
  MaxRemoves = 0
  MaxJoins = 0
  MaxLeaves = 1
  Patient = FALSE
  ChunksOf <- MCChunks
INVARIANT RequestsReturn
CHECK_DEADLOCK FALSE
