\* Two authors of two files.
SPECIFICATION Spec
CONSTANTS
  Paths = {"f", "g"}
  Dirs <- MCNone
  Inside <- MCNone
  MaxVersion = 2
  Peers = {1, 2}
  Starters = {1, 2}
  Authors = {1, 2}
  MaxPending = 1
  MaxJobs = 3
  MaxConns = 1
  MaxRemoves = 0
  MaxJoins = 0
  MaxLeaves = 0
  Patient = FALSE
  ChunksOf <- MCChunks
INVARIANTS EditsAnnounced
CHECK_DEADLOCK FALSE
