\* One author and a client that downloads; who joins and leaves, and when, is
\* in the module.
SPECIFICATION DownloadSpec
CONSTANTS
  Paths = {"f"}
  Dirs <- MCNone
  Inside <- MCNone
  MaxVersion = 2
  Peers = {1, 2}
  Starters = {1}
  Authors = {1}
  MaxPending = 1
  MaxJobs = 3
  MaxConns = 1
  MaxRemoves = 1
  MaxJoins = 1
  MaxLeaves = 1
  Patient = FALSE
  ChunksOf <- MCChunks
INVARIANTS TypeOK Accounted JobsAreOwn ChunksFit OnlyUserEdits Identical
PROPERTIES Delivered
CHECK_DEADLOCK FALSE
