\* Ints of four bits, files of up to nine chunks: the last chunk does not come.
SPECIFICATION ChunkSpec
CONSTANTS
  CHUNK = 2
  MaxInt = 7
  MaxSize = 18
CHECK_DEADLOCK FALSE
INVARIANT ArrivesWhole
