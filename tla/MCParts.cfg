SPECIFICATION Spec
CONSTANTS
  Elements = {0, 1}
  NULL = 0
  Unset = Unset
  MaxLength = 4
  InitialSpace = 3
  Clients = {c1, c2}
  DIASTOLE = 2
  MaxTime = 5
  MaxBeats = 2
  Hosts = {h1, h2, h3}
  Pair = {h1, h2}
  Asker = {h1}
  Askers = {h1, h2}
  InitialSize = 3
  MaxStarts = 3
  MaxEnds = 2
  MaxAsks = 1
  Machines = {m1, m2}
  Names = {"x", "y"}
  MaxDepth = 2
  Base <- MCBase
  MaxEdits = 2
  CHUNK = 2
  MaxInt = 7
  MaxSize = 18
  Values = {v1, v2}
  Nil = Nil
  MaxNodes = 3
  TableSize = 2
  Hash <- MCHash
  ChunkCounts <- MCChunkCounts
  PeerIds = {1, 2}
  MaxEntries = 2
CHECK_DEADLOCK FALSE
INVARIANTS
  RingTypeOK IndexInv
  HeartbeatTypeOK StampsCoverBeats
  PeerTypeOK HeardIsTable JunkNeedsCrowd AnswersAreOwn AnsweredAtRest
  TreesWellFormed MirrorsEditor FallsTakeTwo
  ArrivesButLastChunk StraysTakeRewrite
  WellLinked
  OneEntryEach TableKept
PROPERTIES
  ImplementsFifo ImagesAreSets ImplementsCursor
