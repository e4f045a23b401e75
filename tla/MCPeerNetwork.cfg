\* Two clients connect to each other at once.
SPECIFICATION PeerSpec
CONSTANTS
  Hosts = {h1, h2}
  Askers = {h1, h2}
  InitialSize = 3
  MaxStarts = 2
  MaxEnds = 0
  MaxAsks = 1
CHECK_DEADLOCK FALSE
INVARIANTS ConnectionsWatched
