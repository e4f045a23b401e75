\* A client falls silent for longer than DIASTOLE.
SPECIFICATION HeartbeatFairSpec
CONSTANTS
  Clients = {c1}
  DIASTOLE = 2
  MaxTime = 5
  MaxBeats = 2
CHECK_DEADLOCK FALSE
PROPERTIES SilentClientsGo
