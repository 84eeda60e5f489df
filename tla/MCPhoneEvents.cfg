SPECIFICATION FairSpec
CONSTANTS
  Events = {1, 2, 3, 4, 5}
  Worlds <- MCWorlds
  Requests = {r1, r2}
  MAX_BATCH = 2
  NoReq = NoReq
INVARIANTS
  EventOnce
PROPERTIES
  KeepsCustody
  EventsArrive
CHECK_DEADLOCK FALSE
