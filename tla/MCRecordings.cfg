SPECIFICATION FairSpec
CONSTANTS
  Files = {1, 2}
  Worlds <- MCWorlds
  Requests = {r1, r2}
  MAX_NEW_PER_SCAN = 1
  MAX_ATTEMPTS = 2
  MaxRewrites = 1
  NoRow = NoRow
  NoReq = NoReq
  NoCall = NoCall
  NoSide = NoSide
INVARIANTS
  ConversationOnce
PROPERTIES
  KeepsCustody
  EveryRecordingSettles
CHECK_DEADLOCK FALSE
