SPECIFICATION Spec
CONSTANTS
  Files = {1, 2}
  Worlds <- MCReused
  Requests = {r1, r2}
  MAX_NEW_PER_SCAN = 1
  MAX_ATTEMPTS = 2
  MaxRewrites = 1
  NoRow = NoRow
  NoReq = NoReq
  NoCall = NoCall
  NoSide = NoSide
INVARIANTS
  LetGoMeansHeld
CHECK_DEADLOCK FALSE
