SPECIFICATION Spec
CONSTANTS
  Channels <- MCChannels
  Intents <- MCIntents
  AUTO_INTENTS <- MCAutoIntents
  KB_ONLY_INTENTS <- MCKbOnly
  COMPOSING_HOLD = 1
  Rows = {1, 2}
  Proposals <- CapsProposals
  Creators = {c1, c2}
  Messages = {m1, m2}
  OwnerTexts = {}
  OwnMessages <- NoOverheard
  OwnerModes = {}
  PolicyActs = {}
  Facts <- OpenFacts
  GuardAnswers <- OpenGuard
  Channel = "telegram"
  SEND_LEASE = 1
  HOLD_POLL = 1
  ECHO_SLACK = 0
  DRAFT_EXPIRY = 3
  BREAKER_FOR = 1
  DAY = 10
  MAX_ATTEMPTS = 2
  MAX_REVISIONS = 1
  AUTO_CAP = 1
  CHAT_CAP = 1
  SEND_GAP = 0
  MaxTime = 3
  CreateUntil = 0
SYMMETRY SameMessages
INVARIANTS
  OneRowPerProposal
  DailyCapsHold
CHECK_DEADLOCK FALSE
