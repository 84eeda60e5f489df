SPECIFICATION SenderSpec
CONSTANTS
  Channels <- MCChannels
  Intents <- MCIntents
  AUTO_INTENTS <- MCAutoIntents
  KB_ONLY_INTENTS <- MCKbOnly
  COMPOSING_HOLD = 1
  Rows = {1}
  Proposals <- SenderProposals
  Creators = {c1}
  Messages = {m1,m2}
  OwnerTexts = {"rahmat"}
  OwnMessages <- AnswerTexts
  OwnerModes = {}
  PolicyActs = {}
  Facts <- OpenFacts
  GuardAnswers <- OpenGuard
  Channel = "telegram"
  SEND_LEASE = 1
  HOLD_POLL = 1
  ECHO_SLACK = 0
  DRAFT_EXPIRY = 9
  BREAKER_FOR = 1
  DAY = 10
  MAX_ATTEMPTS = 2
  MAX_REVISIONS = 1
  AUTO_CAP = 3
  CHAT_CAP = 3
  SEND_GAP = 0
  RETRY = 1
  BREAKER_UNTIL_LIFTED = 9
  LOCAL_PAUSE = 1
  MaxStarts = 2
  MaxTime = 2
  CreateUntil = 0
SYMMETRY SameMessages
INVARIANTS
  SentIsInTheChat
PROPERTIES
  SendsOnce
CHECK_DEADLOCK FALSE
