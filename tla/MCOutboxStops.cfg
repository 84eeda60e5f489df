SPECIFICATION FairSpec
CONSTANTS
  Channels <- MCChannels
  Intents <- MCIntents
  AUTO_INTENTS <- MCAutoIntents
  KB_ONLY_INTENTS <- MCKbOnly
  COMPOSING_HOLD = 1
  Rows = {1}
  Proposals <- WordProposals
  Creators = {c1}
  Messages = {"m1"}
  OwnerTexts = {"rahmat"}
  OwnMessages <- NoOverheard
  OwnerModes = {"draft"}
  PolicyActs = {"pause", "demote", "breaker"}
  Facts <- MCFacts
  GuardAnswers <- MCGuardAnswers
  Channel = "telegram"
  SEND_LEASE = 1
  HOLD_POLL = 1
  ECHO_SLACK = 0
  DRAFT_EXPIRY = 2
  BREAKER_FOR = 1
  DAY = 10
  MAX_ATTEMPTS = 2
  MAX_REVISIONS = 1
  AUTO_CAP = 3
  CHAT_CAP = 3
  SEND_GAP = 0
  MaxTime = 5
  CreateUntil = 0
INVARIANTS
  TypeOK
  OnlyGuardedTextLeaves
PROPERTIES
  ClaimsAreTimely
  ApprovedTextIsFrozen
  RowsSettle
CHECK_DEADLOCK FALSE
