SPECIFICATION Spec
CONSTANTS
  Channels <- MCChannels
  Intents <- MCIntents
  AUTO_INTENTS <- MCAutoIntents
  KB_ONLY_INTENTS <- MCKbOnly
  COMPOSING_HOLD = 1
  Mode = "auto"
  Kinds = {"plain", "red_line", "unsafe", "injection"}
  DEBOUNCE = 1
  OWNER_FIRST = 2
  MAX_AGE = 4
  CLAIM_LEASE = 2
  TAKEOVER = 1
  SELF_READ_WINDOW = 1
  DRAFT_EXPIRY = 3
  MAX_AI_TURNS = 2
  CHAT_CAP = 3
  Swaps = {FALSE, TRUE}
  Late = 0
  Budget <- Crashes
  ActUntil = 3
  MaxTime = 5
INVARIANTS
  NothingIsLost
  OneAnswerPerMessage
  OneStallPerEscalation
CHECK_DEADLOCK FALSE
