SPECIFICATION FairSpec
CONSTANTS
  ChatType = "group"
  Kinds = {"plain", "voice"}
  Addressed = {}
  Long = {}
  Spoken = {"voice"}
  Naming = {"voice"}
  WINDOW_MAX_MESSAGES = 2
  WINDOW_IDLE = 1
  WINDOW_IDLE_ADDRESSED = 0
  MEDIA_CUTOFF = 1
  BATCH_MAX_ATTEMPTS = 2
  Purges = {"chat", "range"}
  MaxMessages = 2
  StoreUntil = 1
  MaxTime = 2
  Budget <- MCBudget
  Troubles = 2
INVARIANTS ExtractedOnce NothingIsDropped PaidOnce VoiceIsHeardFirst 
PROPERTIES EveryMessageIsRead
CHECK_DEADLOCK FALSE
