SPECIFICATION Spec
CONSTANTS
  Channels <- MCChannels
  Channel <- MCChannel
  Intents <- MCIntents
  AUTO_INTENTS <- MCAutoIntents
  KB_ONLY_INTENTS <- MCKbOnly
  COMPOSING_HOLD = 1
  Rows <- MCRows
  MaxEvents = 2
  MaxTime = 5
INVARIANTS
  AutonomyIsEarned
  OwnerWordsAreKept
  TapWinsOverEarlierActs
PROPERTIES
  RestrictionNeverReleases
CHECK_DEADLOCK FALSE
