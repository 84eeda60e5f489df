SPECIFICATION FairSpec
CONSTANTS
  Reports <- MCReports
  Stories <- MCStories
  Taps = {t1}
  Amounts = {1, 2}
  PAYMENT_REPEAT = 0
  PAYMENT_DEDUPE_WINDOW = 1
  MONEY_TYPED_MATCH = 2
  CLAIM_BANK_MATCH = 2
  NoCard = NoCard
  NoClaim = NoClaim
  NoTap = NoTap
  NoText = NoText
  DAY = 3
  MaxCorrections = 1
INVARIANTS
  PhoneBooksOnce
  PaymentsStayApart
  UndoneIsLeftAlone
PROPERTIES
  ProvenClaimsClose
CHECK_DEADLOCK FALSE
