SPECIFICATION FairSpec
CONSTANTS
  Tabs = {"followups", "receipts"}
  Entities = {1, 2, 3}
  tab_of <- MCTab
  Clients = {1, 2}
  NEW_TAB_ROWS = 1
  GROW_ROWS = 0
  MaxVersion = 2
  Worlds <- MCWorlds
INVARIANTS
  OneEntityPerSheetRow
PROPERTIES
  MirrorCatchesUp
CHECK_DEADLOCK FALSE
