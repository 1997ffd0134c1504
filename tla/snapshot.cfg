SPECIFICATION Spec
CONSTANTS
  None = None
  People = {ana, ben}
  Founder = ana
  Commons = commons
  Drawers = {vault, attic}
  DrawerPath <- VaultDrawer
  Walk <- VaultWalk
  ShareFacets = {2}
  Insiders = {ana, ben}
  Budgets <- OverlapOrNot
INVARIANTS SnapshotTypeOK KeptIsWhole StoryReadable
PROPERTIES SnapshotOfItsTime HistoryGrows MainComesBack
CHECK_DEADLOCK FALSE
