SPECIFICATION Spec
CONSTANTS
  Closes = {commons, vault, attic}
  ContentKeys = {k1, k2, k3, k4}
  NoKey = NoKey
  People = {"ana", "ben"}
  Names = {}
  Founder = "ana"
  Commons = commons
  PathOf <- OnePath
  Order <- ByName
  Receivers = {"ana", "ben"}
  Excludable = {"ben"}
  ShareFacets = {1, 2}
  Signposts = {"prod", "stage"}
  Torn = Torn
  Budgets <- Mixed
SYMMETRY RootsAndDrawers
INVARIANTS FolderTypeOK FilesAgree StewardKeepsTheLock GivenIsKept ListedStays
PROPERTIES KeepersKeepUp ImplementsDrawer
CHECK_DEADLOCK FALSE
