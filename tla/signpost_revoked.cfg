SPECIFICATION SignpostSpec
CONSTANTS
  Closes = {commons}
  ContentKeys = {k1, k2}
  NoKey = NoKey
  People = {ana, ben}
  Names = {"ops", "prod"}
  Founder = ana
  Commons = commons
  Receivers = {ben}
  Excludable = {ben}
  ShareFacets = {2}
  SharePowers <- SetOrNone
  ShareDays <- NoDays
  MaxEpoch = 1
  MaxGrants = 2
  MaxNow = 0
  Terminals = {t1}
  NoDecl = NoDecl
  CellPath <- Path
  CellHome = commons
  Slots = {"api"}
  GuardSets <- ApiGuarded
  Commits = {"first", "second"}
  Parents <- LineParents
  Pins <- ApiPins
  MaxMoves = 3
  MaxCrashes = 0
SYMMETRY Alike
INVARIANTS RevokedByLockChange
CHECK_DEADLOCK FALSE
