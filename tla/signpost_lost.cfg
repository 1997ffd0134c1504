SPECIFICATION SignpostSpec
CONSTANTS
  Closes = {commons}
  ContentKeys = {k1, k2}
  NoKey = NoKey
  People = {ana, ben}
  Names = {"ops", "prod"}
  Founder = ana
  Commons = commons
  Receivers = {ben}
  Excludable = {ben}
  ShareFacets = {2}
  SharePowers <- SetPower
  ShareDays <- NoDays
  MaxEpoch = 0
  MaxGrants = 1
  MaxNow = 0
  Terminals = {t1, t2}
  NoDecl = NoDecl
  CellPath <- Path
  CellHome = commons
  Slots = {"api"}
  GuardSets <- ApiGuarded
  Commits = {"first", "second"}
  Parents <- LineParents
  Pins <- ApiPins
  MaxMoves = 3
  MaxCrashes = 0
SYMMETRY Alike
INVARIANTS AnnouncedMovesStay
CHECK_DEADLOCK FALSE
