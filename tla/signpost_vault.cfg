SPECIFICATION SignpostSpec
CONSTANTS
  Closes = {commons, vault}
  ContentKeys = {k1, k2, k3}
  NoKey = NoKey
  People = {ana, ben}
  Names = {"ops", "prod"}
  Founder = ana
  Commons = commons
  Receivers = {ben}
  Excludable = {ben}
  ShareFacets = {2}
  SharePowers <- SetPower
  ShareDays <- OneDay
  MaxEpoch = 1
  MaxGrants = 1
  MaxNow = 1
  Terminals = {t1}
  NoDecl = NoDecl
  CellPath <- Path
  CellHome = vault
  Slots = {"api", "web"}
  GuardSets <- ApiGuarded
  Commits = {"first", "second"}
  Parents <- LineParents
  Pins <- AnyPins
  MaxMoves = 2
  MaxCrashes = 0
SYMMETRY Alike
INVARIANTS JournalFolds NeverBackAlongJournal TrailReadable
PROPERTIES ImplementsJournal
CHECK_DEADLOCK FALSE
