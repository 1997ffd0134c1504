SPECIFICATION Spec
CONSTANTS
  Closes = {commons}
  ContentKeys = {k1, k2, k3}
  NoKey = NoKey
  People = {ana, ben, dana}
  Names = {}
  Founder = ana
  Commons = commons
  Receivers = {ben, dana}
  Excludable = {ben, dana}
  ShareFacets = {1, 2}
  SharePowers <- NoPower
  ShareDays <- NoDays
  MaxEpoch = 2
  MaxGrants = 2
  MaxNow = 0
SYMMETRY RootsAndReceivers
PROPERTIES ShareDeliversReading
CHECK_DEADLOCK FALSE
