SPECIFICATION Spec
CONSTANTS
  Closes = {commons, vault}
  ContentKeys = {k1, k2, k3}
  NoKey = NoKey
  People = {ana, ben, dana}
  Names = {}
  Founder = ana
  Commons = commons
  Receivers = {ben, dana}
  Excludable = {ben, dana}
  ShareFacets = {1, 2}
  SharePowers <- NoPower
  ShareDays <- NoDays
  MaxEpoch = 2
  MaxGrants = 2
  MaxNow = 0
SYMMETRY RootsAndReceivers
INVARIANTS ChainTruthful LabelsTruthful KeysExactlyByGrant OnlyGrantedKeys
PROPERTIES LeftOutGetNoNewKey PastStaysReadable ImplementsReadership
CHECK_DEADLOCK FALSE
