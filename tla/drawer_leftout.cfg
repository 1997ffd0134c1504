SPECIFICATION Spec
CONSTANTS
  Closes = {commons}
  ContentKeys = {k1, k2, k3}
  NoKey = NoKey
  People = {ana, ben}
  Names = {}
  Founder = ana
  Commons = commons
  Receivers = {ben}
  Excludable = {ben}
  ShareFacets = {1, 2}
  SharePowers <- SetPower
  ShareDays <- OneDay
  MaxEpoch = 2
  MaxGrants = 3
  MaxNow = 1
SYMMETRY Roots
PROPERTIES RotateRestoresNobody
CHECK_DEADLOCK FALSE
