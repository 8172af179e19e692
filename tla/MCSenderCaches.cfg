CONSTANTS
  Workers = {c1}
  Receivers = {r1}
  Period = 2
  MaxCall = 1
  MaxTime = 6
  None = None
  w1 = w1
  w2 = w2
  Tasks = {w1, w2}
  a1 = a1
  a2 = a2
  Addresses = {a1, a2}
  Destinations = {h1}
  CacheMinutes = 2
  MaxSends = 3
  MaxGroupCall = 1
  MaxGroupTime = 3
  mx1 = mx1
  mx2 = mx2
  Mxs = {mx1, mx2}
  Domain = Domain
  Zones <- MCZones
  Ttl <- MCTtl
  MaxQuery = 1
  MaxAge = 5
  Lists <- MCLists
  Away = 2
SPECIFICATION PartSpec
SYMMETRY Symmetry
INVARIANTS
  AnswersAreRecent
  AddressIsRecent
  SharedFairly
PROPERTIES
  RoutesAreCurrent
  MxsAreTriedInTurn
CHECK_DEADLOCK FALSE
