CONSTANTS
  h1 = h1
  h2 = h2
  a1 = a1
  a2 = a2
  Workers = {w1, w2}
  Hosts = {h1, h2}
  Addresses = {a1, a2}
  Patterns <- MCPatterns
  Collections = {c1, c2, c3}
  CacheMinutes = 1
  None = None
SPECIFICATION Spec
SYMMETRY Symmetry
INVARIANTS
  FirstOrGeneral
CHECK_DEADLOCK FALSE
