CONSTANTS
  h1 = h1
  Workers = {w1, w2}
  Hosts = {h1}
  Addresses = {a1}
  Patterns <- MCPatterns
  Collections = {c1}
  Limited <- MCLimited
  MaxMessagesHour <- MCMaxMessagesHour
  Histories = {o1, o2}
  Hour = 3
  CacheMinutes = 1
  None = None
SPECIFICATION ThrottleSpec
SYMMETRY Symmetry
INVARIANTS
  HourlyLimit
PROPERTIES
  RefusalIsJustified
CHECK_DEADLOCK FALSE
