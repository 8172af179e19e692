CONSTANTS
  Workers = {w1, w2}
  Hosts = {h1}
  Queues = {q1, q2}
  Clients = {c1, c2}
  MaxConnections = 2
  MaxAttempts = 2
  MaxRaces = 1
  None = None
SPECIFICATION Spec
SYMMETRY Symmetry
INVARIANTS
  ExclusiveUse
  LeftBehindByFailure
  AttemptsAreCounted
CHECK_DEADLOCK FALSE
