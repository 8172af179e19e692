CONSTANTS
  Messages = {m1}
  Stagers = {s1, s2}
  Workers = {w1, w2}
  MaxFaults = 1
  None = None
SPECIFICATION FairSpec
INVARIANTS
  NoSilentLoss
  AtMostOnce
  TruthfulOutcome
PROPERTIES
  KeepsContract
  HeldIsReleased
  StagingDrains
CHECK_DEADLOCK FALSE
