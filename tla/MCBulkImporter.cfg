CONSTANTS
  Messages = {m1, m2}
  BatchSize = 2
  Prefetch = 3
  MaxCopies = 4
  MaxFaults = 2
SPECIFICATION FairSpec
INVARIANTS
  NoRecordLost
  WipedOnlyByRepeats
  WindowReopens
PROPERTIES
  EventuallyImported
CHECK_DEADLOCK FALSE
