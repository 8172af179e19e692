CONSTANTS
  Second = 2
  MtaRetryInterval = 1
  MtaMaxTimeInQueue = 2
  Delays <- MCDelays
  MaxBacklog = 5
  MaxPauses = 1
SPECIFICATION FairSpec
INVARIANTS
  BackWhenDue
  LateOnlyByBacklog
PROPERTIES
  EventuallyDone
CHECK_DEADLOCK FALSE
