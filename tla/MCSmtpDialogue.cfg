CONSTANTS
  Messages = {m1, m2, m3}
  MaxMessages = 2
  None = None
SPECIFICATION FairSpec
INVARIANTS
  InStep
  OutcomeIsTrue
  InUseIsMarked
PROPERTIES
  ConnectionCloses
CHECK_DEADLOCK FALSE
