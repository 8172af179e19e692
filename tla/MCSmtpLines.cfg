CONSTANTS
  MaxLines = 7
SPECIFICATION LinesSpec
INVARIANTS
  OneStream
  LinesAreTakenAsMeant
CHECK_DEADLOCK FALSE
