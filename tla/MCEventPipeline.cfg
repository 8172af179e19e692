CONSTANTS
  Bounces = {b1}
  Complaints = {c1}
  Tasks = {t1, t2}
  Declined = {c1}
  BatchSize = 1
  MaxFaults = 1
SPECIFICATION Spec
INVARIANTS
  EventPerFile
  TakenOnce
  BouncesAtRest
  ExitHasCause
CHECK_DEADLOCK FALSE
