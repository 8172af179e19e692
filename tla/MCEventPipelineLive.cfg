CONSTANTS
  Bounces = {b1}
  Complaints = {c1}
  Tasks = {t1}
  Declined = {c1}
  BatchSize = 1
  MaxFaults = 1
SPECIFICATION FairSpec
PROPERTIES
  EventReachesService
  StopIsAnswered
CHECK_DEADLOCK FALSE
