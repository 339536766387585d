SPECIFICATION FairSpec
CONSTANTS
  alpha = alpha
  beta = beta
  Members = {alpha}
  MaxMessages = 1
  MaxRows = 2
  MaxRuns = 4
  Events <- StopOnce
  Budget = 1
PROPERTIES
  InFlightEnds
CHECK_DEADLOCK FALSE
