SPECIFICATION Spec
CONSTANTS
  alpha = alpha
  beta = beta
  Members = {alpha}
  MaxMessages = 2
  MaxRows = 4
  MaxRuns = 5
  Events <- AnyEvent
  Budget = 2
INVARIANTS
  TypeOK
  InCreationOrder
  OneDeliveryPerTarget
  RunNamesItsDelivery
PROPERTIES
  PromiseKept
CHECK_DEADLOCK FALSE
