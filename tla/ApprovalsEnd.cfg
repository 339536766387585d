SPECIFICATION FairSpec
CONSTANTS
  c = c
  d = d
  q1 = q1
  q2 = q2
  Calls = {c, d}
  RunOf <- SameRun
  LastRun = 1
  Asks = {q1, q2}
  CallOf <- Twice
  Options = {"approve", "deny"}
  Events = {"parallel", "own", "stop", "idle", "exit", "remove", "crash"}
  Budget = 1
INVARIANTS
  NoLostWakeup
PROPERTIES
  RequestReturns
  DecisionsKept
CHECK_DEADLOCK FALSE
