SPECIFICATION Spec
CONSTANTS
  c = c
  d = d
  q1 = q1
  q2 = q2
  Calls = {c, d}
  RunOf <- SameRun
  LastRun = 2
  Asks = {q1, q2}
  CallOf <- Each
  Options = {"approve", "deny"}
  Events = {"stop", "idle", "remove"}
  Budget = 1
SYMMETRY Swap
INVARIANTS
  TypeOK
  OnlyPendingIsShown
  OnlyStopsWin
  WaitingHasReason
CHECK_DEADLOCK FALSE
