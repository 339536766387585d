SPECIFICATION Spec
CONSTANTS
  a = a  b = b  c = c  g = g  h = h  p = p  retry = retry
  Steps = {a}
  Agents = {g}
  Passes = {p}
  Retry = retry
  Deps <- Solo
  AgentOf <- Alone1
  Order <- Displayed1
  Requests = {"stop", "pause", "interrupt", "skip", "retry", "complete", "accept"}
  MaxRequests = 2
  Crashes = 0
INVARIANTS
  NoAbandonedStep
  OneRunnerPerStep
CHECK_DEADLOCK FALSE
