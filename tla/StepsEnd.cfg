SPECIFICATION FairSpec
CONSTANTS
  a = a  b = b  c = c  g = g  h = h  p = p  retry = retry
  Steps = {a, b, c}
  Agents = {g}
  Passes = {p}
  Retry = retry
  Deps <- Join
  AgentOf <- Alone
  Order <- Displayed
  Requests = {"approve", "reject", "skip", "resume"}
  MaxRequests = 1
  Crashes = 1
PROPERTIES
  StepsSettle
  EndsAtTheUser
CHECK_DEADLOCK FALSE
