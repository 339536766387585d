SPECIFICATION Spec
CONSTANTS
  a = a  b = b  c = c  g = g  h = h  p = p  retry = retry
  Steps = {a, b, c}
  Agents = {g, h}
  Passes = {p}
  Retry = retry
  Deps <- Join
  AgentOf <- Assigned
  Order <- Displayed
  Requests = {"skip", "resume"}
  MaxRequests = 2
  Crashes = 0
INVARIANTS
  TypeOK
  SettledAgrees
  NoSilentStall
PROPERTIES
  FollowsDependencies
CHECK_DEADLOCK FALSE
