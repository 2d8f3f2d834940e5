CONSTANTS
  p1 = p1
  a1 = a1
  a2 = a2
  Procs = {p1, p2}
  Agents = {a1, a2}
  AgentOf <- MCAgentOf
  Operators = {a2}
  MayRun <- MCMayRun
  MaxAttempts = 2
  MaxLate = 1
  LateOps = {"acquire"}
  UnitFails = TRUE
  None = None
  Other = Other
  Idle = Idle
  Done = Done
SPECIFICATION FairSpec
PROPERTIES ActivatesAdmitted LeaseGivenBack CommandsEnd
CHECK_DEADLOCK FALSE
