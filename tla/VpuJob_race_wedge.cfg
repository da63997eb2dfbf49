SPECIFICATION FairSpec
CONSTANTS
  Ctx = {c1}
  Buf = {b1}
  None = None
  Timely = FALSE
  UsageBound = 3
CHECK_DEADLOCK FALSE
PROPERTIES
  JobFinishes
