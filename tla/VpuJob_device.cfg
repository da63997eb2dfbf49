SPECIFICATION FairSpec
CONSTANTS
  Ctx = {c1, c2}
  Buf = {b1}
  None = None
  Timely = TRUE
  UsageBound = 3
INVARIANTS
  SafeToReturn
  Configured
  Powered
  PmBalance
  Listed
  InHand
PROPERTIES
  ResetOnlyOnTimeout
  WaitsOnce
  JobShrinks
  NoStarvation
