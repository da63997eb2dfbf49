SPECIFICATION FairSpec
CONSTANTS
  Ctx = {c1}
  Buf = {b1, b2}
  None = None
  Timely = TRUE
  UsageBound = 3
INVARIANTS
  RightPair
  TruthfulResult
  ReadyToRun
  NoDmaAfterReturn
PROPERTIES
  ServiceSafety
  SlotSafety
  JobFinishes
  StopReturns
  ServiceLiveness
