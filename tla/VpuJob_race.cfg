SPECIFICATION Spec
CONSTANTS
  Ctx = {c1}
  Buf = {b1}
  None = None
  Timely = FALSE
  UsageBound = 3
SYMMETRY Symmetry
CONSTRAINT RaceBound
\* Both handlers may give up on one job: then nothing is left to be done.
CHECK_DEADLOCK FALSE
INVARIANTS
  TypeOK
  JobListSound
