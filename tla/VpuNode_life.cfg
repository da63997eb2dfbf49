SPECIFICATION Spec
CONSTANT File = {f1, f2}
\* Once the driver is gone and no file can be opened nothing is left to do.
CHECK_DEADLOCK FALSE
INVARIANTS
  TypeOK
  ProbeUndone
  NodeBacked
  ReleasedOnce
PROPERTY BoundFilesLive
