SPECIFICATION Spec
CONSTANT File = {f1}
\* Once the driver is gone and no file can be opened nothing is left to do.
CHECK_DEADLOCK FALSE
INVARIANT FileHasDevice
