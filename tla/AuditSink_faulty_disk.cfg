CONSTANTS
  Keep = 3
  MaxBytes = 2
  Fsync = TRUE
  Sizes = {1, 2}
  Faults = {"remove", "shift", "rename", "open", "write", "sync"}
  MaxRecords = 6
  MaxFaults = 1
  MaxCrashes = 1
SPECIFICATION Spec
INVARIANT TypeOK
INVARIANT GenerationsInOrder
INVARIANT LiveHandle
INVARIANT SizeBound
PROPERTY LossOnlyByAge
PROPERTY ImplementsLog
CHECK_DEADLOCK FALSE
