CONSTANTS
  Keep = 1
  MaxBytes = 3
  Fsync = FALSE
  Sizes = {1, 2, 3}
  Faults = {"open"}
  MaxRecords = 5
  MaxFaults = 1
  MaxCrashes = 0
SPECIFICATION Spec
INVARIANT OnLiveFile
CHECK_DEADLOCK FALSE
