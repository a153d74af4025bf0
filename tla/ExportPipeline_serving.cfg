CONSTANTS
  MaxQueue = 2
  MaxBatch = 2
  MaxAttempts = 3
  MaxRecords = 5
SPECIFICATION FairSpec
INVARIANT TypeOK
INVARIANT InOrder
INVARIANT EachInOnePlace
INVARIANT HealthIsLatest
INVARIANT FlushedInTime
INVARIANT BoundedBacklog
PROPERTY Resolved
CHECK_DEADLOCK FALSE
