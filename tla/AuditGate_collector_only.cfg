CONSTANTS
  Callers = {c1, c2}
  FailMode = "closed_writes"
  HasSink = FALSE
  HasOtlp = TRUE
  MaxSeq = 6
  MaxLost = 2
SPECIFICATION FairSpec
INVARIANT AtMostOneUnrecorded
CHECK_DEADLOCK FALSE
