CONSTANTS
  Callers = {c1, c2}
  FailMode = "closed_all"
  HasSink = TRUE
  HasOtlp = TRUE
  MaxSeq = 6
  MaxLost = 1
SPECIFICATION Spec
INVARIANT LossesReported
CHECK_DEADLOCK FALSE
