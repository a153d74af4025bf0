CONSTANTS
  Callers = {c1, c2}
  FailMode = "closed_all"
  HasSink = TRUE
  HasOtlp = TRUE
  MaxSeq = 7
  MaxLost = 3
SPECIFICATION FairSpec
INVARIANT TypeOK
INVARIANT SequenceOrder
INVARIANT FailingMatchesGap
INVARIANT GapExact
INVARIANT HolesReported
INVARIANT AtMostOneUnrecorded
INVARIANT RefusalsReported
PROPERTY GateReopens
PROPERTY ImplementsLedger
CHECK_DEADLOCK FALSE
