CONSTANTS
  Confs <- MCConfs
  MaxQueue = 2
  MaxCalls = 2
SPECIFICATION Spec
CHECK_DEADLOCK FALSE
PROPERTIES
  SignalEnds
