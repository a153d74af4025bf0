CONSTANTS
  Nothing = Nothing
  Setups <- MCSetups
  Callers <- MCCallers
  Callable <- MCCallable
  Given <- MCGiven
  MaxPings = 2
SPECIFICATION Spec
INVARIANTS SpanPathBare
