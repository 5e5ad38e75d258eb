CONSTANTS
  w1 = w1
  w2 = w2
  Workers = {w1, w2}
  Targets <- MCTargets
SPECIFICATION Spec
PROPERTY BuildReturns
CHECK_DEADLOCK FALSE
