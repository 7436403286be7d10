SPECIFICATION Spec
CONSTANTS
  c1 = c1
  c2 = c2
  c3 = c3
  Callers = {c1, c2, c3}
  Threshold = 2
  Cooldown = 1
  Lag = 1
INVARIANT CallReturns
