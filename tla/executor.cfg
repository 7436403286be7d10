SPECIFICATION Spec
CONSTANTS
  c1 = c1
  c2 = c2
  Callers = {c1, c2}
  MaxAttempts = 2
INVARIANTS TypeOK EffectsRecorded Standing
PROPERTIES SwitchHolds RefinesTrail
SYMMETRY Threads
CHECK_DEADLOCK FALSE
