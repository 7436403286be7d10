SPECIFICATION FairSpec
CONSTANTS
  k1 = k1
  k2 = k2
  l1 = l1
  l2 = l2
  Clusters = {k1, k2}
  Labs = {l1, l2}
  BatchSize = 2
  MaxBatches = 3
  Enough = 3
  MaxRows = 3
  MaxMoment = 2
  MaxDays = 2
INVARIANTS TypeOK SkipsExplained RepeatsExplained ReclaimExplained OneUnaudited
PROPERTY DayEnds
CHECK_DEADLOCK FALSE
