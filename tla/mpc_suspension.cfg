SPECIFICATION Spec
CONSTANTS
  w1 = w1
  w2 = w2
  cluster1 = cluster1
  NoCluster = NoCluster
  Workers = {w1}
  Clusters = {cluster1}
  Cooldown = 4
  Lag = 1
  MinRecords = 1
  SuspensionThreshold = 3
INVARIANT InstabilitySuspends
