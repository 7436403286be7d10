SPECIFICATION FairSpec
CONSTANTS
  named = named
  nameless = nameless
  cluster = cluster
  NoCluster = NoCluster
  Unset = Unset
  Workers = {w1}
  Keys = {named, nameless}
  Anonymous = {nameless}
  ClusterOf <- MCClusterOf
  RuleVerdicts = {"falsified"}
  Verdicts = {"falsified"}
  Pending = "pending"
  Constraints = 1
  BatchMax = 2
  QueueLimit = 2
  MaxRuns = 2
PROPERTIES RefinesLedger EventsEnd
CHECK_DEADLOCK FALSE
