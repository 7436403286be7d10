SPECIFICATION Spec
CONSTANTS
  named = named
  nameless = nameless
  cluster = cluster
  NoCluster = NoCluster
  Unset = Unset
  Workers = {w1}
  Keys = {named}
  Anonymous = {}
  ClusterOf <- MCClusterOf
  RuleVerdicts = {"falsified"}
  Verdicts = {"falsified"}
  Pending = "pending"
  Constraints = 1
  BatchMax = 1
  QueueLimit = 1
  MaxRuns = 2
INVARIANT CitedAuditsExist
CHECK_DEADLOCK FALSE
