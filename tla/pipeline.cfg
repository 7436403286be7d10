SPECIFICATION Spec
CONSTANTS
  named = named
  nameless = nameless
  cluster = cluster
  NoCluster = NoCluster
  Unset = Unset
  Workers = {w1, w2}
  Keys = {named}
  Anonymous = {}
  ClusterOf <- MCClusterOf
  RuleVerdicts = {"falsified"}
  Verdicts = {"falsified"}
  Pending = "pending"
  Constraints = 2
  BatchMax = 1
  QueueLimit = 1
  MaxRuns = 2
INVARIANTS TypeOK NoSelfDuplicate GateExcludes
PROPERTIES RefinesLedger
SYMMETRY Threads
CHECK_DEADLOCK FALSE
