SPECIFICATION Spec
CONSTANTS
  empty = empty
  pass = pass
  fail = fail
  crash = crash
  unknown = unknown
  null = null
  absent = absent
  unavailable = unavailable
  Fields <- MCFields
  Numbers = {0, 1, 2}
  Texts = {empty, pass, fail, crash, unknown}
  Empty = empty
  Null = null
  Absent = absent
  Found <- MCFound
  Broken = {fail}
  StabilityThreshold = 7000
  ConfidenceThreshold = 7000
  DefaultHorizon = 2
  MaxHorizon = 5
  ClusterHealth = "cluster-health"
  Stages = {"cluster-health", "deployment", "none"}
  NoStage = ""
  StageOf <- MCStageOf
  ConstraintsOf <- MCConstraintsOf
  Passed = pass
  Failed = {fail}
  Reasoning = {crash}
  Unknown = unknown
  Unavailable = unavailable
  Events <- MCEvents
  Hypotheses <- MCHypotheses
  Enrichment = crash
  HypothesisThreshold = 7000
  Thresholds = {5000, 7000, 9000}
  Answers <- MCAnswers
  Replies <- MCReplies
  Lengths = {1000, 2000, 5000}
INVARIANTS TypeOK PassEarned ValidatedIsPass GateAgrees ParseExplained RouteExplained PlanExplained RecommendationsNotTaken
PROPERTIES ResultStands VerdictStands
VIEW Pending
CHECK_DEADLOCK FALSE
