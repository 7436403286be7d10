----------------------------- MODULE Decisions -----------------------------
(***************************************************************************)
(* What GeoLux decides for a failure: the tier of its workload             *)
(* (deepfield.py), the horizon and the action of a plan (mpc.py), and what *)
(* execute() makes of that action (action_executor.py). Scores and         *)
(* thresholds are numbers of ten-thousandths.                              *)
(***************************************************************************)
EXTENDS Measure

CONSTANTS
  StabilityThreshold,
  ConfidenceThreshold,
  DefaultHorizon,
  MaxHorizon

ASSUME DecisionsAssumption ==
  /\ StabilityThreshold \in 1 .. One /\ ConfidenceThreshold \in 1 .. One
  /\ DefaultHorizon \in 1 .. MaxHorizon /\ MaxHorizon \in Nat

(***************************************************************************)
(* Routing.                                                                *)
(***************************************************************************)
Tiers == {"nano", "micro", "macro"}

Level == [nano |-> 1, micro |-> 2, macro |-> 3]

TierSubstrateMap == [nano |-> "cpu", micro |-> "xeon6", macro |-> "gaudi"]

TierEscalation == [nano |-> "micro", micro |-> "macro", macro |-> "macro"]

RuleBasedClassify(w) ==
  IF w.novel \/ (w.multi_step /\ w.reasoning_required) \/ w.context_length > 4096
  THEN "macro"
  ELSE IF w.reasoning_required \/ w.multi_step \/ w.context_length > 1024
       THEN "micro" ELSE "nano"

\* The answer of the breaker's LLM: none; or an unstable one, or a stable one
\* that names a tier or something else.
Classifiers == {"none", "unstable", "other"} \cup Tiers

ClassifyWorkload(w, answer) ==
  IF answer \in Tiers THEN answer
  ELSE IF answer = "unstable" THEN TierEscalation[RuleBasedClassify(w)]
       ELSE RuleBasedClassify(w)

\* Mutant: the tier above is taken for available.
ApplyFallbackUnasked(tier, available) ==
  IF TierEscalation[tier] # tier THEN TierEscalation[tier] ELSE "nano"

ApplyFallback(tier, available) ==
  IF TierEscalation[tier] # tier /\ TierSubstrateMap[TierEscalation[tier]] \in available
  THEN TierEscalation[tier] ELSE "nano"

\* An override is not asked whether its substrate is available; one without a
\* reason is refused.
Route(w, answer, override, reason, available) ==
  IF override # "none"
  THEN IF reason THEN override ELSE "refused"
  ELSE LET tier == ClassifyWorkload(w, answer)
       IN  IF TierSubstrateMap[tier] \in available
           THEN tier ELSE ApplyFallback(tier, available)

(***************************************************************************)
(* Planning.                                                               *)
(***************************************************************************)
Least(scores) ==
  CHOOSE s \in {scores[i] : i \in DOMAIN scores} :
    \A i \in DOMAIN scores : s <= scores[i]

Floor(n) == IF n < 1 THEN 1 ELSE n

Ceiling(n) == IF n > MaxHorizon THEN MaxHorizon ELSE n

\* The scores are high on average, there are three, and the last three are
\* above the threshold.
Sustained(scores) ==
  /\ Total(scores) > (StabilityThreshold + 1000) * Len(scores)
  /\ Len(scores) >= 3
  /\ \A i \in Len(scores) - 2 .. Len(scores) : scores[i] > StabilityThreshold

\* Mutant: one score is enough to extend the horizon.
AdjustHorizonAtOnce(scores, horizon) ==
  IF Least(scores) < StabilityThreshold THEN Floor(horizon - 1)
  ELSE IF Total(scores) > (StabilityThreshold + 1000) * Len(scores)
       THEN Ceiling(horizon + 1) ELSE horizon

AdjustHorizon(scores, horizon) ==
  IF scores = << >> THEN horizon
  ELSE IF Least(scores) < StabilityThreshold THEN Floor(horizon - 1)
  ELSE IF Sustained(scores) THEN Ceiling(horizon + 1) ELSE horizon

\* request.get("horizon") or the default, at most the maximum.
Capped(requested) == Ceiling(IF requested = 0 THEN DefaultHorizon ELSE requested)

\* Mutant: what the executor needs is there.
CandidateComplete(objective) ==
  [action_type |-> IF objective = "scale" THEN "scale_replicas" ELSE "no_action",
   keys |-> {"optimization_score"}, parameters |-> {"target_replicas", "deployment"}]

\* There is one candidate, with the keys of the action and of its parameters.
Candidate(objective) ==
  IF objective = "scale"
  THEN [action_type |-> "scale_replicas", keys |-> {"score"},
        parameters |-> {"target_replicas"}]
  ELSE IF objective = "remediate"
  THEN [action_type |-> "execute_remediation", keys |-> {"score"},
        parameters |-> {"remediation_id"}]
  ELSE [action_type |-> "no_action", keys |-> {"score"}, parameters |-> {}]

\* optimize() chooses among the candidates whatever the LLM's scores name.
Selected(objective, predicted) ==
  IF predicted THEN <<Candidate(objective)>> ELSE << >>

(***************************************************************************)
(* Executing.                                                              *)
(***************************************************************************)
\* The key that the executor asks the parameters of an action for.
Needed(action_type) ==
  IF action_type = "scale_replicas" THEN {"deployment"}
  ELSE IF action_type = "execute_remediation" THEN {"target"} ELSE {}

\* The confidence an action brings: its own, or its score under another name.
Confident(action) == {"confidence", "optimization_score"} \cap action.keys # {}

\* oc has no usable kubeconfig, or the action does not say what it is for.
Fails(action, usable) == ~ usable \/ ~ (Needed(action.action_type) \subseteq action.parameters)

\* Confidence 0 is below the threshold, so an action without one is rejected. (The
\* gates before, the mode and the dry run, reject more; they are ActionExecutor's.)
\* An action that fails is rolled back if its namespace has been captured: oc
\* applies all of the namespace's deployments as they were. One that does not
\* fail here has been handed to oc.
Execution(action, force, usable, captured) ==
  IF ~ Confident(action) /\ ~ force THEN "rejected"
  ELSE IF Fails(action, usable) THEN IF captured THEN "rolled_back" ELSE "fails"
  ELSE IF action.action_type = "no_action" THEN "succeeds" ELSE "attempted"
=============================================================================
