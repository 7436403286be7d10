----------------------------- MODULE Judgement -----------------------------
(***************************************************************************)
(* What becomes of one event: its criteria complete the evidence, the      *)
(* evidence is classified against the constraints of the event's stage; a  *)
(* failure has its evidence enriched, its hypotheses gated and parsed, its *)
(* workload routed and a plan made; and the evidence judges hypotheses.    *)
(* Meanwhile an operator may change the stability threshold. Sessions,     *)
(* commits and the order of threads are EventPipeline's subject; here the  *)
(* values matter.                                                          *)
(***************************************************************************)
EXTENDS Evidence, Decisions, FiniteSets

CONSTANTS
  ClusterHealth,   \* the stage of what is mapped to no other
  Stages,          \* stage ids, of stages with constraints or without
  NoStage,         \* the stage id ""
  StageOf,         \* FAILURE_TO_STAGE
  ConstraintsOf,   \* the constraints of a stage
  Passed,          \* the outcome "pass"
  Failed,          \* the outcomes that make an event a failure
  Reasoning,       \* the failure classes that require reasoning
  Unknown,         \* the failure class "unknown"
  Events,          \* records with outcome, failure_class, stage_id and failed,
                   \* whether the event's type says that it failed
  Hypotheses,      \* sets of conditions
  Enrichment,      \* what enrichment adds to the evidence
  HypothesisThreshold, \* STABILITY_THRESHOLDS["hypothesis_generation"]
  Thresholds,      \* what an operator may set
  Answers,         \* sequences of tokens, each the set of its logprobs
  Replies,         \* answers to a generation, each with its form and its items
  Unavailable,     \* no answer of the LLM
  Lengths          \* context_length

ASSUME JudgementAssumption ==
  /\ ClusterHealth \in Stages /\ NoStage \notin Stages
  /\ {"outcome", "failure_class", "cross_system"} \subseteq Fields
  /\ Enrichment \in Texts
  /\ Thresholds \cup {HypothesisThreshold} \subseteq 0 .. One
  /\ Passed \in Texts /\ Failed \subseteq Texts \ {Passed}
  /\ DOMAIN ConstraintsOf = Stages
  /\ DOMAIN StageOf \subseteq Texts
  /\ \A class \in DOMAIN StageOf : StageOf[class] \in Stages
  /\ \A e \in Events : e.stage_id \in Stages \cup {NoStage}
                      /\ e.outcome \in Values /\ e.failure_class \in Values
  /\ Lengths \subseteq Nat

ASSUME FieldsAssumption ==
  /\ \A h \in Hypotheses : \A c \in h : c.field \in Fields
  /\ \A stage \in Stages : \A c \in ConstraintsOf[stage] :
       /\ c.requires \subseteq Fields
       /\ c.asserts.type \in SubTypes => c.asserts.field \in Fields
       /\ c.asserts.type = "composite" => \A d \in c.asserts.subs : d.field \in Fields

\* An answer is a list of tokens, each with finitely many alternatives.
ASSUME AnswersAssumption ==
  \A tokens \in Answers :
    tokens \in Seq(SUBSET Int) /\ \A i \in DOMAIN tokens : IsFiniteSet(tokens[i])

ASSUME RepliesAssumption ==
  /\ Unavailable # {}
  /\ \A answer \in Replies :
       answer.items \in Seq(Items) /\ Objects(answer.items) # Unavailable

VARIABLES
  event,
  evidence,   \* evidence_fields
  replaced,   \* the fields that a criterion has given a value
  pc,
  overall,    \* classification_result; "none" after an exception
  threshold,  \* STABILITY_THRESHOLD
  gate,       \* the threshold that the generation has read
  measured,   \* the LLM's answer to the generation
  reply,      \* the form and the items of that answer
  parsed,     \* the items that become hypotheses, or Unavailable
  routing,    \* the request and the tier it is given
  plan        \* the horizon asked for, the one recorded and the action

generation == <<gate, measured, reply, parsed>>

vars == <<event, evidence, replaced, pc, overall, threshold, generation, routing, plan>>

NoAnswer == [tokens |-> << >>, gated |-> FALSE, state |-> "none"]

NoReply == [form |-> "list", items |-> << >>]

NoRouting == [tier |-> "none"]

NoPlan == [action |-> << >>]

Init ==
  /\ event \in Events
  /\ evidence = [f \in Fields |->
                   CASE f = "outcome" -> event.outcome
                     [] f = "failure_class" -> event.failure_class
                     [] OTHER -> Absent]
  /\ replaced = {}
  /\ pc = "gathering"
  /\ overall = "none"
  /\ threshold = StabilityThreshold /\ gate = StabilityThreshold
  /\ measured = NoAnswer /\ reply = NoReply /\ parsed = {}
  /\ routing = NoRouting
  /\ plan = NoPlan

\* A criterion of the payload, under a name that the evidence may already have.
Criterion(f, v) ==
  /\ pc = "gathering"
  /\ evidence' = [evidence EXCEPT ![f] = v]
  /\ replaced' = replaced \cup {f}
  /\ UNCHANGED <<event, pc, overall, threshold, generation, routing, plan>>

MapStage ==
  IF event.stage_id \notin {NoStage, ClusterHealth} THEN event.stage_id
  ELSE IF event.failure_class \in DOMAIN StageOf THEN StageOf[event.failure_class]
       ELSE ClusterHealth

IsFailure == event.outcome \in Failed \/ event.failed

Classify ==
  /\ pc = "gathering"
  /\ \E answer \in LlmAnswers :
       overall' = Classification(ConstraintsOf[MapStage], evidence, answer)
  /\ pc' = IF IsFailure THEN "generating" ELSE "done"
  /\ UNCHANGED <<event, evidence, replaced, threshold, generation, routing, plan>>

\* PUT /stability/thresholds; at other times nobody reads what it sets.
SetThreshold(t) ==
  /\ pc \in {"generating", "asking"}
  /\ threshold' = t
  /\ UNCHANGED <<event, evidence, replaced, pc, overall, generation, routing, plan>>

\* Generation is disabled, or there is a recent hypothesis.
Skip ==
  /\ pc = "generating"
  /\ pc' = "routing"
  /\ UNCHANGED <<event, evidence, replaced, overall, threshold, generation, routing, plan>>

\* The threshold is read before the LLM is asked. The enrichment counts the
\* audit events of the other systems, if there are any, and puts the result into
\* the evidence of the event itself; audit events have no payload to tell more.
StartGeneration(audited) ==
  /\ pc = "generating"
  /\ gate' = threshold
  /\ evidence' = IF audited THEN [evidence EXCEPT !["cross_system"] = Enrichment]
                 ELSE evidence
  /\ pc' = "asking"
  /\ UNCHANGED <<event, replaced, overall, threshold, measured, reply, parsed, routing, plan>>

\* Mutant: an answer at the threshold is gated.
GatedAtThreshold(score) == score <= gate

Gated(score) == score < gate

\* An answer that is gated is not parsed.
Generate(tokens, answer) ==
  LET score == ComputeStabilityScore(tokens)
  IN  /\ pc = "asking"
      /\ measured' = [tokens |-> tokens, gated |-> Gated(score),
                      state |-> DetermineStabilityState(score, TRUE, HypothesisThreshold)]
      /\ reply' = IF Gated(score) THEN NoReply ELSE answer
      /\ parsed' = IF Gated(score) THEN {}
                   ELSE IF ParseRaises(answer) THEN Unavailable
                   ELSE ParseHypotheses(answer.items)
      /\ pc' = "routing"
      /\ UNCHANGED <<event, evidence, replaced, overall, threshold, gate, routing, plan>>

\* The breaker is open or the call fails.
GenerateUnanswered ==
  /\ pc = "asking"
  /\ measured' = [NoAnswer EXCEPT !.state = "unstable_fail"]
  /\ parsed' = Unavailable
  /\ pc' = "routing"
  /\ UNCHANGED <<event, evidence, replaced, overall, threshold, gate, reply, routing, plan>>

\* No workload requires more than one step: what is novel requires no reasoning.
Workload(length) ==
  LET novel == event.failure_class \in {Empty, Unknown}
      reasoning == event.failure_class \in Reasoning
  IN  [novel |-> novel, reasoning_required |-> reasoning,
       multi_step |-> reasoning /\ novel, context_length |-> length]

\* The pipeline asks for no override; an operator's request may.
RouteWorkload(length, answer, override, reason, available) ==
  /\ pc = "routing"
  /\ routing' = [workload |-> Workload(length), answer |-> answer,
                 override |-> override, available |-> available,
                 tier |-> Route(Workload(length), answer, override, reason, available)]
  /\ pc' = "planning"
  /\ UNCHANGED <<event, evidence, replaced, overall, threshold, generation, plan>>

\* predict() returns one score: that of its only call. The pipeline's objective
\* is health_target, and it asks for no horizon; an operator's request may.
Plan(requested, objective, score, predicted) ==
  /\ pc = "planning"
  /\ plan' = [requested |-> requested,
              horizon |-> AdjustHorizon(<<score>>, Capped(requested)),
              predicted |-> predicted,
              action |-> Selected(objective, predicted)]
  /\ pc' = "done"
  /\ UNCHANGED <<event, evidence, replaced, overall, threshold, generation, routing>>

Substrates == {{"cpu"} \cup up : up \in SUBSET {"xeon6", "gaudi"}}

Next ==
  \/ \E f \in Fields \ {"cross_system"}, v \in Values \cup {Null} : Criterion(f, v)
  \/ Classify
  \/ \E t \in Thresholds : SetThreshold(t)
  \/ Skip
  \/ \E audited \in BOOLEAN : StartGeneration(audited)
  \/ \E tokens \in Answers, answer \in Replies : Generate(tokens, answer)
  \/ GenerateUnanswered
  \/ \E length \in Lengths, answer \in Classifiers, override \in Tiers \cup {"none"},
        reason \in BOOLEAN, available \in Substrates :
       RouteWorkload(length, answer, override, reason, available)
  \/ \E requested \in {-1, 0, 1, MaxHorizon, MaxHorizon + 1},
        objective \in {"scale", "remediate", "health_target"},
        score \in {0, StabilityThreshold, One}, predicted \in BOOLEAN :
       Plan(requested, objective, score, predicted)

Spec == Init /\ [][Next]_vars

-----------------------------------------------------------------------------
\* Every variable has its type.
TypeOK ==
  /\ event \in Events
  /\ evidence \in [Fields -> Values \cup {Null, Absent}]
  /\ replaced \subseteq Fields
  /\ pc \in {"gathering", "generating", "asking", "routing", "planning", "done"}
  /\ overall \in {"none", "pass", "fail", "inconclusive", "unclassifiable"}
  /\ threshold \in 0 .. One /\ gate \in 0 .. One
  /\ measured.state \in {"none", "stable_pass", "unstable_pass", "unstable_fail"}
  /\ parsed = Unavailable \/ parsed \subseteq DOMAIN reply.items
  /\ routing.tier \in Tiers \cup {"none", "refused"}

(***************************************************************************)
(* A stage that passes has earned it: each of its assertions has found its *)
(* field; and an event that says it has not passed is not classified as a  *)
(* pass, unless nobody looks (its stage has no constraint on the outcome)  *)
(* or a criterion has taken the outcome's place in the evidence. (A stage  *)
(* without constraints passes whatever happened.)                          *)
(***************************************************************************)
AsksOutcome(c) ==
  /\ c.asserts.type = "boolean"
  /\ c.asserts.field = "outcome" /\ c.asserts.value = Passed

PassEarned ==
  overall = "pass" =>
    /\ \A c \in ConstraintsOf[MapStage] :
         c.asserts.type \in SubTypes => Given(evidence, c.asserts.field)
    /\ \/ event.outcome = Passed \/ "outcome" \in replaced
       \/ \A c \in ConstraintsOf[MapStage] : ~ AsksOutcome(c)

(***************************************************************************)
(* More evidence does not change what evidence has settled. A constraint   *)
(* that has passed or failed does so when a field is added; a composite,   *)
(* for which a missing field is a failure, does if it requires the fields  *)
(* it reads.                                                               *)
(***************************************************************************)
Added ==
  /\ \A f \in Fields : evidence[f] \in {Absent, evidence'[f]}
  /\ evidence' # evidence

Reads(d) ==
  IF d.type = "composite" THEN {s.field : s \in d.subs} ELSE {}

Settled(c) ==
  c.asserts.type \in SubTypes \cup {"composite"} /\ Reads(c.asserts) \subseteq c.requires

Verdict(c) == EvaluateConstraint(c, evidence, [success |-> FALSE])

ResultStands ==
  [][Added => \A stage \in Stages : \A c \in ConstraintsOf[stage] :
       Settled(c) /\ Verdict(c) \in {"pass", "fail"} => Verdict(c)' = Verdict(c)]_vars

(***************************************************************************)
(* Nor does it change the verdict on a hypothesis, which is given at the   *)
(* first evidence that allows one and never taken back.                    *)
(***************************************************************************)
VerdictStands ==
  [][Added => \A h \in Hypotheses :
       ValidateHypothesis(h, evidence) \in {"validated", "falsified"} =>
         ValidateHypothesis(h, evidence') = ValidateHypothesis(h, evidence)]_vars

(***************************************************************************)
(* The two evaluators agree: where a composite of thresholds can be        *)
(* evaluated at all, it passes if and only if a hypothesis with the same   *)
(* conditions is validated.                                                *)
(***************************************************************************)
AsComposite(h) ==
  [type |-> "composite", logic |-> "all",
   subs |-> {[type |-> "threshold", field |-> c.field, op |-> c.op,
              value |-> c.value] : c \in h}]

Numeric(h) ==
  h # {} /\ \A c \in h : c.op \in Orders \cup {"eq"} /\ c.value \in Numbers

ValidatedIsPass ==
  \A h \in Hypotheses :
    Numeric(h) /\ EvaluateComposite(AsComposite(h), evidence) # "raises" =>
      (EvaluateComposite(AsComposite(h), evidence) = "pass"
         <=> ValidateHypothesis(h, evidence) = "validated")

(***************************************************************************)
(* The gate and the state that is recorded compare one score with two      *)
(* thresholds, of which an operator can change only the first: an answer   *)
(* recorded as unstable has hypotheses only if the gate is below the       *)
(* other, and one recorded as stable is gated only if it is above. An      *)
(* answer without logprobs has none unless the gate is at half or below.   *)
(***************************************************************************)
GateAgrees ==
  /\ ~ Stable(measured.state) /\ parsed \notin {{}, Unavailable} =>
       gate < HypothesisThreshold
  /\ measured.gated /\ Stable(measured.state) => gate > HypothesisThreshold
  /\ parsed \notin {{}, Unavailable} /\ ExtractLogprobs(measured.tokens) = {} =>
       gate <= Half

(***************************************************************************)
(* Of an answer either all objects become hypotheses, each with a number   *)
(* for its confidence, or none does. None does if the first confidence     *)
(* that is no number is a word; and the LLM is reported as not there, for  *)
(* all that it has answered, if that confidence is odd or the answer is no *)
(* text or no list. Nothing else is taken for an LLM that is not there,    *)
(* and no answer that has been gated is.                                   *)
(***************************************************************************)
ParseExplained ==
  /\ parsed = Unavailable =>
       \/ measured.state = "unstable_fail"
       \/ reply.form \in OddForms \/ FirstUnreadable(reply.items, "odd")
  /\ parsed # Unavailable =>
       \/ parsed = Objects(reply.items) /\ Unreadable(reply.items) = {}
       \/ parsed = {} /\ FirstUnreadable(reply.items, "word")
  /\ measured.gated => parsed = {}

(***************************************************************************)
(* Only an override routes to a substrate that is not available. Otherwise *)
(* a tier below that of the rules is the LLM's; or it is nano, and neither *)
(* the tier that was chosen nor one above it is available. The tier chosen *)
(* after an unstable answer is the one above that of the rules, so that    *)
(* instability, meant to escalate, can take a workload from micro to nano  *)
(* although micro is there.                                                *)
(***************************************************************************)
Chosen == ClassifyWorkload(routing.workload, routing.answer)

RouteExplained ==
  routing.tier \in Tiers /\ routing.override = "none" =>
    /\ TierSubstrateMap[routing.tier] \in routing.available
    /\ Level[routing.tier] < Level[Chosen] =>
         /\ routing.tier = "nano"
         /\ \A t \in Tiers : Level[t] >= Level[Chosen] =>
              TierSubstrateMap[t] \notin routing.available

(***************************************************************************)
(* A plan's horizon is the one asked for, within its bounds, or one less:  *)
(* with the one score of a prediction the extension for sustained          *)
(* stability is out of reach. It is positive unless a negative one was     *)
(* asked for. There is no action without a prediction.                     *)
(***************************************************************************)
PlanExplained ==
  plan # NoPlan =>
    /\ plan.horizon \in {Capped(plan.requested), Floor(Capped(plan.requested) - 1)}
    /\ plan.horizon < 1 => plan.requested < 0
    /\ plan.action # << >> => plan.predicted

(***************************************************************************)
(* No action that a plan recommends is carried out: execute() finds no     *)
(* confidence in it and rejects it, and if it is forced, finds no          *)
(* deployment or target in its parameters, for the planner and the         *)
(* executor name them differently. All that a recommendation can do to a   *)
(* cluster is what its failure brings: forced, it is rolled back, that is, *)
(* what was captured of its namespace is written back. A plan without an   *)
(* action to take does not even that while the kubeconfig is usable.       *)
(***************************************************************************)
RecommendationsNotTaken ==
  \A i \in DOMAIN plan.action, force, usable, captured \in BOOLEAN :
    LET end == Execution(plan.action[i], force, usable, captured) IN
    /\ end # "attempted"
    /\ end = "rolled_back" =>
         force /\ captured /\ (usable => plan.action[i].action_type # "no_action")
=============================================================================
