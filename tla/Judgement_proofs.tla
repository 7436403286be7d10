--------------------------- MODULE Judgement_proofs ---------------------------
(***************************************************************************)
(* Proofs about Judgement. VerdictStands and ResultStands are facts about  *)
(* any two assignments of evidence of which one extends the other; the     *)
(* invariants follow from IInv, which says where the values of each phase  *)
(* come from.                                                              *)
(***************************************************************************)
EXTENDS Judgement, TLAPS, WellFoundedInduction, FiniteSetTheorems

-----------------------------------------------------------------------------
(***************************************************************************)
(* More evidence.                                                          *)
(***************************************************************************)

\* A field that was given is the same and still given.
LEMMA GivenKept ==
  ASSUME Added, NEW f \in Fields, evidence[f] # Absent
  PROVE  evidence'[f] = evidence[f]
  BY DEF Added

\* A condition that is judged is judged so again.
LEMMA ConditionKept ==
  ASSUME Added, NEW c, c.field \in Fields,
         CheckCondition(c, evidence) # "inconclusive"
  PROVE  CheckCondition(c, evidence') = CheckCondition(c, evidence)
<1>1. evidence[c.field] # Absent
  BY DEF CheckCondition, Given
<1>2. evidence'[c.field] = evidence[c.field]
  BY <1>1, GivenKept
<1> QED
  BY <1>2 DEF CheckCondition, Given

LEMMA ConditionResults ==
  ASSUME NEW c, NEW e
  PROVE  CheckCondition(c, e) \in {"validated", "falsified", "inconclusive"}
  BY DEF CheckCondition

\* A hypothesis that is validated or falsified stays so (validate_hypothesis).
LEMMA HypothesisKept ==
  ASSUME Added, NEW h \in Hypotheses,
         ValidateHypothesis(h, evidence) \in {"validated", "falsified"}
  PROVE  ValidateHypothesis(h, evidence') = ValidateHypothesis(h, evidence)
<1> DEFINE results(e) == {CheckCondition(c, e) : c \in h}
<1>1. \A c \in h : c.field \in Fields
  BY FieldsAssumption
<1>2. \A c \in h : CheckCondition(c, evidence) # "inconclusive" =>
                     CheckCondition(c, evidence') = CheckCondition(c, evidence)
  BY <1>1, ConditionKept
<1>3. CASE "falsified" \in results(evidence)
  <2>1. "falsified" \in results(evidence')
    BY <1>2, <1>3
  <2> QED
    BY <1>3, <2>1 DEF ValidateHypothesis
<1>4. CASE "falsified" \notin results(evidence)
  <2>1. results(evidence) = {"validated"}
    BY <1>4 DEF ValidateHypothesis
  <2>2. \A c \in h : CheckCondition(c, evidence) = "validated"
    BY <2>1
  <2>3. results(evidence') = {"validated"}
    BY <1>2, <2>1, <2>2
  <2> QED
    BY <1>4, <2>1, <2>3 DEF ValidateHypothesis
<1> QED
  BY <1>3, <1>4

\* VerdictStands: added evidence takes no verdict on a hypothesis back.
THEOREM Verdicts == Spec => VerdictStands
<1>1. Added => \A h \in Hypotheses :
        ValidateHypothesis(h, evidence) \in {"validated", "falsified"} =>
          ValidateHypothesis(h, evidence') = ValidateHypothesis(h, evidence)
  BY HypothesisKept
<1> QED
  BY <1>1, PTL DEF VerdictStands

-----------------------------------------------------------------------------
\* A plain assertion that passes or fails does so again.
LEMMA EvaluateKept ==
  ASSUME Added, NEW d, d.field \in Fields, evidence[d.field] # Absent
  PROVE  Evaluate(d, evidence') = Evaluate(d, evidence)
<1>1. evidence'[d.field] = evidence[d.field]
  BY GivenKept
<1> QED
  BY <1>1 DEF Evaluate, Given

LEMMA RequiredKept ==
  ASSUME Added, NEW c, c.requires \subseteq Fields, ~ Missing(c, evidence)
  PROVE  ~ Missing(c, evidence')
<1>1. \A f \in c.requires : evidence'[f] = evidence[f] /\ evidence[f] # Absent
  BY GivenKept DEF Missing
<1> QED
  BY <1>1 DEF Missing

\* A constraint that has passed or failed on what it requires does so again.
LEMMA ResultKept ==
  ASSUME Added, NEW stage \in Stages, NEW c \in ConstraintsOf[stage],
         Settled(c), Verdict(c) \in {"pass", "fail"}
  PROVE  EvaluateConstraint(c, evidence', [success |-> FALSE]) = Verdict(c)
<1>1. ~ Missing(c, evidence) /\ ~ Missing(c, evidence')
  BY RequiredKept, FieldsAssumption DEF Verdict, EvaluateConstraint
<1>2. CASE c.asserts.type \in SubTypes
  <2>1. Verdict(c) = Evaluate(c.asserts, evidence)
    BY <1>1, <1>2 DEF Verdict, EvaluateConstraint
  <2>2. evidence[c.asserts.field] # Absent
    BY <2>1 DEF Evaluate, Given
  <2>3. Evaluate(c.asserts, evidence') = Evaluate(c.asserts, evidence)
    BY <1>2, <2>2, EvaluateKept, FieldsAssumption
  <2> QED
    BY <1>1, <1>2, <2>1, <2>3 DEF EvaluateConstraint
<1>3. CASE c.asserts.type = "composite"
  <2>1. "composite" \notin SubTypes
    BY DEF SubTypes
  <2>2. \A s \in c.asserts.subs : s.field \in Fields /\ s.field \in c.requires
    BY <1>3, FieldsAssumption DEF Settled, Reads
  <2>3. \A s \in c.asserts.subs : Evaluate(s, evidence') = Evaluate(s, evidence)
    BY <1>1, <2>2, EvaluateKept DEF Missing
  <2>4. SubResults(c.asserts, evidence') = SubResults(c.asserts, evidence)
    BY <2>3 DEF SubResults
  <2>5. EvaluateComposite(c.asserts, evidence') = EvaluateComposite(c.asserts, evidence)
    BY <2>4 DEF EvaluateComposite
  <2> QED
    BY <1>1, <1>3, <2>1, <2>5 DEF Verdict, EvaluateConstraint
<1> QED
  BY <1>2, <1>3 DEF Settled

\* ResultStands: added evidence changes no result that was a pass or a failure.
THEOREM Results == Spec => ResultStands
<1>1. Added => \A stage \in Stages : \A c \in ConstraintsOf[stage] :
        Settled(c) /\ Verdict(c) \in {"pass", "fail"} =>
          EvaluateConstraint(c, evidence', [success |-> FALSE]) = Verdict(c)
  BY ResultKept
<1>2. Added => \A stage \in Stages : \A c \in ConstraintsOf[stage] :
        Settled(c) /\ Verdict(c) \in {"pass", "fail"} => Verdict(c)' = Verdict(c)
  BY <1>1 DEF Verdict
<1> QED
  BY <1>2, PTL DEF ResultStands

-----------------------------------------------------------------------------
(***************************************************************************)
(* The two evaluators.                                                     *)
(***************************************************************************)

\* A numeric condition that a threshold can evaluate is met in both or in none.
LEMMA SameCondition ==
  ASSUME NEW h, Numeric(h), NEW c \in h, NEW d,
         d = [type |-> "threshold", field |-> c.field, op |-> c.op, value |-> c.value],
         Evaluate(d, evidence) # "raises"
  PROVE  Evaluate(d, evidence) = "pass" <=> CheckCondition(c, evidence) = "validated"
<1> DEFINE v == evidence[c.field]
<1>1. c.op \in Orders \cup {"eq"} /\ c.value \in Numbers
  BY DEF Numeric
<1>2. d.type = "threshold" /\ d.field = c.field /\ d.op = c.op /\ d.value = c.value
  OBVIOUS
<1>3. CASE ~ Given(evidence, c.field)
  BY <1>2, <1>3 DEF Evaluate, CheckCondition
<1>4. CASE Given(evidence, c.field)
  <2>1. v \in Numbers
    BY <1>2, <1>4 DEF Evaluate, Raises
  <2>2. ~ Unusable(c, v)
    BY <1>1, <2>1 DEF Unusable, Orders
  <2>3. Passes(d, v) <=> Met(c, v)
    BY <1>1, <1>2 DEF Passes, Met, Orders
  <2>4. Evaluate(d, evidence) = (IF Passes(d, v) THEN "pass" ELSE "fail")
    BY <1>2, <1>4 DEF Evaluate
  <2>5. CheckCondition(c, evidence) = (IF Met(c, v) THEN "validated" ELSE "falsified")
    BY <1>4, <2>2 DEF CheckCondition
  <2> QED
    BY <2>3, <2>4, <2>5
<1> QED
  BY <1>3, <1>4

\* ValidatedIsPass holds of any evidence.
LEMMA Agreement == ValidatedIsPass
<1> SUFFICES ASSUME NEW h \in Hypotheses, Numeric(h),
                    EvaluateComposite(AsComposite(h), evidence) # "raises"
             PROVE  EvaluateComposite(AsComposite(h), evidence) = "pass"
                      <=> ValidateHypothesis(h, evidence) = "validated"
  BY DEF ValidatedIsPass
<1> DEFINE sub(c) == [type |-> "threshold", field |-> c.field, op |-> c.op,
                      value |-> c.value]
           results == {Evaluate(sub(c), evidence) : c \in h}
           checks == {CheckCondition(c, evidence) : c \in h}
<1>1. SubResults(AsComposite(h), evidence) = results
  <2>1. AsComposite(h).subs = {sub(c) : c \in h}
    BY DEF AsComposite
  <2>2. {t \in AsComposite(h).subs : t.type \in SubTypes} = {sub(c) : c \in h}
    BY <2>1 DEF SubTypes
  <2> QED
    BY <2>2 DEF SubResults
<1>2. AsComposite(h).logic = "all"
  BY DEF AsComposite
<1>3. "raises" \notin results
  BY <1>1 DEF EvaluateComposite
<1>4. \A c \in h : Evaluate(sub(c), evidence) = "pass"
                    <=> CheckCondition(c, evidence) = "validated"
  BY <1>3, SameCondition
<1>5. EvaluateComposite(AsComposite(h), evidence) = "pass" <=> results \subseteq {"pass"}
  BY <1>1, <1>2, <1>3 DEF EvaluateComposite
<1>6. ValidateHypothesis(h, evidence) = "validated" <=> checks = {"validated"}
  BY DEF ValidateHypothesis
<1>7. h # {}
  BY DEF Numeric
<1> QED
  BY <1>4, <1>5, <1>6, <1>7

-----------------------------------------------------------------------------
(***************************************************************************)
(* What each phase computes.                                               *)
(***************************************************************************)
LEMMA StageKnown == ASSUME event \in Events PROVE MapStage \in Stages
  BY JudgementAssumption DEF MapStage

LEMMA EvaluateResults ==
  ASSUME NEW d, NEW e
  PROVE  Evaluate(d, e) \in {"pass", "fail", "inconclusive", "raises"}
  BY DEF Evaluate

LEMMA ConstraintResults ==
  ASSUME NEW c, NEW e, NEW answer \in LlmAnswers
  PROVE  EvaluateConstraint(c, e, answer) \in
           {"pass", "fail", "inconclusive", "unclassifiable", "raises"}
<1>1. Evaluate(c.asserts, e) \in {"pass", "fail", "inconclusive", "raises"}
  BY EvaluateResults
<1>2. EvaluateComposite(c.asserts, e) \in {"pass", "fail", "raises"}
  BY DEF EvaluateComposite
<1>3. EvaluateSemantic(answer) \in {"pass", "fail", "inconclusive", "raises"}
  BY DEF EvaluateSemantic, LlmAnswers
<1> QED
  BY <1>1, <1>2, <1>3 DEF EvaluateConstraint

\* A stage passes only if each of its constraints does.
LEMMA AllPass ==
  ASSUME NEW cs, NEW e, NEW answer \in LlmAnswers,
         Classification(cs, e, answer) = "pass", NEW c \in cs
  PROVE  EvaluateConstraint(c, e, answer) = "pass"
<1> DEFINE results == {EvaluateConstraint(k, e, answer) : k \in cs}
<1>1. "raises" \notin results /\ DetermineOverall(results) = "pass"
  BY DEF Classification
<1>2. results \cap {"fail", "unclassifiable", "inconclusive"} = {}
  BY <1>1 DEF DetermineOverall
<1>3. EvaluateConstraint(c, e, answer) \in results
  OBVIOUS
<1> QED
  BY <1>1, <1>2, <1>3, ConstraintResults

LEMMA AskedOutcome ==
  ASSUME NEW c, AsksOutcome(c), NEW e, Evaluate(c.asserts, e) = "pass"
  PROVE  e["outcome"] = Passed
<1>1. c.asserts.value \in Texts /\ c.asserts.value \notin BOOLEAN
  BY JudgementAssumption, EvidenceAssumption DEF AsksOutcome
<1>2. Passes(c.asserts, e[c.asserts.field])
  BY DEF Evaluate
<1> QED
  BY <1>1, <1>2 DEF Passes, AsksOutcome

\* Without an override the tier is available, and a tier below the chosen one is
\* nano for want of the others (_apply_fallback).
LEMMA Routed ==
  ASSUME NEW w, NEW answer \in Classifiers, NEW reason,
         NEW available \in Substrates,
         NEW tier, tier = Route(w, answer, "none", reason, available),
         NEW chosen, chosen = ClassifyWorkload(w, answer)
  PROVE  /\ tier \in Tiers
         /\ TierSubstrateMap[tier] \in available
         /\ Level[tier] < Level[chosen] =>
              /\ tier = "nano"
              /\ \A t \in Tiers : Level[t] >= Level[chosen] =>
                   TierSubstrateMap[t] \notin available
<1>1. RuleBasedClassify(w) \in Tiers
  BY DEF RuleBasedClassify, Tiers
<1>2. chosen \in Tiers
  BY <1>1 DEF ClassifyWorkload, Tiers, TierEscalation
<1>3. "cpu" \in available
  BY DEF Substrates
<1>4. tier = IF TierSubstrateMap[chosen] \in available THEN chosen
             ELSE ApplyFallback(chosen, available)
  BY DEF Route
<1>5. CASE chosen = "nano"
  BY <1>3, <1>4, <1>5 DEF Tiers, Level, TierSubstrateMap, TierEscalation, ApplyFallback
<1>6. CASE chosen = "micro"
  BY <1>3, <1>4, <1>6 DEF Tiers, Level, TierSubstrateMap, TierEscalation, ApplyFallback
<1>7. CASE chosen = "macro"
  BY <1>3, <1>4, <1>7 DEF Tiers, Level, TierSubstrateMap, TierEscalation, ApplyFallback
<1> QED
  BY <1>2, <1>5, <1>6, <1>7 DEF Tiers

\* One score shortens the horizon or leaves it (adjust_horizon).
LEMMA OneScore ==
  ASSUME NEW score \in Int, NEW requested \in Int,
         NEW horizon, horizon = AdjustHorizon(<<score>>, Capped(requested))
  PROVE  /\ horizon \in {Capped(requested), Floor(Capped(requested) - 1)}
         /\ horizon < 1 => requested < 0
<1>1. ~ Sustained(<<score>>)
  BY DEF Sustained
<1>2. horizon \in {Capped(requested), Floor(Capped(requested) - 1)}
  BY <1>1 DEF AdjustHorizon
<1>3. Capped(requested) \in Int /\ (Capped(requested) < 1 => requested < 0)
  BY DecisionsAssumption DEF Capped, Ceiling
<1>4. Floor(Capped(requested) - 1) >= 1
  BY <1>3 DEF Floor
<1>5. CASE horizon = Capped(requested)
  BY <1>2, <1>3, <1>5
<1>6. CASE horizon = Floor(Capped(requested) - 1)
  <2>1. ~ (horizon < 1)
    <3>1. Floor(Capped(requested) - 1) \in Int
      BY <1>3 DEF Floor
    <3> QED
      BY <1>4, <1>6, <3>1
  <2> QED
    BY <1>2, <2>1
<1> QED
  BY <1>2, <1>5, <1>6

\* No candidate is attempted by the executor; a forced one may be rolled back.
LEMMA CandidateNotTaken ==
  ASSUME NEW objective, NEW force \in BOOLEAN, NEW usable \in BOOLEAN,
         NEW captured \in BOOLEAN,
         NEW end, end = Execution(Candidate(objective), force, usable, captured)
  PROVE  /\ end # "attempted"
         /\ end = "rolled_back" =>
              /\ force /\ captured
              /\ usable => Candidate(objective).action_type # "no_action"
  BY DEF Execution, Fails, Candidate, Confident, Needed

-----------------------------------------------------------------------------
(***************************************************************************)
(* The score of an answer (measure.py). Its sum is a recursive function;   *)
(* what holds of it is shown by induction over sets of numbers: of those   *)
(* for which a claim fails there would be a least one.                     *)
(***************************************************************************)
\* A nonempty set of numbers has a least one.
LEMMA LeastNat ==
  ASSUME NEW T, T \subseteq Nat, T # {}
  PROVE  \E x \in T : \A y \in T : x <= y
<1> DEFINE R == {p \in Nat \X Nat : p[1] < p[2]}
<1>1. OpToRel(<, Nat) = R
  BY DEF OpToRel
<1>2. IsWellFoundedOn(R, Nat)
  BY <1>1, NatLessThanWellFounded
<1> HIDE DEF R
<1>3. PICK x \in T : \A y \in T : ~ (<<y, x>> \in R)
  BY <1>2, WFMin
<1>4. \A y \in T : y < x => <<y, x>> \in R
  BY SMT DEF R
<1>5. \A y \in T : ~ (y < x)
  BY <1>3, <1>4, Zenon
<1>6. \A y \in T : x <= y
  BY <1>5
<1> QED
  BY <1>6

\* Induction up to n, with a set for the predicate.
LEMMA UpTo ==
  ASSUME NEW n \in Nat, NEW G, 0 \in G, \A k \in 1 .. n : k - 1 \in G => k \in G
  PROVE  n \in G
<1> DEFINE Bad == {k \in 0 .. n : k \notin G}
<1>1. ASSUME Bad # {}
      PROVE  FALSE
  <2>1. Bad \subseteq Nat
    OBVIOUS
  <2> HIDE DEF Bad
  <2>2. PICK k \in Bad : \A j \in Bad : k <= j
    BY <1>1, <2>1, LeastNat
  <2>3. k \in 0 .. n /\ k \notin G
    BY DEF Bad
  <2>4. k \in 1 .. n
    BY <2>3
  <2>5. k - 1 \in Bad
    BY <2>3, <2>4 DEF Bad
  <2> QED
    BY <2>2, <2>4, <2>5
<1> QED
  BY <1>1

\* The assignments of partial sums that are right up to k.
SumsUpTo(scores, n, k) ==
  {f \in [0 .. n -> Int] : f[0] = 0 /\ \A j \in 1 .. k : f[j] = f[j - 1] + scores[j]}

\* The partial sums of a sequence exist.
LEMMA SumsExist ==
  ASSUME NEW n \in Nat, NEW scores \in [1 .. n -> Int]
  PROVE  SumsUpTo(scores, n, n) # {}
<1> DEFINE G == {k \in 0 .. n : SumsUpTo(scores, n, k) # {}}
<1>1. 0 \in G
  <2>1. [j \in 0 .. n |-> 0] \in SumsUpTo(scores, n, 0)
    BY DEF SumsUpTo
  <2> QED
    BY <2>1
<1>2. ASSUME NEW k \in 1 .. n, k - 1 \in G
      PROVE  k \in G
  <2>1. PICK f : f \in SumsUpTo(scores, n, k - 1)
    BY <1>2
  <2>2. f \in [0 .. n -> Int] /\ f[0] = 0 /\ \A j \in 1 .. k - 1 : f[j] = f[j - 1] + scores[j]
    BY <2>1 DEF SumsUpTo
  <2> DEFINE g == [f EXCEPT ![k] = f[k - 1] + scores[k]]
  <2>3. g \in [0 .. n -> Int] /\ g[0] = 0
    BY <2>2
  <2>4. \A j \in 1 .. k : g[j] = g[j - 1] + scores[j]
    BY <2>2
  <2>5. g \in SumsUpTo(scores, n, k)
    BY <2>3, <2>4 DEF SumsUpTo
  <2> QED
    BY <2>5
<1> HIDE DEF G
<1>3. n \in G
  BY <1>1, <1>2, UpTo
<1> QED
  BY <1>3 DEF G

\* What the sum of a sequence is: the last of its partial sums.
LEMMA TotalIsLast ==
  ASSUME NEW n \in Nat, NEW scores \in [1 .. n -> Int], Len(scores) = n
  PROVE  \E f \in SumsUpTo(scores, n, n) : Total(scores) = f[n]
<1> DEFINE F(f) == [k \in 0 .. n |-> IF k = 0 THEN 0 ELSE f[k - 1] + scores[k]]
           sum == CHOOSE f : f = F(f)
<1>1. Total(scores) = sum[n]
  BY DEF Total
<1>2. \E f : f = F(f)
  <2>1. PICK f : f \in SumsUpTo(scores, n, n)
    BY SumsExist
  <2>2. f = F(f)
    BY <2>1 DEF SumsUpTo
  <2> QED
    BY <2>2
<1>3. sum = F(sum)
  BY <1>2
<1> HIDE DEF sum
<1>4. sum[0] = 0 /\ \A j \in 1 .. n : sum[j] = sum[j - 1] + scores[j]
  BY <1>3
<1>5. sum = [k \in 0 .. n |-> sum[k]]
  BY <1>3
<1>6. \A k \in 0 .. n : sum[k] \in Int
  <2> DEFINE G == {k \in 0 .. n : \A j \in 0 .. k : sum[j] \in Int}
  <2>1. 0 \in G
    BY <1>4
  <2>2. ASSUME NEW k \in 1 .. n, k - 1 \in G
        PROVE  k \in G
    <3>1. \A j \in 0 .. k - 1 : sum[j] \in Int
      BY <2>2
    <3>2. scores[k] \in Int /\ sum[k - 1] \in Int /\ sum[k] = sum[k - 1] + scores[k]
      BY <1>4, <3>1
    <3>3. sum[k] \in Int
      BY <3>2
    <3> QED
      BY <3>1, <3>3
  <2> HIDE DEF G
  <2>3. n \in G
    BY <2>1, <2>2, UpTo
  <2> QED
    BY <2>3 DEF G
<1> QED
  BY <1>1, <1>4, <1>5, <1>6 DEF SumsUpTo

\* A finite set of integers that is not empty has a greatest.
LEMMA TopIsGreatest ==
  ASSUME NEW token, IsFiniteSet(token), token \subseteq Int, token # {}
  PROVE  Top(token) \in token /\ \A m \in token : m <= Top(token)
<1>1. PICK n \in Nat : ExistsSurjection(1 .. n, token)
  BY FS_NatSurjection
<1>2. PICK f \in Surjection(1 .. n, token) : TRUE
  BY <1>1 DEF ExistsSurjection
<1>3. f \in [1 .. n -> token] /\ \A m \in token : \E i \in 1 .. n : f[i] = m
  BY <1>2 DEF Surjection
<1>4. n # 0
  <2>1. PICK m \in token : TRUE
    OBVIOUS
  <2>2. PICK i \in 1 .. n : f[i] = m
    BY <1>3, <2>1
  <2> QED
    BY <2>2
<1> DEFINE G == {k \in 0 .. n : k = 0 \/ \E l \in token : \A i \in 1 .. k : f[i] <= l}
<1>5. 0 \in G
  OBVIOUS
<1>6. ASSUME NEW k \in 1 .. n, k - 1 \in G
      PROVE  k \in G
  <2>1. f[k] \in token /\ f[k] \in Int
    BY <1>3
  <2>2. CASE k = 1
    BY <2>1, <2>2
  <2>3. CASE k # 1
    <3>1. PICK l \in token : \A i \in 1 .. k - 1 : f[i] <= l
      BY <1>6, <2>3
    <3>2. l \in Int /\ \A i \in 1 .. k - 1 : i \in 1 .. n /\ f[i] \in token /\ f[i] \in Int
      <4>1. \A i \in 1 .. k - 1 : i \in 1 .. n
        OBVIOUS
      <4>2. \A i \in 1 .. n : f[i] \in token /\ f[i] \in Int
        BY <1>3
      <4> QED
        BY <4>1, <4>2
    <3>3. CASE f[k] <= l
      BY <3>1, <3>3
    <3>4. CASE ~ (f[k] <= l)
      <4>1. \A i \in 1 .. k : f[i] <= f[k]
        BY <2>1, <3>1, <3>2, <3>4
      <4> QED
        BY <2>1, <4>1
    <3> QED
      BY <3>3, <3>4
  <2> QED
    BY <2>2, <2>3
<1> HIDE DEF G
<1>7. n \in G
  BY <1>5, <1>6, UpTo
<1>8. \E l \in token : \A m \in token : m <= l
  <2>1. PICK l \in token : \A i \in 1 .. n : f[i] <= l
    BY <1>4, <1>7 DEF G
  <2> QED
    BY <1>3, <2>1
<1> QED
  BY <1>8 DEF Top
\* Multiples and quotients.
LEMMA Distribute == \A b \in Int, c \in Int : b * (c + 1) = b * c + b /\ b * 0 = 0
OBVIOUS

LEMMA Commute == \A b \in Int, c \in Int : b * c = c * b /\ b * c \in Int
OBVIOUS

LEMMA Cancel ==
  ASSUME NEW q \in Int, NEW b \in Int, NEW c \in Nat \ {0}, q < b
  PROVE  c * q + c <= c * b
OBVIOUS

LEMMA Quotient ==
  \A t \in Int, c \in Nat \ {0} :
    t \div c \in Int /\ c * (t \div c) <= t /\ t < c * (t \div c) + c
OBVIOUS

LEMMA DivLow ==
  ASSUME NEW t \in Int, NEW c \in Nat \ {0}, NEW b \in Int, b * c <= t
  PROVE  b <= t \div c
<1> DEFINE q == t \div c
<1>1. q \in Int /\ t < c * q + c
  BY Quotient
<1>2. c * b <= t
  BY Commute
<1> HIDE DEF q
<1>3. c * q \in Int /\ c * b \in Int
  BY <1>1
<1>4. q < b => FALSE
  BY <1>1, <1>2, <1>3, Cancel
<1>5. b <= q
  BY <1>1, <1>4
<1> QED
  BY <1>5 DEF q

LEMMA DivHigh ==
  ASSUME NEW t \in Int, NEW c \in Nat \ {0}, NEW b \in Int, t < b * c + c
  PROVE  t \div c <= b
<1> DEFINE q == t \div c
<1>1. q \in Int /\ c * q <= t
  BY Quotient
<1>2. t < c * b + c
  BY Commute
<1> HIDE DEF q
<1>3. c * q \in Int /\ c * b \in Int
  BY <1>1
<1>4. b < q => FALSE
  BY <1>1, <1>2, <1>3, Cancel
<1>5. q <= b
  BY <1>1, <1>4
<1> QED
  BY <1>5 DEF q

LEMMA Twice == \A b \in Int, c \in Int : b * (2 * c) = 2 * (b * c)
OBVIOUS

\* A mean that is not below (above) an integer is not when it is rounded.
LEMMA Rounding ==
  ASSUME NEW t \in Int, NEW c \in Nat \ {0}, NEW b \in Int
  PROVE  /\ Rounded(t, c) \in Int
         /\ b * c <= t => b <= Rounded(t, c)
         /\ t <= b * c => Rounded(t, c) <= b
<1> DEFINE u == 2 * t + c
           d == 2 * c
           m == b * c
<1>1. u \in Int /\ d \in Nat \ {0} /\ m \in Int
  BY Commute
<1>2. b * d = 2 * m
  BY Twice
<1>3. Rounded(t, c) = u \div d
  BY DEF Rounded
<1> HIDE DEF m
<1>4. m <= t => 2 * m <= u
  BY <1>1
<1>5. t <= m => u < 2 * m + d
  BY <1>1
<1> HIDE DEF u, d
<1>6. m <= t => b <= u \div d
  BY <1>1, <1>2, <1>4, DivLow
<1>7. t <= m => u \div d <= b
  BY <1>1, <1>2, <1>5, DivHigh
<1>8. u \div d \in Int
  BY <1>1, Quotient
<1> QED
  BY <1>3, <1>6, <1>7, <1>8 DEF m

\* Tokens as the LLM service returns them.
TokenSets(tokens) ==
  tokens \in Seq(SUBSET Int) /\ \A i \in DOMAIN tokens : IsFiniteSet(tokens[i])

LEMMA TopsType ==
  ASSUME NEW tokens, TokenSets(tokens)
  PROVE  /\ Len(tokens) \in Nat /\ DOMAIN tokens = 1 .. Len(tokens)
         /\ Tops(tokens) \in [1 .. Len(tokens) -> Int] /\ Len(Tops(tokens)) = Len(tokens)
         /\ \A i \in ExtractLogprobs(tokens) : Top(tokens[i]) \in Int
<1>1. Len(tokens) \in Nat /\ DOMAIN tokens = 1 .. Len(tokens)
  BY DEF TokenSets
<1>2. \A i \in 1 .. Len(tokens) : tokens[i] # {} => Top(tokens[i]) \in Int
  BY <1>1, TopIsGreatest DEF TokenSets
<1>3. Tops(tokens) \in [1 .. Len(tokens) -> Int]
  BY <1>2 DEF Tops
<1>4. Len(Tops(tokens)) = Len(tokens)
  BY <1>1 DEF Tops
<1> QED
  BY <1>1, <1>2, <1>3, <1>4 DEF ExtractLogprobs

\* How many of the first k tokens have logprobs.
Heard(tokens, k) == {i \in 1 .. k : tokens[i] # {}}

LEMMA HeardMore ==
  ASSUME NEW tokens, NEW k \in Nat \ {0}
  PROVE  /\ IsFiniteSet(Heard(tokens, k)) /\ Cardinality(Heard(tokens, k)) \in Nat
         /\ Cardinality(Heard(tokens, k)) =
              IF tokens[k] = {} THEN Cardinality(Heard(tokens, k - 1))
                                ELSE Cardinality(Heard(tokens, k - 1)) + 1
<1>1. \A j \in Nat : IsFiniteSet(Heard(tokens, j))
  <2> SUFFICES ASSUME NEW j \in Nat
               PROVE  IsFiniteSet(Heard(tokens, j))
    OBVIOUS
  <2>1. IsFiniteSet(1 .. j)
    BY FS_Interval
  <2>2. Heard(tokens, j) \in SUBSET (1 .. j)
    BY DEF Heard
  <2> QED
    BY <2>1, <2>2, FS_Subset
<1>2. k - 1 \in Nat /\ k \notin Heard(tokens, k - 1)
  BY DEF Heard
<1>3. Heard(tokens, k) = IF tokens[k] = {} THEN Heard(tokens, k - 1)
                                           ELSE Heard(tokens, k - 1) \cup {k}
  BY DEF Heard
<1>4. IsFiniteSet(Heard(tokens, k)) /\ IsFiniteSet(Heard(tokens, k - 1))
  BY <1>1, <1>2
<1> QED
  BY <1>2, <1>3, <1>4, FS_CardinalityType, FS_AddElement

LEMMA HeardAll ==
  ASSUME NEW tokens, TokenSets(tokens)
  PROVE  /\ Heard(tokens, Len(tokens)) = ExtractLogprobs(tokens)
         /\ IsFiniteSet(ExtractLogprobs(tokens))
         /\ ExtractLogprobs(tokens) # {} => Cardinality(ExtractLogprobs(tokens)) \in Nat \ {0}
<1>1. Len(tokens) \in Nat /\ DOMAIN tokens = 1 .. Len(tokens)
  BY TopsType
<1>2. Heard(tokens, Len(tokens)) = ExtractLogprobs(tokens)
  BY <1>1 DEF Heard, ExtractLogprobs
<1>3. IsFiniteSet(1 .. Len(tokens))
  BY <1>1, FS_Interval
<1>4. ExtractLogprobs(tokens) \in SUBSET (1 .. Len(tokens))
  BY <1>1 DEF ExtractLogprobs
<1>5. IsFiniteSet(ExtractLogprobs(tokens))
  BY <1>3, <1>4, FS_Subset
<1> QED
  BY <1>2, <1>5, FS_CardinalityType, FS_EmptySet

\* The sum of the best logprobs is at least (at most) what it would be if each
\* of them were b.
LEMMA TotalBounds ==
  ASSUME NEW tokens, TokenSets(tokens), NEW b \in Int
  PROVE  /\ Total(Tops(tokens)) \in Int
         /\ (\A i \in ExtractLogprobs(tokens) : b <= Top(tokens[i])) =>
              b * Cardinality(ExtractLogprobs(tokens)) <= Total(Tops(tokens))
         /\ (\A i \in ExtractLogprobs(tokens) : Top(tokens[i]) <= b) =>
              Total(Tops(tokens)) <= b * Cardinality(ExtractLogprobs(tokens))
<1> DEFINE n == Len(tokens)
           count(k) == Cardinality(Heard(tokens, k))
<1>1. n \in Nat /\ Tops(tokens) \in [1 .. n -> Int] /\ Len(Tops(tokens)) = n
  BY TopsType
<1>2. PICK f \in SumsUpTo(Tops(tokens), n, n) : Total(Tops(tokens)) = f[n]
  BY <1>1, TotalIsLast
<1>3. /\ f \in [0 .. n -> Int] /\ f[0] = 0
      /\ \A k \in 1 .. n : f[k] = f[k - 1] + Tops(tokens)[k]
  BY <1>2 DEF SumsUpTo
<1>4. count(0) = 0
  <2>1. Heard(tokens, 0) = {}
    BY DEF Heard
  <2> QED
    BY <2>1, FS_EmptySet
<1>5. \A k \in 1 .. n : /\ count(k) \in Nat
                        /\ count(k) = IF tokens[k] = {} THEN count(k - 1) ELSE count(k - 1) + 1
  <2> SUFFICES ASSUME NEW k \in 1 .. n
               PROVE  /\ count(k) \in Nat
                      /\ count(k) = IF tokens[k] = {} THEN count(k - 1) ELSE count(k - 1) + 1
    OBVIOUS
  <2>1. k \in Nat \ {0}
    BY <1>1
  <2> QED
    BY <2>1, HeardMore
<1>6. \A k \in 0 .. n : count(k) \in Nat
  BY <1>4, <1>5
<1>7. \A k \in 1 .. n : Tops(tokens)[k] = IF tokens[k] = {} THEN 0 ELSE Top(tokens[k])
  BY DEF Tops
<1>8. \A k \in 1 .. n : tokens[k] # {} => k \in ExtractLogprobs(tokens)
  BY TopsType DEF ExtractLogprobs
<1> HIDE DEF n, count
<1>9. ASSUME \A i \in ExtractLogprobs(tokens) : b <= Top(tokens[i])
      PROVE  b * count(n) <= f[n]
  <2> DEFINE G == {k \in 0 .. n : b * count(k) <= f[k]}
  <2>1. 0 \in G
    BY <1>1, <1>3, <1>4
  <2>2. ASSUME NEW k \in 1 .. n, k - 1 \in G
        PROVE  k \in G
    <3>1. f[k - 1] \in Int /\ f[k] = f[k - 1] + Tops(tokens)[k] /\ Tops(tokens)[k] \in Int
      BY <1>1, <1>3
    <3>2. count(k - 1) \in Int /\ b * count(k - 1) <= f[k - 1]
      BY <1>6, <2>2
    <3>3. CASE tokens[k] = {}
      BY <1>5, <1>7, <3>1, <3>2, <3>3
    <3>4. CASE tokens[k] # {}
      <4>1. b <= Tops(tokens)[k]
        BY <1>7, <1>8, <1>9, <3>4
      <4>2. count(k) = count(k - 1) + 1
        BY <1>5, <3>4
      <4>3. b * count(k) = b * count(k - 1) + b /\ b * count(k - 1) \in Int
        BY <3>2, <4>2, Distribute, Commute
      <4> QED
        BY <3>1, <3>2, <4>1, <4>3
    <3> QED
      BY <3>3, <3>4
  <2> HIDE DEF G
  <2>3. n \in G
    BY <1>1, <2>1, <2>2, UpTo
  <2> QED
    BY <2>3 DEF G
<1>10. ASSUME \A i \in ExtractLogprobs(tokens) : Top(tokens[i]) <= b
       PROVE  f[n] <= b * count(n)
  <2> DEFINE G == {k \in 0 .. n : f[k] <= b * count(k)}
  <2>1. 0 \in G
    BY <1>1, <1>3, <1>4
  <2>2. ASSUME NEW k \in 1 .. n, k - 1 \in G
        PROVE  k \in G
    <3>1. f[k - 1] \in Int /\ f[k] = f[k - 1] + Tops(tokens)[k] /\ Tops(tokens)[k] \in Int
      BY <1>1, <1>3
    <3>2. count(k - 1) \in Int /\ f[k - 1] <= b * count(k - 1)
      BY <1>6, <2>2
    <3>3. CASE tokens[k] = {}
      BY <1>5, <1>7, <3>1, <3>2, <3>3
    <3>4. CASE tokens[k] # {}
      <4>1. Tops(tokens)[k] <= b
        BY <1>7, <1>8, <1>10, <3>4
      <4>2. count(k) = count(k - 1) + 1
        BY <1>5, <3>4
      <4>3. b * count(k) = b * count(k - 1) + b /\ b * count(k - 1) \in Int
        BY <3>2, <4>2, Distribute, Commute
      <4> QED
        BY <3>1, <3>2, <4>1, <4>3
    <3> QED
      BY <3>3, <3>4
  <2> HIDE DEF G
  <2>3. n \in G
    BY <1>1, <2>1, <2>2, UpTo
  <2> QED
    BY <2>3 DEF G
<1>11. count(n) = Cardinality(ExtractLogprobs(tokens)) /\ f[n] \in Int
  BY <1>1, <1>3, HeardAll DEF n, count
<1> QED
  BY <1>2, <1>9, <1>10, <1>11

\* A score of one is not unfolded where its size does not matter: it is a number
\* too large for the provers to count to.
LEMMA Scale == One \in Nat \ {0} /\ Half \in 0 .. One
  BY DEF One, Half

\* The score of an answer is between 0 and One. It is at least the gate when each
\* token that is heard is as certain as that, below it when none is, and
\* Half when none is heard.
LEMMA Score ==
  ASSUME NEW tokens, TokenSets(tokens)
  PROVE  /\ ComputeStabilityScore(tokens) \in 0 .. One
         /\ ExtractLogprobs(tokens) = {} => ComputeStabilityScore(tokens) = Half
         /\ \A g \in 1 .. One :
              ExtractLogprobs(tokens) # {} =>
                /\ (\A i \in ExtractLogprobs(tokens) : g <= One + Top(tokens[i])) =>
                     g <= ComputeStabilityScore(tokens)
                /\ (\A i \in ExtractLogprobs(tokens) : One + Top(tokens[i]) < g) =>
                     ComputeStabilityScore(tokens) < g
<1> DEFINE t == Total(Tops(tokens))
           c == Cardinality(ExtractLogprobs(tokens))
<1>1. CASE ExtractLogprobs(tokens) = {}
  BY <1>1, Scale DEF ComputeStabilityScore
<1>2. CASE ExtractLogprobs(tokens) # {}
  <2>1. t \in Int /\ c \in Nat \ {0}
    BY <1>2, TotalBounds, HeardAll
  <2>2. ComputeStabilityScore(tokens) = NormalizeScore(One + Rounded(t, c))
    BY <1>2 DEF ComputeStabilityScore
  <2>3. Rounded(t, c) \in Int
    BY <2>1, Rounding
  <2>4. ASSUME NEW g \in 1 .. One, \A i \in ExtractLogprobs(tokens) : g <= One + Top(tokens[i])
        PROVE  g - One <= Rounded(t, c)
    <3>1. g - One \in Int /\ \A i \in ExtractLogprobs(tokens) : g - One <= Top(tokens[i])
      BY <2>4, TopsType, Scale
    <3>2. (g - One) * c <= t
      BY <3>1, TotalBounds
    <3> HIDE DEF t, c
    <3> QED
      BY <2>1, <3>1, <3>2, Rounding
  <2>5. ASSUME NEW g \in 1 .. One, \A i \in ExtractLogprobs(tokens) : One + Top(tokens[i]) < g
        PROVE  Rounded(t, c) <= g - One - 1
    <3>1. g - One - 1 \in Int /\ \A i \in ExtractLogprobs(tokens) : Top(tokens[i]) <= g - One - 1
      BY <2>5, TopsType, Scale
    <3>2. t <= (g - One - 1) * c
      BY <3>1, TotalBounds
    <3> HIDE DEF t, c
    <3> QED
      BY <2>1, <3>1, <3>2, Rounding
  <2> HIDE DEF t, c
  <2>6. ComputeStabilityScore(tokens) \in 0 .. One
    BY <2>2, <2>3, Scale DEF NormalizeScore
  <2>7. \A g \in 1 .. One : g - One <= Rounded(t, c) => g <= ComputeStabilityScore(tokens)
    BY <2>2, <2>3, Scale DEF NormalizeScore
  <2>8. \A g \in 1 .. One : Rounded(t, c) <= g - One - 1 => ComputeStabilityScore(tokens) < g
    BY <2>2, <2>3, Scale DEF NormalizeScore
  <2> QED
    BY <1>2, <2>4, <2>5, <2>6, <2>7, <2>8
<1> QED
  BY <1>1, <1>2

-----------------------------------------------------------------------------
(***************************************************************************)
(* The invariant.                                                          *)
(***************************************************************************)

\* A field that no criterion has replaced is the event's own.
Kept == "outcome" \notin replaced => evidence["outcome"] = event.outcome

\* Nothing is classified, and no answer is there, before its phase.
Fresh ==
  /\ pc = "gathering" => overall = "none"
  /\ pc \in {"gathering", "generating", "asking"} =>
       measured = NoAnswer /\ reply = NoReply /\ parsed = {}

IInv ==
  /\ TypeOK /\ Kept /\ Fresh
  /\ PassEarned /\ GateAgrees /\ ParseExplained
  /\ RouteExplained /\ PlanExplained /\ RecommendationsNotTaken

\* What a classification that passes has found.
LEMMA ClassifiedPass ==
  ASSUME event \in Events, Kept, NEW answer \in LlmAnswers,
         Classification(ConstraintsOf[MapStage], evidence, answer) = "pass"
  PROVE  /\ \A c \in ConstraintsOf[MapStage] :
              c.asserts.type \in SubTypes => Given(evidence, c.asserts.field)
         /\ \/ event.outcome = Passed \/ "outcome" \in replaced
            \/ \A c \in ConstraintsOf[MapStage] : ~ AsksOutcome(c)
<1>1. ASSUME NEW c \in ConstraintsOf[MapStage], c.asserts.type \in SubTypes
      PROVE  Evaluate(c.asserts, evidence) = "pass"
  <2>1. EvaluateConstraint(c, evidence, answer) = "pass"
    BY AllPass
  <2> QED
    BY <1>1, <2>1 DEF EvaluateConstraint
<1>2. ASSUME NEW c \in ConstraintsOf[MapStage], c.asserts.type \in SubTypes
      PROVE  Given(evidence, c.asserts.field)
  BY <1>1, <1>2 DEF Evaluate
<1>3. ASSUME NEW c \in ConstraintsOf[MapStage], AsksOutcome(c)
      PROVE  event.outcome = Passed \/ "outcome" \in replaced
  <2>1. Evaluate(c.asserts, evidence) = "pass"
    BY <1>1, <1>3 DEF AsksOutcome, SubTypes
  <2>2. evidence["outcome"] = Passed
    BY <1>3, <2>1, AskedOutcome
  <2> QED
    BY <2>2 DEF Kept
<1> QED
  BY <1>2, <1>3

LEMMA ClassificationResults ==
  ASSUME NEW cs, NEW e, NEW answer
  PROVE  Classification(cs, e, answer) \in
           {"none", "pass", "fail", "inconclusive", "unclassifiable"}
  BY DEF Classification, DetermineOverall

LEMMA Initial == Init => IInv
<1> SUFFICES ASSUME Init PROVE IInv
  OBVIOUS
<1>1. TypeOK
  <2>1. event \in Events /\ event.outcome \in Values /\ event.failure_class \in Values
    BY JudgementAssumption DEF Init
  <2>2. evidence \in [Fields -> Values \cup {Null, Absent}]
    BY <2>1 DEF Init
  <2>3. threshold \in 0 .. One /\ gate \in 0 .. One
    BY DecisionsAssumption, Scale DEF Init
  <2>4. measured.state = "none" /\ routing.tier = "none"
    BY DEF Init, NoAnswer, NoRouting
  <2> QED
    BY <2>1, <2>2, <2>3, <2>4 DEF Init, TypeOK
<1>2. Kept
  <2>1. "outcome" \in Fields
    BY JudgementAssumption
  <2> QED
    BY <2>1 DEF Init, Kept
<1>3. Fresh
  BY DEF Init, Fresh
<1>4. PassEarned
  BY DEF Init, PassEarned
<1>5. GateAgrees
  BY DEF Init, GateAgrees, NoAnswer, Stable
<1>6. ParseExplained
  <2>1. Objects(NoReply.items) = {} /\ Unreadable(NoReply.items) = {}
    BY DEF NoReply, Objects, Unreadable
  <2> QED
    BY <2>1, RepliesAssumption DEF Init, ParseExplained
<1>7. RouteExplained
  BY DEF Init, RouteExplained, NoRouting, Tiers
<1>8. PlanExplained
  BY DEF Init, PlanExplained
<1>9. RecommendationsNotTaken
  <2>1. plan.action = << >>
    BY DEF Init, NoPlan
  <2> QED
    BY <2>1 DEF RecommendationsNotTaken
<1> QED
  BY <1>1, <1>2, <1>3, <1>4, <1>5, <1>6, <1>7, <1>8, <1>9 DEF IInv

-----------------------------------------------------------------------------
(***************************************************************************)
(* The phases keep what the others have left.                              *)
(***************************************************************************)
Answered == GateAgrees /\ ParseExplained

LEMMA AnsweredKept ==
  ASSUME Answered, UNCHANGED generation
  PROVE  Answered'
<1>1. GateAgrees'
  BY DEF Answered, GateAgrees, generation
<1>2. ParseExplained'
  BY DEF Answered, ParseExplained, generation
<1> QED
  BY <1>1, <1>2 DEF Answered

LEMMA RouteKept ==
  ASSUME RouteExplained, UNCHANGED routing
  PROVE  RouteExplained'
  BY DEF RouteExplained, Chosen

LEMMA PlanKept ==
  ASSUME PlanExplained, RecommendationsNotTaken, UNCHANGED plan
  PROVE  PlanExplained' /\ RecommendationsNotTaken'
  BY DEF PlanExplained, RecommendationsNotTaken

LEMMA EvidenceKept ==
  ASSUME Kept, PassEarned, UNCHANGED <<event, evidence, replaced, overall>>
  PROVE  Kept' /\ PassEarned'
<1>1. MapStage' = MapStage
  BY DEF MapStage
<1>2. Kept'
  BY DEF Kept
<1>3. PassEarned'
  BY <1>1 DEF PassEarned, AsksOutcome
<1> QED
  BY <1>2, <1>3

-----------------------------------------------------------------------------
(***************************************************************************)
(* The steps.                                                              *)
(***************************************************************************)
LEMMA CriterionStep ==
  ASSUME IInv, NEW f \in Fields \ {"cross_system"}, NEW v \in Values \cup {Null},
         Criterion(f, v)
  PROVE  IInv'
<1> USE DEF Criterion
<1>1. TypeOK'
  BY DEF IInv, TypeOK, generation
<1>2. Kept'
  <2>1. evidence \in [Fields -> Values \cup {Null, Absent}]
    BY DEF IInv, TypeOK
  <2> QED
    BY <2>1 DEF IInv, Kept
<1>3. Fresh'
  BY DEF IInv, Fresh, generation
<1>4. PassEarned'
  BY DEF IInv, Fresh, PassEarned
<1>5. Answered'
  BY AnsweredKept DEF IInv, Answered
<1> QED
  BY <1>1, <1>2, <1>3, <1>4, <1>5, RouteKept, PlanKept DEF IInv, Answered

LEMMA ClassifyStep ==
  ASSUME IInv, Classify
  PROVE  IInv'
<1>1. PICK answer \in LlmAnswers :
        overall' = Classification(ConstraintsOf[MapStage], evidence, answer)
  BY DEF Classify
<1>2. UNCHANGED <<event, evidence, replaced, threshold, generation, routing, plan>>
  BY DEF Classify
<1>3. pc = "gathering" /\ pc' \in {"generating", "done"}
  BY DEF Classify
<1>4. TypeOK'
  <2>1. overall' \in {"none", "pass", "fail", "inconclusive", "unclassifiable"}
    BY <1>1, ClassificationResults
  <2> QED
    BY <1>2, <1>3, <2>1 DEF IInv, TypeOK, generation
<1>5. Kept'
  BY <1>2 DEF IInv, Kept
<1>6. Fresh'
  BY <1>2, <1>3 DEF IInv, Fresh, generation
<1>7. PassEarned'
  <2>1. MapStage' = MapStage
    BY <1>2 DEF MapStage
  <2>2. event \in Events /\ Kept
    BY DEF IInv, TypeOK
  <2> QED
    BY <1>1, <1>2, <2>1, <2>2, ClassifiedPass DEF PassEarned, AsksOutcome
<1>8. Answered'
  BY <1>2, AnsweredKept DEF IInv, Answered
<1> QED
  BY <1>2, <1>4, <1>5, <1>6, <1>7, <1>8, RouteKept, PlanKept DEF IInv, Answered

LEMMA SetThresholdStep ==
  ASSUME IInv, NEW t \in Thresholds, SetThreshold(t)
  PROVE  IInv'
<1>1. UNCHANGED <<event, evidence, replaced, pc, overall, generation, routing, plan>>
  BY DEF SetThreshold
<1>2. TypeOK'
  <2>1. threshold' \in 0 .. One
    BY JudgementAssumption DEF SetThreshold
  <2> QED
    BY <1>1, <2>1 DEF IInv, TypeOK, generation
<1>3. Fresh'
  BY <1>1 DEF IInv, Fresh, generation
<1>4. Answered'
  BY <1>1, AnsweredKept DEF IInv, Answered
<1> QED
  BY <1>1, <1>2, <1>3, <1>4, EvidenceKept, RouteKept, PlanKept DEF IInv, Answered

LEMMA SkipStep ==
  ASSUME IInv, Skip
  PROVE  IInv'
<1>1. UNCHANGED <<event, evidence, replaced, overall, threshold, generation, routing, plan>>
  BY DEF Skip
<1>2. TypeOK'
  BY DEF Skip, IInv, TypeOK, generation
<1>3. Fresh'
  BY DEF Skip, IInv, Fresh, generation
<1>4. Answered'
  BY <1>1, AnsweredKept DEF IInv, Answered
<1> QED
  BY <1>1, <1>2, <1>3, <1>4, EvidenceKept, RouteKept, PlanKept DEF IInv, Answered

LEMMA StartGenerationStep ==
  ASSUME IInv, NEW audited \in BOOLEAN, StartGeneration(audited)
  PROVE  IInv'
<1>1. /\ pc = "generating" /\ pc' = "asking" /\ gate' = threshold
      /\ UNCHANGED <<event, replaced, overall, threshold, measured, reply, parsed, routing, plan>>
  BY DEF StartGeneration
<1>2. evidence \in [Fields -> Values \cup {Null, Absent}]
  BY DEF IInv, TypeOK
<1>3. evidence' \in [Fields -> Values \cup {Null, Absent}]
  BY <1>2, JudgementAssumption DEF StartGeneration, Values
<1>4. evidence'["outcome"] = evidence["outcome"]
  BY <1>2, JudgementAssumption DEF StartGeneration
<1>5. \A f \in Fields : Given(evidence, f) => Given(evidence', f)
  <2>1. Enrichment \notin {Absent, Null}
    BY JudgementAssumption, EvidenceAssumption
  <2> QED
    BY <1>2, <2>1 DEF StartGeneration, Given
<1>6. TypeOK'
  BY <1>1, <1>3 DEF IInv, TypeOK
<1>7. Kept'
  BY <1>1, <1>4 DEF IInv, Kept
<1>8. Fresh'
  BY <1>1 DEF IInv, Fresh
<1>9. PassEarned'
  <2>1. MapStage' = MapStage /\ MapStage \in Stages
    BY <1>1, StageKnown DEF IInv, TypeOK, MapStage
  <2>2. \A c \in ConstraintsOf[MapStage] :
          c.asserts.type \in SubTypes => c.asserts.field \in Fields
    BY <2>1, FieldsAssumption
  <2> QED
    BY <1>1, <1>5, <2>1, <2>2 DEF IInv, PassEarned, AsksOutcome
<1>10. Answered'
  <2>1. measured = NoAnswer /\ reply = NoReply /\ parsed = {}
    BY <1>1 DEF IInv, Fresh
  <2>2. GateAgrees'
    BY <1>1, <2>1 DEF GateAgrees, NoAnswer, Stable
  <2>3. ParseExplained'
    BY <1>1 DEF IInv, ParseExplained
  <2> QED
    BY <2>2, <2>3 DEF Answered
<1> QED
  BY <1>1, <1>6, <1>7, <1>8, <1>9, <1>10, RouteKept, PlanKept DEF IInv, Answered

\* Of the confidences that are no numbers one is the first.
LEMMA NotParsed ==
  ASSUME NEW answer \in Replies, Unreadable(answer.items) # {}
  PROVE  FirstUnreadable(answer.items, "odd") \/ FirstUnreadable(answer.items, "word")
<1>1. answer.items \in Seq(Items)
  BY RepliesAssumption
<1>2. Unreadable(answer.items) \subseteq Nat
  BY <1>1 DEF Unreadable, Objects
<1>3. PICK i \in Unreadable(answer.items) : \A j \in Unreadable(answer.items) : i <= j
  BY <1>2, LeastNat
<1>4. answer.items[i] \in Items /\ answer.items[i].confidence # "number"
  BY <1>1 DEF Unreadable, Objects
<1>5. answer.items[i].confidence \in {"word", "odd"}
  BY <1>4 DEF Items
<1> QED
  BY <1>3, <1>5 DEF FirstUnreadable

LEMMA GenerateStep ==
  ASSUME IInv, NEW tokens \in Answers, NEW answer \in Replies, Generate(tokens, answer)
  PROVE  IInv'
<1> DEFINE score == ComputeStabilityScore(tokens)
<1>1. score \in 0 .. One
  BY AnswersAssumption, Score DEF TokenSets
<1>2. /\ pc = "asking" /\ pc' = "routing"
      /\ measured' = [tokens |-> tokens, gated |-> Gated(score),
                      state |-> DetermineStabilityState(score, TRUE, HypothesisThreshold)]
      /\ reply' = IF Gated(score) THEN NoReply ELSE answer
      /\ parsed' = IF Gated(score) THEN {}
                   ELSE IF ParseRaises(answer) THEN Unavailable
                   ELSE ParseHypotheses(answer.items)
      /\ UNCHANGED <<event, evidence, replaced, overall, threshold, gate, routing, plan>>
  BY DEF Generate
<1>3. gate \in 0 .. One /\ HypothesisThreshold \in 0 .. One
  BY JudgementAssumption DEF IInv, TypeOK
<1>4. measured'.state = IF score >= HypothesisThreshold
                        THEN "stable_pass" ELSE "unstable_pass"
  BY <1>2 DEF DetermineStabilityState
<1>5. measured'.gated <=> score < gate
  BY <1>2 DEF Gated
<1>6. ExtractLogprobs(measured'.tokens) = {} => score = Half
  BY <1>2, AnswersAssumption, Score DEF TokenSets
<1> HIDE DEF score
<1>7. gate' = gate /\ (parsed' \notin {{}, Unavailable} => gate <= score)
  BY <1>1, <1>2, <1>3 DEF Gated
<1>8. GateAgrees'
  <2>1. Stable(measured'.state) <=> score >= HypothesisThreshold
    BY <1>4 DEF Stable
  <2>2. ~ Stable(measured'.state) /\ parsed' \notin {{}, Unavailable} =>
          gate' < HypothesisThreshold
    BY <1>1, <1>3, <1>7, <2>1, Scale
  <2>3. measured'.gated /\ Stable(measured'.state) => gate' > HypothesisThreshold
    BY <1>1, <1>3, <1>5, <1>7, <2>1, Scale
  <2>4. parsed' \notin {{}, Unavailable} /\ ExtractLogprobs(measured'.tokens) = {} =>
          gate' <= Half
    BY <1>6, <1>7
  <2> QED
    BY <2>2, <2>3, <2>4 DEF GateAgrees, Stable
<1>9. ParseExplained'
  <2>1. CASE Gated(score)
    <3>1. reply'.items = << >> /\ parsed' = {}
      BY <1>2, <2>1 DEF NoReply
    <3>2. Objects(reply'.items) = {}
      BY <3>1 DEF Objects
    <3>3. Unreadable(reply'.items) = {}
      BY <3>2 DEF Unreadable
    <3> QED
      BY <3>1, <3>2, <3>3, RepliesAssumption DEF ParseExplained
  <2>2. CASE ~ Gated(score) /\ ParseRaises(answer)
    BY <1>2, <2>2 DEF ParseExplained, ParseRaises
  <2>3. CASE ~ Gated(score) /\ ~ ParseRaises(answer)
    <3>1. parsed' = ParseHypotheses(answer.items) /\ reply' = answer /\ ~ measured'.gated
      BY <1>2, <2>3
    <3>2. \/ parsed' = Objects(answer.items) /\ Unreadable(answer.items) = {}
          \/ parsed' = {} /\ FirstUnreadable(answer.items, "word")
      BY <2>3, <3>1, NotParsed DEF ParseHypotheses, ParseRaises
    <3>3. parsed' # Unavailable
      BY <3>2, RepliesAssumption
    <3> QED
      BY <3>1, <3>2, <3>3 DEF ParseExplained
  <2> QED
    BY <2>1, <2>2, <2>3
<1>10. TypeOK'
  <2>1. parsed' = Unavailable \/ parsed' \subseteq DOMAIN reply'.items
    BY <1>2 DEF ParseHypotheses, Objects
  <2> QED
    BY <1>2, <1>4, <2>1 DEF IInv, TypeOK
<1>11. Fresh'
  BY <1>2 DEF Fresh
<1> QED
  BY <1>2, <1>8, <1>9, <1>10, <1>11, EvidenceKept, RouteKept, PlanKept DEF IInv

LEMMA GenerateUnansweredStep ==
  ASSUME IInv, GenerateUnanswered
  PROVE  IInv'
<1>1. /\ pc = "asking" /\ pc' = "routing" /\ parsed' = Unavailable
      /\ UNCHANGED <<event, evidence, replaced, overall, threshold, gate, reply, routing, plan>>
  BY DEF GenerateUnanswered
<1>2. measured'.state = "unstable_fail" /\ ~ measured'.gated
  BY DEF GenerateUnanswered, NoAnswer
<1>3. GateAgrees'
  BY <1>1, <1>2 DEF GateAgrees
<1>4. ParseExplained'
  BY <1>1, <1>2 DEF ParseExplained
<1>5. TypeOK'
  BY <1>1, <1>2 DEF IInv, TypeOK
<1>6. Fresh'
  BY <1>1 DEF Fresh
<1> QED
  BY <1>1, <1>3, <1>4, <1>5, <1>6, EvidenceKept, RouteKept, PlanKept DEF IInv

LEMMA RouteWorkloadStep ==
  ASSUME IInv, NEW length \in Lengths, NEW answer \in Classifiers,
         NEW override \in Tiers \cup {"none"}, NEW reason \in BOOLEAN,
         NEW available \in Substrates,
         RouteWorkload(length, answer, override, reason, available)
  PROVE  IInv'
<1> DEFINE w == Workload(length)
           tier == Route(w, answer, override, reason, available)
<1>1. /\ pc = "routing" /\ pc' = "planning"
      /\ routing' = [workload |-> w, answer |-> answer, override |-> override,
                     available |-> available, tier |-> tier]
      /\ UNCHANGED <<event, evidence, replaced, overall, threshold, generation, plan>>
  BY DEF RouteWorkload
<1> HIDE DEF w
<1>2. RouteExplained'
  <2>1. CASE override = "none"
    <3>1. Chosen' = ClassifyWorkload(w, answer)
      BY <1>1 DEF Chosen
    <3>2. /\ tier \in Tiers
          /\ TierSubstrateMap[tier] \in available
          /\ Level[tier] < Level[ClassifyWorkload(w, answer)] =>
               /\ tier = "nano"
               /\ \A t \in Tiers : Level[t] >= Level[ClassifyWorkload(w, answer)] =>
                    TierSubstrateMap[t] \notin available
      BY <2>1, Routed
    <3> QED
      BY <1>1, <3>1, <3>2 DEF RouteExplained
  <2>2. CASE override # "none"
    BY <1>1, <2>2 DEF RouteExplained
  <2> QED
    BY <2>1, <2>2
<1>3. tier \in Tiers \cup {"none", "refused"}
  <2>1. CASE override = "none"
    BY <2>1, Routed
  <2>2. CASE override # "none"
    BY <2>2 DEF Route
  <2> QED
    BY <2>1, <2>2
<1>4. routing'.tier \in Tiers \cup {"none", "refused"}
  BY <1>1, <1>3
<1>5. TypeOK'
  BY <1>1, <1>4 DEF IInv, TypeOK, generation
<1>6. Fresh'
  BY <1>1 DEF Fresh
<1>7. Answered'
  BY <1>1, AnsweredKept DEF IInv, Answered
<1> QED
  BY <1>1, <1>2, <1>5, <1>6, <1>7, EvidenceKept, PlanKept DEF IInv, Answered

LEMMA PlanStep ==
  ASSUME IInv, NEW requested \in Int, NEW objective, NEW score \in Int,
         NEW predicted \in BOOLEAN, Plan(requested, objective, score, predicted)
  PROVE  IInv'
<1> DEFINE horizon == AdjustHorizon(<<score>>, Capped(requested))
<1>1. /\ pc = "planning" /\ pc' = "done"
      /\ plan' = [requested |-> requested, horizon |-> horizon, predicted |-> predicted,
                  action |-> Selected(objective, predicted)]
      /\ UNCHANGED <<event, evidence, replaced, overall, threshold, generation, routing>>
  BY DEF Plan
<1>2. /\ horizon \in {Capped(requested), Floor(Capped(requested) - 1)}
      /\ horizon < 1 => requested < 0
  BY OneScore
<1> HIDE DEF horizon
<1>3. PlanExplained'
  BY <1>1, <1>2 DEF PlanExplained, Selected
<1>4. RecommendationsNotTaken'
  <2>1. CASE predicted
    <3>1. plan'.action = <<Candidate(objective)>>
      BY <1>1, <2>1 DEF Selected
    <3> QED
      BY <3>1, CandidateNotTaken DEF RecommendationsNotTaken
  <2>2. CASE ~ predicted
    BY <1>1, <2>2 DEF Selected, RecommendationsNotTaken
  <2> QED
    BY <2>1, <2>2
<1>5. TypeOK'
  BY <1>1 DEF IInv, TypeOK, generation
<1>6. Fresh'
  BY <1>1 DEF Fresh
<1>7. Answered'
  BY <1>1, AnsweredKept DEF IInv, Answered
<1> QED
  BY <1>1, <1>3, <1>4, <1>5, <1>6, <1>7, EvidenceKept, RouteKept DEF IInv, Answered

LEMMA Stutter == ASSUME IInv, UNCHANGED vars PROVE IInv'
<1>1. UNCHANGED <<event, evidence, replaced, pc, overall, threshold, generation, routing, plan>>
  BY DEF vars
<1>2. TypeOK'
  BY <1>1 DEF IInv, TypeOK, generation
<1>3. Fresh'
  BY <1>1 DEF IInv, Fresh, generation
<1>4. Answered'
  BY <1>1, AnsweredKept DEF IInv, Answered
<1> QED
  BY <1>1, <1>2, <1>3, <1>4, EvidenceKept, RouteKept, PlanKept DEF IInv, Answered

LEMMA Inductive == IInv /\ [Next]_vars => IInv'
<1> SUFFICES ASSUME IInv, [Next]_vars PROVE IInv'
  OBVIOUS
<1>1. ASSUME NEW f \in Fields \ {"cross_system"}, NEW v \in Values \cup {Null},
             Criterion(f, v)
      PROVE  IInv'
  BY <1>1, CriterionStep
<1>2. CASE Classify
  BY <1>2, ClassifyStep
<1>3. CASE \E t \in Thresholds : SetThreshold(t)
  BY <1>3, SetThresholdStep
<1>4. CASE Skip
  BY <1>4, SkipStep
<1>5. CASE \E audited \in BOOLEAN : StartGeneration(audited)
  BY <1>5, StartGenerationStep
<1>6. CASE \E tokens \in Answers, answer \in Replies : Generate(tokens, answer)
  BY <1>6, GenerateStep
<1>7. CASE GenerateUnanswered
  BY <1>7, GenerateUnansweredStep
<1>8. ASSUME NEW length \in Lengths, NEW answer \in Classifiers,
             NEW override \in Tiers \cup {"none"}, NEW reason \in BOOLEAN,
             NEW available \in Substrates,
             RouteWorkload(length, answer, override, reason, available)
      PROVE  IInv'
  BY <1>8, RouteWorkloadStep
<1>9. ASSUME NEW requested \in {-1, 0, 1, MaxHorizon, MaxHorizon + 1},
             NEW objective \in {"scale", "remediate", "health_target"},
             NEW score \in {0, StabilityThreshold, One}, NEW predicted \in BOOLEAN,
             Plan(requested, objective, score, predicted)
      PROVE  IInv'
  <2>1. requested \in Int /\ score \in Int
    BY DecisionsAssumption, Scale
  <2> QED
    BY <1>9, <2>1, PlanStep
<1>10. CASE UNCHANGED vars
  BY <1>10, Stutter
<1> QED
  BY <1>1, <1>2, <1>3, <1>4, <1>5, <1>6, <1>7, <1>8, <1>9, <1>10 DEF Next

LEMMA Invariance == Spec => []IInv
  BY Initial, Inductive, PTL DEF Spec

-----------------------------------------------------------------------------
(***************************************************************************)
(* The theorems.                                                           *)
(***************************************************************************)

\* Every variable keeps its type; a classification has one of five results.
THEOREM Typing == Spec => []TypeOK
<1>1. IInv => TypeOK
  BY DEF IInv
<1> QED
  BY <1>1, Invariance, PTL

\* A pass of a stage has been earned (_determine_overall and the evaluators).
THEOREM PassesEarned == Spec => []PassEarned
<1>1. IInv => PassEarned
  BY DEF IInv
<1> QED
  BY <1>1, Invariance, PTL

\* The two evaluators agree in every state.
THEOREM Agreeing == Spec => []ValidatedIsPass
  BY Agreement, PTL

\* The gate of the generation and the recorded state differ only by thresholds.
THEOREM Gating == Spec => []GateAgrees
<1>1. IInv => GateAgrees
  BY DEF IInv
<1> QED
  BY <1>1, Invariance, PTL

\* What becomes of an answer (_parse_hypotheses and what it does not catch).
THEOREM Parsing == Spec => []ParseExplained
<1>1. IInv => ParseExplained
  BY DEF IInv
<1> QED
  BY <1>1, Invariance, PTL

\* A tier is available, or an override, and low only for want of substrates.
THEOREM Routing == Spec => []RouteExplained
<1>1. IInv => RouteExplained
  BY DEF IInv
<1> QED
  BY <1>1, Invariance, PTL

\* A horizon is the one asked for or one less; an action has a prediction.
THEOREM Planning == Spec => []PlanExplained
<1>1. IInv => PlanExplained
  BY DEF IInv
<1> QED
  BY <1>1, Invariance, PTL

\* What a plan recommends, execute() does not attempt; the most it does is to roll
\* a forced one back.
THEOREM NotTaken == Spec => []RecommendationsNotTaken
<1>1. IInv => RecommendationsNotTaken
  BY DEF IInv
<1> QED
  BY <1>1, Invariance, PTL

-----------------------------------------------------------------------------
(***************************************************************************)
(* What the gate looks at.                                                 *)
(***************************************************************************)

\* An answer is turned down only if one of its tokens is less certain than the
\* gate, and taken only if one is as certain as the gate (or the gate is 0);
\* where no token is heard, the gate is compared with Half.
TokensDecide ==
  LET heard == ExtractLogprobs(measured.tokens)
      certainty(i) == One + Top(measured.tokens[i])
  IN  /\ measured.gated =>
           IF heard = {} THEN gate > Half ELSE \E i \in heard : certainty(i) < gate
      /\ measured.state \in {"stable_pass", "unstable_pass"} /\ ~ measured.gated =>
           IF heard = {} THEN gate <= Half ELSE gate = 0 \/ \E i \in heard : gate <= certainty(i)

LEMMA GenerateDecides ==
  ASSUME IInv, NEW tokens \in Answers, NEW answer \in Replies, Generate(tokens, answer)
  PROVE  TokensDecide'
<1> DEFINE score == ComputeStabilityScore(tokens)
           heard == ExtractLogprobs(tokens)
<1>1. TokenSets(tokens)
  BY AnswersAssumption DEF TokenSets
<1>2. /\ measured'.tokens = tokens /\ measured'.gated = (score < gate)
      /\ gate' = gate /\ gate \in 0 .. One
  BY DEF Generate, Gated, IInv, TypeOK
<1>3. score \in 0 .. One /\ (heard = {} => score = Half)
  BY <1>1, Score
<1>4. \A i \in heard : Top(tokens[i]) \in Int
  BY <1>1, TopsType
<1>5. heard # {} /\ score < gate => \E i \in heard : One + Top(tokens[i]) < gate
  <2>1. gate \in 1 .. One /\ heard # {} /\ (\A i \in heard : gate <= One + Top(tokens[i])) =>
          gate <= score
    BY <1>1, Score
  <2> HIDE DEF score, heard
  <2> QED
    BY <1>2, <1>3, <1>4, <2>1, Scale
<1>6. heard # {} /\ gate <= score => gate = 0 \/ \E i \in heard : gate <= One + Top(tokens[i])
  <2>1. gate \in 1 .. One /\ heard # {} /\ (\A i \in heard : One + Top(tokens[i]) < gate) =>
          score < gate
    BY <1>1, Score
  <2> HIDE DEF score, heard
  <2> QED
    BY <1>2, <1>3, <1>4, <2>1, Scale
<1> HIDE DEF score
<1>7. /\ score < gate => gate > score
      /\ ~ (score < gate) => gate <= score
  BY <1>2, <1>3, Scale
<1> QED
  BY <1>2, <1>3, <1>5, <1>6, <1>7, Scale DEF TokensDecide

\* What an answer's tokens have to do with what becomes of it
\* (compute_stability_score and the gate of generate_hypotheses), whatever the
\* length of the answer.
THEOREM Deciding == Spec => []TokensDecide
<1>1. Init => TokensDecide
  BY DEF Init, NoAnswer, TokensDecide
<1>2. IInv /\ TokensDecide /\ [Next]_vars => TokensDecide'
  <2> SUFFICES ASSUME IInv, TokensDecide, [Next]_vars
               PROVE  TokensDecide'
    OBVIOUS
  <2>1. CASE \E tokens \in Answers, answer \in Replies : Generate(tokens, answer)
    BY <2>1, GenerateDecides
  <2>2. CASE GenerateUnanswered
    <3>1. measured'.state = "unstable_fail" /\ ~ measured'.gated
      BY <2>2 DEF GenerateUnanswered, NoAnswer
    <3> QED
      BY <3>1 DEF TokensDecide
  <2>3. CASE \E audited \in BOOLEAN : StartGeneration(audited)
    <3>1. measured' = NoAnswer
      BY <2>3 DEF StartGeneration, IInv, Fresh
    <3> QED
      BY <3>1 DEF TokensDecide, NoAnswer
  <2>4. CASE UNCHANGED <<gate, measured>>
    BY <2>4 DEF TokensDecide
  <2> QED
    BY <2>1, <2>2, <2>3, <2>4
    DEF Next, vars, generation, Criterion, Classify, SetThreshold, Skip, RouteWorkload, Plan
<1> QED
  BY <1>1, <1>2, Invariance, PTL DEF Spec
=============================================================================
