------------------------------ MODULE Evidence ------------------------------
(***************************************************************************)
(* What evidence settles: the verdict of a constraint and of a stage       *)
(* (classification.py), the verdict on a hypothesis and what is left of an *)
(* LLM's answer (hypothesis.py). Evidence gives each field a number, a     *)
(* text or null, or does not have it. Booleans are the numbers 0 and 1, as *)
(* in Python; texts are those that do not write a number.                  *)
(***************************************************************************)
EXTENDS Integers, Sequences

CONSTANTS
  Fields,
  Numbers,
  Texts,
  Empty,   \* the text ""
  Null,
  Absent,  \* the evidence does not have the field
  Found,   \* Found[how]: the pairs <<value, text>> such that the value, as a
           \* text, contains the text, or matches it
  Broken   \* the texts that are no patterns

ASSUME EvidenceAssumption ==
  /\ Numbers \subseteq Int
  /\ Empty \in Texts /\ Texts \cap BOOLEAN = {}
  /\ Null \notin Numbers \cup Texts
  /\ Absent \notin Numbers \cup Texts \cup {Null}

Values == Numbers \cup Texts

\* evidence.get(field) is not None.
Given(e, f) == e[f] \notin {Absent, Null}

Orders == {"gt", "gte", "lt", "lte"}

Compares(op, a, b) ==
  \/ op = "gt" /\ a > b
  \/ op = "gte" /\ a >= b
  \/ op = "lt" /\ a < b
  \/ op = "lte" /\ a <= b
  \/ op = "eq" /\ a = b

(***************************************************************************)
(* Constraints. An assertion is a record: type and field, and for a        *)
(* threshold op and value, for a boolean or a pattern value, for a range   *)
(* low and high (null: no bound), for a composite logic and subs. A        *)
(* constraint has its assertion in asserts and its required fields.        *)
(***************************************************************************)
\* The types that a composite evaluates; it ignores an assertion of another.
SubTypes == {"threshold", "boolean", "range", "pattern"}

\* A threshold tries all its comparisons, whatever its operator.
Raises(d, v) ==
  \/ d.type = "threshold" /\ v \notin Numbers
  \/ d.type = "range" /\ v \notin Numbers /\ {d.low, d.high} # {Null}
  \/ d.type = "pattern" /\ d.value \in Broken

Passes(d, v) ==
  \/ d.type = "threshold" /\ Compares(d.op, v, d.value)
  \/ d.type = "boolean" /\ d.value \in BOOLEAN /\ (v \notin {0, Empty}) = d.value
  \/ d.type = "boolean" /\ d.value \in Texts /\ v = d.value
  \/ /\ d.type = "range"
     /\ d.low = Null \/ d.low <= v
     /\ d.high = Null \/ v <= d.high
  \/ d.type = "pattern" /\ <<v, d.value>> \in Found["matches"]

Evaluate(d, e) ==
  IF ~ Given(e, d.field) THEN "inconclusive"
  ELSE IF Raises(d, e[d.field]) THEN "raises"
  ELSE IF Passes(d, e[d.field]) THEN "pass" ELSE "fail"

SubResults(d, e) == {Evaluate(s, e) : s \in {t \in d.subs : t.type \in SubTypes}}

\* Mutant: an assertion without its evidence does not count.
EvaluateCompositeLenient(d, e) ==
  IF "raises" \in SubResults(d, e) THEN "raises"
  ELSE IF "fail" \in SubResults(d, e) THEN "fail" ELSE "pass"

\* What is not a pass is a failure, inconclusive ones included.
EvaluateComposite(d, e) ==
  IF "raises" \in SubResults(d, e) THEN "raises"
  ELSE IF d.logic = "any"
       THEN IF "pass" \in SubResults(d, e) THEN "pass" ELSE "fail"
       ELSE IF SubResults(d, e) \subseteq {"pass"} THEN "pass" ELSE "fail"

\* An LLM's answer: whether there is one and it is stable, and what it says;
\* "other" is no verdict or no JSON, "odd" no text or JSON that is no object.
LlmAnswers == [success : BOOLEAN, stable : BOOLEAN,
               says : {"pass", "fail", "other", "odd"}]

EvaluateSemantic(answer) ==
  IF ~ answer.success THEN "inconclusive"
  ELSE IF answer.says = "odd" THEN "raises"
  ELSE IF answer.stable /\ answer.says \in {"pass", "fail"}
       THEN answer.says ELSE "inconclusive"

\* Mutant: the requirements are not looked at.
NoneMissing(c, e) == FALSE

Missing(c, e) == \E f \in c.requires : e[f] = Absent

EvaluateConstraint(c, e, answer) ==
  IF Missing(c, e) THEN "inconclusive"
  ELSE IF c.asserts.type \in SubTypes THEN Evaluate(c.asserts, e)
  ELSE IF c.asserts.type = "composite" THEN EvaluateComposite(c.asserts, e)
  ELSE IF c.asserts.type = "semantic" THEN EvaluateSemantic(answer)
  ELSE "unclassifiable"

\* Mutant: only a failure or an odd type keeps a stage from passing.
DetermineOverallOptimistic(results) ==
  IF "fail" \in results THEN "fail"
  ELSE IF "unclassifiable" \in results THEN "unclassifiable" ELSE "pass"

DetermineOverall(results) ==
  IF "fail" \in results THEN "fail"
  ELSE IF "unclassifiable" \in results THEN "unclassifiable"
  ELSE IF "inconclusive" \in results THEN "inconclusive" ELSE "pass"

\* Mutant: the exception is the verdict.
ClassificationRaises(cs, e, answer) ==
  LET results == {EvaluateConstraint(c, e, answer) : c \in cs}
  IN  IF "raises" \in results THEN "raises" ELSE DetermineOverall(results)

\* classify_evidence on the constraints cs: an exception leaves no result.
Classification(cs, e, answer) ==
  LET results == {EvaluateConstraint(c, e, answer) : c \in cs}
  IN  IF "raises" \in results THEN "none" ELSE DetermineOverall(results)

(***************************************************************************)
(* Hypotheses. A condition has field, op and value; value is null if the   *)
(* LLM gave none.                                                          *)
(***************************************************************************)
\* float() or re.search() raises, or the operator is none.
Unusable(c, v) ==
  \/ c.op \notin Orders \cup {"eq", "contains", "matches"}
  \/ c.op \in Orders /\ ~ {v, c.value} \subseteq Numbers
  \/ c.op = "matches" /\ c.value \in Broken

Met(c, v) ==
  \/ c.op \in Orders \cup {"eq"} /\ Compares(c.op, v, c.value)
  \/ c.op \in {"contains", "matches"} /\ <<v, c.value>> \in Found[c.op]

\* Mutant: a field that is not there speaks against the hypothesis.
CheckConditionStrict(c, e) ==
  IF ~ Given(e, c.field) THEN "falsified"
  ELSE IF Unusable(c, e[c.field]) THEN "inconclusive"
  ELSE IF Met(c, e[c.field]) THEN "validated" ELSE "falsified"

CheckCondition(c, e) ==
  IF ~ Given(e, c.field) \/ Unusable(c, e[c.field]) THEN "inconclusive"
  ELSE IF Met(c, e[c.field]) THEN "validated" ELSE "falsified"

ValidateHypothesis(conditions, e) ==
  LET results == {CheckCondition(c, e) : c \in conditions}
  IN  IF "falsified" \in results THEN "falsified"
      ELSE IF results = {"validated"} THEN "validated" ELSE "inconclusive"

(***************************************************************************)
(* The LLM's answer to a generation. As a rule it is a list of items, each *)
(* an object or not, an object with a confidence that is a number, a word, *)
(* or odd: null, a list, an object or an integer too large for a float. A  *)
(* text that is no JSON is a list without items. Other forms of an answer  *)
(* have none either: no text at all, or "hypotheses" that cannot be gone   *)
(* through, such as null or a number.                                      *)
(***************************************************************************)
Items == [object : BOOLEAN, confidence : {"number", "word", "odd"}]

OddForms == {"no_text", "no_list"}

Objects(items) == {i \in DOMAIN items : items[i].object}

Unreadable(items) == {i \in Objects(items) : items[i].confidence # "number"}

\* The items are normalised in their order up to the first whose confidence is
\* no number. A word ends the parsing, and what there is so far is dropped.
FirstUnreadable(items, confidence) ==
  \E i \in Unreadable(items) :
    items[i].confidence = confidence /\ \A j \in Unreadable(items) : i <= j

\* Mutant: the items before the first that cannot be read are kept.
ParseHypothesesPrefix(items) ==
  {i \in Objects(items) : \A j \in Unreadable(items) : i < j}

ParseHypotheses(items) == IF Unreadable(items) = {} THEN Objects(items) ELSE {}

\* What only _call_llm_for_hypotheses catches: strip() of no text, a loop over no
\* list, float() of an odd confidence.
ParseRaises(answer) ==
  answer.form \in OddForms \/ FirstUnreadable(answer.items, "odd")
=============================================================================
