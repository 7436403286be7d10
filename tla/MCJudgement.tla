---------------------------- MODULE MCJudgement ----------------------------
(***************************************************************************)
(* Four fields: the outcome and the failure class, which every event has,  *)
(* a reading, which a criterion may add, and what enrichment adds. One     *)
(* stage has constraints as in cluster-health.yaml and others on the       *)
(* reading, one has a semantic constraint too, one has none.               *)
(***************************************************************************)
EXTENDS Judgement, TLC

CONSTANTS empty, pass, fail, crash, unknown, null, absent, unavailable

MCFields == {"outcome", "failure_class", "reading", "cross_system"}

\* The mean of the fourth is at the gate once it is rounded.
MCAnswers == {<< >>, <<{}>>, <<{-3000, -6000}>>, <<{0}, {}, {-3000}, {-6001, -8000}>>,
              <<{-1000}, {-2000, -10000}>>, <<{-3001}>>, <<{-20000}>>}

MCFound ==
  [contains |-> {<<crash, crash>>, <<crash, empty>>, <<pass, pass>>, <<1, empty>>},
   matches |-> {<<empty, empty>>, <<pass, pass>>, <<crash, crash>>}]

MCStageOf == crash :> "deployment"

MCEvents ==
  {[outcome |-> outcome, failure_class |-> class, stage_id |-> stage,
    failed |-> outcome = empty] :
     outcome \in {pass, fail, empty}, class \in {empty, crash, unknown},
     stage \in {"", "cluster-health", "none"}}

Threshold(f, o, v) == [type |-> "threshold", field |-> f, op |-> o, value |-> v]

Boolean(f, v) == [type |-> "boolean", field |-> f, value |-> v]

Between(f, l, h) == [type |-> "range", field |-> f, low |-> l, high |-> h]

Pattern(f, v) == [type |-> "pattern", field |-> f, value |-> v]

Composite(l, s) == [type |-> "composite", logic |-> l, subs |-> s]

Requires(fs, a) == [requires |-> fs, asserts |-> a]

Outcome == Requires({"outcome"}, Boolean("outcome", pass))

MCConstraintsOf ==
  "cluster-health" :>
    {Outcome,
     Requires({"failure_class"}, Pattern("failure_class", empty)),
     Requires({}, Threshold("reading", "gte", 1)),
     Requires({}, Between("reading", null, 1)),
     Requires({"reading"},
              Composite("any", {Threshold("reading", "eq", 2), Pattern("outcome", pass)})),
     Requires({"reading", "outcome"},
              Composite("any", {Threshold("reading", "eq", 2), Pattern("outcome", pass)}))}
  @@ "deployment" :>
    {Outcome, Requires({"reading"}, Boolean("reading", TRUE)),
     Requires({"reading", "failure_class"},
              Composite("all", {Boolean("reading", TRUE), Pattern("failure_class", crash),
                                [type |-> "semantic", field |-> "failure_class"]})),
     Requires({"outcome"}, [type |-> "semantic"])}
  @@ "none" :> {}

When(f, o, v) == [field |-> f, op |-> o, value |-> v]

MCHypotheses ==
  {{}, {When("reading", "gt", 0)}, {When("reading", "lte", 1), When("outcome", "eq", fail)},
   {When("failure_class", "contains", crash), When("reading", "eq", 2)},
   {When("reading", "gte", 1), When("reading", "lt", 2)},
   {When("outcome", "matches", pass), When("reading", "near", 1)},
   {When("outcome", "matches", fail)}, {When("cross_system", "contains", pass)}, {When("reading", "gt", null)}}

MCReplies ==
  {[form |-> "list", items |-> items] : items \in UNION {[1 .. n -> Items] : n \in 0 .. 2}}
    \cup {[form |-> form, items |-> << >>] : form \in OddForms}

\* What the steps to come and the properties of the state depend on.
Pending ==
  CASE pc = "gathering" -> <<event, evidence, replaced>>
    [] pc = "generating" -> <<pc, event, evidence, overall, replaced, threshold>>
    [] pc = "asking" -> <<pc, event.failure_class, threshold, gate>>
    [] pc = "routing" -> <<pc, event.failure_class, generation>>
    [] pc = "planning" -> <<pc, routing>>
    [] plan # NoPlan -> <<pc, plan>>
    [] OTHER -> <<pc, event, evidence, overall, replaced>>
=============================================================================
