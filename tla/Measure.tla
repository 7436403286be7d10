------------------------------- MODULE Measure -------------------------------
(***************************************************************************)
(* How stable the answer of an LLM is (measure.py, wrapper.py), by the     *)
(* method that every caller uses, token_probability. Scores are rounded to *)
(* four decimals; scores and thresholds are numbers of ten-thousandths. A  *)
(* token of the answer is the set of logprobs of its alternatives, in such *)
(* units that one is one of the score: -3000, a logprob of -1.5, scores    *)
(* 7000. A token without logprobs is {}.                                   *)
(***************************************************************************)
EXTENDS Integers, Sequences, FiniteSets

\* A score of 1.0, and one of 0.5.
One == 10000

Half == 5000

Total(scores) ==
  LET sum[n \in 0 .. Len(scores)] == IF n = 0 THEN 0 ELSE sum[n - 1] + scores[n]
  IN  sum[Len(scores)]

\* The tokens that have logprobs.
ExtractLogprobs(tokens) == {i \in DOMAIN tokens : tokens[i] # {}}

Top(token) == CHOOSE l \in token : \A m \in token : m <= l

\* What the tokens add to the sum of the best logprobs.
Tops(tokens) == [i \in 1 .. Len(tokens) |-> IF tokens[i] = {} THEN 0 ELSE Top(tokens[i])]

\* A mean of n scores, to the nearest integer.
Rounded(total, n) == (2 * total + n) \div (2 * n)

NormalizeScore(score) ==
  IF score < 0 THEN 0 ELSE IF score > One THEN One ELSE score

\* Mutant: an answer without logprobs is taken for a certain one.
ComputeStabilityScoreTrusting(tokens) ==
  IF ExtractLogprobs(tokens) = {} THEN One
  ELSE NormalizeScore(One + Rounded(Total(Tops(tokens)), Cardinality(ExtractLogprobs(tokens))))

\* The mean of the tokens' best logprobs, or half where there is none.
ComputeStabilityScore(tokens) ==
  IF ExtractLogprobs(tokens) = {} THEN Half
  ELSE NormalizeScore(One + Rounded(Total(Tops(tokens)), Cardinality(ExtractLogprobs(tokens))))

DetermineStabilityState(score, outcome_correct, threshold) ==
  IF score >= threshold
  THEN IF outcome_correct THEN "stable_pass" ELSE "stable_fail"
  ELSE IF outcome_correct THEN "unstable_pass" ELSE "unstable_fail"

Stable(state) == state \notin {"unstable_pass", "unstable_fail"}
=============================================================================
