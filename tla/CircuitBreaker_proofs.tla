------------------------ MODULE CircuitBreaker_proofs ------------------------
(***************************************************************************)
(* Proofs about the circuit breaker, for any number of threads and any     *)
(* threshold, cooldown and lag.                                            *)
(***************************************************************************)
EXTENDS CircuitBreaker, FiniteSetTheorems, TLAPS

(***************************************************************************)
(* The count is bounded differently in the two states of the breaker.      *)
(* Closed, what exceeds the threshold has been counted by a thread that    *)
(* has yet to stamp; open, what may still be counted comes from the        *)
(* threads that were let in before.                                        *)
(***************************************************************************)
ClosedBound ==
  openAge = Closed => failures <= Threshold - 1 + Cardinality(Stampers)

OpenBound ==
  openAge # Closed =>
    failures + Cardinality(InCall) <= Threshold - 1 + Cardinality(Callers)

IInv == TypeOK /\ ClosedBound /\ OpenBound

-----------------------------------------------------------------------------
\* The threads whose label is in a set of labels.
At(f, L) == {x \in Callers : f[x] \in L}

\* How the threads at some labels change in number when one of them moves.
LEMMA AtMoves ==
  ASSUME NEW f \in [Callers -> Labels], NEW g \in [Callers -> Labels], NEW L,
         NEW c \in Callers, \A x \in Callers \ {c} : g[x] = f[x]
  PROVE  /\ Cardinality(At(f, L)) \in Nat
         /\ Cardinality(At(g, L)) =
              Cardinality(At(f, L))
                + (IF g[c] \in L THEN 1 ELSE 0) - (IF f[c] \in L THEN 1 ELSE 0)
<1>1. IsFiniteSet(At(f, L)) /\ Cardinality(At(f, L)) \in Nat
  BY BreakerAssumption, FS_Subset, FS_CardinalityType DEF At
<1>2. CASE f[c] \in L <=> g[c] \in L
  <2>1. At(g, L) = At(f, L)
    BY <1>2 DEF At
  <2> QED
    BY <1>1, <1>2, <2>1
<1>3. CASE f[c] \notin L /\ g[c] \in L
  <2>1. At(g, L) = At(f, L) \cup {c} /\ c \notin At(f, L)
    BY <1>3 DEF At
  <2>2. Cardinality(At(g, L)) = Cardinality(At(f, L)) + 1
    BY <1>1, <2>1, FS_AddElement
  <2> QED
    BY <1>1, <1>3, <2>2
<1>4. CASE f[c] \in L /\ g[c] \notin L
  <2>1. At(g, L) = At(f, L) \ {c} /\ c \in At(f, L)
    BY <1>4 DEF At
  <2>2. Cardinality(At(g, L)) = Cardinality(At(f, L)) - 1
    BY <1>1, <2>1, FS_RemoveElement
  <2> QED
    BY <1>1, <1>4, <2>2
<1> QED
  BY <1>2, <1>3, <1>4

\* Threads inside a call and threads about to stamp are different threads.
LEMMA Apart ==
  ASSUME NEW f \in [Callers -> Labels]
  PROVE  LET S == At(f, {"stamp"})  I == At(f, {"llm", "report"}) IN
         /\ Cardinality(S) \in Nat /\ Cardinality(I) \in Nat /\ Cardinality(Callers) \in Nat
         /\ Cardinality(S) + Cardinality(I) <= Cardinality(Callers)
<1> DEFINE S == At(f, {"stamp"})
<1> DEFINE I == At(f, {"llm", "report"})
<1>1. IsFiniteSet(Callers) /\ Cardinality(Callers) \in Nat
  BY BreakerAssumption, FS_CardinalityType
<1>2. S \subseteq Callers /\ I \subseteq Callers /\ S \cap I = {}
  BY DEF At
<1> HIDE DEF S, I
<1>3. /\ IsFiniteSet(S) /\ IsFiniteSet(I)
      /\ Cardinality(S) \in Nat /\ Cardinality(I) \in Nat
  BY <1>1, <1>2, FS_Subset, FS_CardinalityType
<1>4. Cardinality(S \cup I) = Cardinality(S) + Cardinality(I) - Cardinality(S \cap I)
  BY <1>3, FS_Union
<1>5. Cardinality(S \cap I) = 0
  BY <1>2, FS_EmptySet
<1>6. Cardinality(S \cup I) <= Cardinality(Callers)
  BY <1>1, <1>2, FS_Subset
<1>7. Cardinality(S) + Cardinality(I) <= Cardinality(Callers)
  BY <1>3, <1>4, <1>5, <1>6
<1> QED
  BY <1>1, <1>3, <1>7 DEF S, I

LEMMA AtLabels == Stampers = At(pc, {"stamp"}) /\ InCall = At(pc, {"llm", "report"})
BY DEF Stampers, InCall, At

LEMMA Counts ==
  ASSUME TypeOK
  PROVE  /\ Cardinality(Stampers) \in Nat
         /\ Cardinality(InCall) \in Nat
         /\ Cardinality(Callers) \in Nat
         /\ Cardinality(Stampers) + Cardinality(InCall) <= Cardinality(Callers)
BY Apart, AtLabels DEF TypeOK

LEMMA CountsNext ==
  ASSUME TypeOK'
  PROVE  /\ Cardinality(Stampers') \in Nat
         /\ Cardinality(InCall') \in Nat
         /\ Cardinality(Stampers') + Cardinality(InCall') <= Cardinality(Callers)
<1>1. pc' \in [Callers -> Labels]
  BY DEF TypeOK
<1>2. Stampers' = At(pc', {"stamp"}) /\ InCall' = At(pc', {"llm", "report"})
  BY DEF Stampers, InCall, At
<1> QED
  BY <1>1, <1>2, Apart

-----------------------------------------------------------------------------
LEMMA InitTyping == Init => TypeOK
BY BreakerAssumption DEF Init, TypeOK, Labels, Closed

LEMMA NextTyping == TypeOK /\ [Next]_vars => TypeOK'
<1> SUFFICES ASSUME TypeOK, [Next]_vars
             PROVE  TypeOK'
  OBVIOUS
<1> USE BreakerAssumption DEF TypeOK, Labels, Closed, Expired
<1>1. CASE Tick
  BY <1>1 DEF Tick, Holding
<1>2. ASSUME NEW c \in Callers, Attempt(c) \/ AttemptOpen(c)
      PROVE  TypeOK'
  BY <1>2 DEF Attempt, AttemptOpen, Goto, ReadClock
<1>3. ASSUME NEW c \in Callers, Refuse(c) \/ Expire(c) \/ CheckRaises(c)
      PROVE  TypeOK'
  BY <1>3 DEF Refuse, Expire, CheckRaises, Goto, ReadClock
<1>4. ASSUME NEW c \in Callers, Succeed(c) \/ Fail(c) \/ Return(c)
      PROVE  TypeOK'
  BY <1>4 DEF Succeed, Fail, Return, Count, Goto, ReadClock
<1>5. ASSUME NEW c \in Callers, Stamp(c)
      PROVE  TypeOK'
  BY <1>5 DEF Stamp, Goto, ReadClock
<1>6. CASE UNCHANGED vars
  BY <1>6 DEF vars
<1> QED
  BY <1>1, <1>2, <1>3, <1>4, <1>5, <1>6 DEF Next, Continue

\* Every variable of the breaker keeps its type: in particular, threads
\* switched out with an old reading cannot make the breaker's age meaningless.
THEOREM Typing == Spec => []TypeOK
BY InitTyping, NextTyping, PTL DEF Spec

LEMMA InitBounds == Init => IInv
<1> SUFFICES ASSUME Init
             PROVE  IInv
  OBVIOUS
<1>1. TypeOK
  BY InitTyping
<1>2. Cardinality(Stampers) \in Nat
  BY <1>1, Counts
<1> QED
  BY <1>1, <1>2, BreakerAssumption DEF Init, IInv, ClosedBound, OpenBound

\* What a move of one thread does to the two counts the bounds speak of.
LEMMA Moves ==
  ASSUME TypeOK, NEW c \in Callers, NEW l \in Labels, Goto(c, l)
  PROVE  /\ Cardinality(Stampers') =
              Cardinality(Stampers)
                + (IF l = "stamp" THEN 1 ELSE 0) - (IF pc[c] = "stamp" THEN 1 ELSE 0)
         /\ Cardinality(InCall') =
              Cardinality(InCall)
                + (IF l \in {"llm", "report"} THEN 1 ELSE 0)
                - (IF pc[c] \in {"llm", "report"} THEN 1 ELSE 0)
<1>1. pc \in [Callers -> Labels]
  BY DEF TypeOK
<1>2. pc' \in [Callers -> Labels] /\ pc'[c] = l /\ \A x \in Callers \ {c} : pc'[x] = pc[x]
  BY <1>1 DEF Goto
<1>3. Cardinality(At(pc', {"stamp"})) =
        Cardinality(At(pc, {"stamp"}))
          + (IF l \in {"stamp"} THEN 1 ELSE 0) - (IF pc[c] \in {"stamp"} THEN 1 ELSE 0)
  BY <1>1, <1>2, AtMoves
<1>4. Cardinality(At(pc', {"llm", "report"})) =
        Cardinality(At(pc, {"llm", "report"}))
          + (IF l \in {"llm", "report"} THEN 1 ELSE 0)
          - (IF pc[c] \in {"llm", "report"} THEN 1 ELSE 0)
  BY <1>1, <1>2, AtMoves
<1>5. Stampers' = At(pc', {"stamp"})
  BY DEF Stampers, At
<1>6. InCall' = At(pc', {"llm", "report"})
  BY DEF InCall, At
<1>7. l \in {"stamp"} <=> l = "stamp"
  OBVIOUS
<1>8. pc[c] \in {"stamp"} <=> pc[c] = "stamp"
  OBVIOUS
<1> QED
  BY <1>3, <1>4, <1>5, <1>6, <1>7, <1>8, AtLabels

LEMMA NextBounds == IInv /\ [Next]_vars => IInv'
<1> SUFFICES ASSUME IInv, [Next]_vars
             PROVE  IInv'
  OBVIOUS
<1>1. TypeOK /\ TypeOK'
  BY NextTyping DEF IInv
<1>2. /\ Cardinality(Stampers) \in Nat /\ Cardinality(InCall) \in Nat
      /\ Cardinality(Callers) \in Nat
      /\ Cardinality(Stampers) + Cardinality(InCall) <= Cardinality(Callers)
  BY <1>1, Counts
<1>3. failures \in Nat /\ openAge \in Int /\ Threshold \in Nat /\ Threshold >= 1
  BY <1>1, BreakerAssumption DEF TypeOK, Closed, Expired
<1>4. /\ Cardinality(Stampers') \in Nat /\ Cardinality(InCall') \in Nat
      /\ Cardinality(Stampers') + Cardinality(InCall') <= Cardinality(Callers)
  BY <1>1, CountsNext
<1> SUFFICES ClosedBound' /\ OpenBound'
  BY <1>1 DEF IInv
<1>5. ClosedBound /\ OpenBound
  BY DEF IInv
<1>6. CASE Tick
  <2>1. Stampers' = Stampers /\ InCall' = InCall
    BY <1>6 DEF Tick, Stampers, InCall
  <2>2. openAge' = Closed <=> openAge = Closed
    BY <1>1, <1>6, BreakerAssumption DEF Tick, TypeOK, Closed, Expired
  <2> QED
    BY <1>5, <1>6, <2>1, <2>2 DEF Tick, ClosedBound, OpenBound
<1>7. ASSUME NEW c \in Callers, Attempt(c)
      PROVE  ClosedBound' /\ OpenBound'
  <2>1. Cardinality(Stampers') = Cardinality(Stampers)
    BY <1>1, <1>2, <1>7, Moves DEF Attempt, Labels
  <2> QED
    BY <1>5, <1>7, <2>1 DEF Attempt, ClosedBound, OpenBound
<1>8. ASSUME NEW c \in Callers, AttemptOpen(c) \/ Refuse(c)
      PROVE  ClosedBound' /\ OpenBound'
  <2>1. Cardinality(InCall') = Cardinality(InCall)
    BY <1>1, <1>2, <1>8, Moves DEF AttemptOpen, Refuse, Labels
  <2> QED
    BY <1>5, <1>8, <2>1 DEF AttemptOpen, Refuse, ClosedBound, OpenBound
<1>9. ASSUME NEW c \in Callers, Expire(c) \/ Succeed(c)
      PROVE  ClosedBound' /\ OpenBound'
  BY <1>3, <1>4, <1>9 DEF Expire, Succeed, ClosedBound, OpenBound
<1>10. ASSUME NEW c \in Callers, CheckRaises(c) \/ Return(c)
       PROVE  ClosedBound' /\ OpenBound'
  <2>1. /\ Cardinality(Stampers') = Cardinality(Stampers)
        /\ Cardinality(InCall') <= Cardinality(InCall)
    BY <1>1, <1>2, <1>10, Moves DEF CheckRaises, Return, Labels
  <2> QED
    BY <1>2, <1>3, <1>4, <1>5, <1>10, <2>1 DEF CheckRaises, Return, ClosedBound, OpenBound
<1>11. ASSUME NEW c \in Callers, Fail(c)
       PROVE  ClosedBound' /\ OpenBound'
  <2>1. CASE failures + 1 >= Threshold
    <3>1. /\ Cardinality(Stampers') = Cardinality(Stampers) + 1
          /\ Cardinality(InCall') = Cardinality(InCall) - 1
      BY <1>1, <1>2, <1>11, <2>1, Moves DEF Fail, Count, Labels
    <3> QED
      BY <1>2, <1>3, <1>5, <1>11, <2>1, <3>1 DEF Fail, Count, ClosedBound, OpenBound
  <2>2. CASE ~ (failures + 1 >= Threshold)
    <3>1. Cardinality(InCall') = Cardinality(InCall) - 1
      BY <1>1, <1>2, <1>11, <2>2, Moves DEF Fail, Count, Labels
    <3> QED
      BY <1>2, <1>3, <1>4, <1>5, <1>11, <2>2, <3>1 DEF Fail, Count, ClosedBound, OpenBound
  <2> QED
    BY <2>1, <2>2
<1>12. ASSUME NEW c \in Callers, Stamp(c)
       PROVE  ClosedBound' /\ OpenBound'
  <2>1. openAge' # Closed
    BY <1>1, <1>12, BreakerAssumption DEF Stamp, TypeOK, Closed
  <2>2. Cardinality(InCall') = Cardinality(InCall)
    BY <1>1, <1>2, <1>12, Moves DEF Stamp, Labels
  <2>3. failures + Cardinality(InCall) <= Threshold - 1 + Cardinality(Callers)
    BY <1>2, <1>3, <1>5 DEF ClosedBound, OpenBound
  <2> QED
    BY <1>12, <2>1, <2>2, <2>3 DEF Stamp, ClosedBound, OpenBound
<1>13. CASE UNCHANGED vars
  BY <1>5, <1>13 DEF vars, ClosedBound, OpenBound, Stampers, InCall
<1> QED
  BY <1>6, <1>7, <1>8, <1>9, <1>10, <1>11, <1>12, <1>13 DEF Next, Continue

\* The breaker's count is bounded in both of its states, always.
THEOREM Bounds == Spec => []IInv
BY InitBounds, NextBounds, PTL DEF Spec

\* A breaker that has counted its threshold is open or about to be, whatever
\* the other threads' successes, expiries and late stamps do in between.
THEOREM Opening == Spec => []OpensWhenDue
<1>1. IInv => OpensWhenDue
  <2> SUFFICES ASSUME IInv, openAge = Closed, failures >= Threshold
               PROVE  Stampers # {}
    BY DEF OpensWhenDue
  <2>1. Cardinality(Stampers) \in Nat /\ failures \in Nat
    BY Counts DEF IInv, TypeOK
  <2>2. Cardinality(Stampers) # 0
    BY <2>1, BreakerAssumption DEF IInv, ClosedBound
  <2> QED
    BY <2>2, FS_EmptySet
<1> QED
  BY <1>1, Bounds, PTL

\* An endpoint that is down is called at most so often in a row, for every
\* number of threads.
THEOREM Containment == Spec => []OutageContained
<1>1. IInv => OutageContained
  <2> SUFFICES ASSUME IInv
               PROVE  OutageContained
    OBVIOUS
  <2>1. /\ Cardinality(Stampers) \in Nat /\ Cardinality(InCall) \in Nat
        /\ Cardinality(Callers) \in Nat /\ failures \in Nat
        /\ Cardinality(Stampers) + Cardinality(InCall) <= Cardinality(Callers)
    BY Counts DEF IInv, TypeOK
  <2> QED
    BY <2>1, BreakerAssumption DEF IInv, ClosedBound, OpenBound, OutageContained
<1> QED
  BY <1>1, Bounds, PTL
-----------------------------------------------------------------------------
(***************************************************************************)
(* How long an open breaker can hold calls off.                            *)
(***************************************************************************)
\* The breaker is open and holds every call off.
HeldOff == openAge # Closed /\ openAge <= Cooldown

\* The threads that may still stamp: inside a call, or about to.
Stragglers == InCall \cup Stampers

\* A bound on the ticks it can go on doing so: what is left of this cooldown,
\* and a cooldown for every thread that may still stamp.
HoldRank ==
  Cardinality(Stragglers) * (Cooldown + 1) + (Cooldown - openAge)

LEMMA AtStragglers == Stragglers = At(pc, {"llm", "report", "stamp"})
BY DEF Stragglers, InCall, Stampers, At

\* What a move of one thread does to the number of stragglers.
LEMMA StragglersMove ==
  ASSUME TypeOK, NEW c \in Callers, NEW l \in Labels, Goto(c, l)
  PROVE  /\ Cardinality(Stragglers) \in Nat
         /\ Cardinality(Stragglers') =
              Cardinality(Stragglers)
                + (IF l \in {"llm", "report", "stamp"} THEN 1 ELSE 0)
                - (IF pc[c] \in {"llm", "report", "stamp"} THEN 1 ELSE 0)
<1>1. pc \in [Callers -> Labels]
  BY DEF TypeOK
<1>2. pc' \in [Callers -> Labels] /\ pc'[c] = l /\ \A x \in Callers \ {c} : pc'[x] = pc[x]
  BY <1>1 DEF Goto
<1>3. /\ Cardinality(At(pc, {"llm", "report", "stamp"})) \in Nat
      /\ Cardinality(At(pc', {"llm", "report", "stamp"})) =
           Cardinality(At(pc, {"llm", "report", "stamp"}))
             + (IF l \in {"llm", "report", "stamp"} THEN 1 ELSE 0)
             - (IF pc[c] \in {"llm", "report", "stamp"} THEN 1 ELSE 0)
  BY <1>1, <1>2, AtMoves
<1>4. Stragglers' = At(pc', {"llm", "report", "stamp"})
  BY DEF Stragglers, InCall, Stampers, At
<1> QED
  BY <1>3, <1>4, AtStragglers

\* A cooldown is worth one straggler in the rank.
LEMMA RankSteps ==
  ASSUME NEW n \in Nat, NEW m \in Nat, NEW k \in Nat
  PROVE  /\ m <= n => m * k <= n * k
         /\ m <= n - 1 => m * k <= n * k - k
         /\ n * k \in Nat
<1>1. n * k \in Nat /\ m * k \in Nat
  BY SMT
<1>2. ASSUME m <= n
      PROVE  m * k <= n * k
  <2>1. n * k = m * k + (n - m) * k
    BY SMT
  <2>2. (n - m) * k >= 0
    BY <1>2, SMT
  <2> QED
    BY <1>1, <2>1, <2>2
<1>3. ASSUME m <= n - 1
      PROVE  m * k <= n * k - k
  <2>1. n * k = m * k + k + (n - m - 1) * k
    BY SMT
  <2>2. (n - m - 1) * k >= 0
    BY <1>3, SMT
  <2> QED
    BY <1>1, <2>1, <2>2
<1> QED
  BY <1>1, <1>2, <1>3

\* What a late stamp may add to a hold is less than what one straggler counts for.
LEMMA StampLess ==
  ASSUME NEW a \in Nat, NEW b \in Nat, NEW k \in Nat, NEW o \in Nat, NEW p \in Nat,
         o <= k, b <= a - (k + 1)
  PROVE  b + (k - p) < a + (k - o)
OBVIOUS

LEMMA Shrinking ==
  ASSUME TypeOK, Next, HeldOff, HeldOff'
  PROVE  /\ HoldRank' <= HoldRank
         /\ Tick \/ (\E c \in Callers : Stamp(c)) => HoldRank' < HoldRank
<1> DEFINE K == Cooldown + 1
<1> DEFINE N == Cardinality(Stragglers)
<1>1. TypeOK'
  BY NextTyping
<1>2. /\ Cooldown \in Nat /\ K \in Nat /\ K = Cooldown + 1
      /\ openAge \in 0 .. Cooldown /\ openAge' \in 0 .. Cooldown
  BY <1>1, BreakerAssumption DEF TypeOK, HeldOff, Closed, Expired
<1>3. N \in Nat /\ N' \in Nat
  <2>1. pc \in [Callers -> Labels] /\ pc' \in [Callers -> Labels]
    BY <1>1 DEF TypeOK
  <2>2. Stragglers' = At(pc', {"llm", "report", "stamp"})
    BY DEF Stragglers, InCall, Stampers, At
  <2>3. IsFiniteSet(Stragglers) /\ IsFiniteSet(Stragglers')
    BY <2>2, AtStragglers, BreakerAssumption, FS_Subset DEF At
  <2> QED
    BY <2>3, FS_CardinalityType
<1>4. HoldRank = N * K + (Cooldown - openAge) /\ HoldRank' = N' * K + (Cooldown - openAge')
  BY DEF HoldRank, Stragglers
<1>5. /\ N' <= N => N' * K <= N * K
      /\ N' <= N - 1 => N' * K <= N * K - K
      /\ N * K \in Nat /\ N' * K \in Nat
  BY <1>2, <1>3, RankSteps
<1> DEFINE A == N * K
<1> DEFINE B == N' * K
<1>6. /\ HoldRank = A + (Cooldown - openAge) /\ HoldRank' = B + (Cooldown - openAge')
      /\ N' <= N => B <= A
      /\ N' <= N - 1 => B <= A - K
      /\ A \in Nat /\ B \in Nat
  BY <1>4, <1>5
<1> HIDE DEF K, N, A, B
<1>7. CASE Tick
  <2>1. N' = N
    BY <1>7 DEF Tick, N, Stragglers, InCall, Stampers
  <2>2. openAge' = openAge + 1
    BY <1>2, <1>7, BreakerAssumption DEF Tick, HeldOff, Closed, Expired
  <2> QED
    BY <1>2, <1>3, <1>6, <2>1, <2>2
<1>8. ASSUME NEW c \in Callers, Stamp(c)
      PROVE  HoldRank' < HoldRank
  <2>1. N' = N - 1
    BY <1>8, StragglersMove DEF Stamp, N, Labels
  <2>2. B <= A - (Cooldown + 1)
    BY <1>3, <1>6, <2>1 DEF K
  <2>3. openAge \in Nat /\ openAge' \in Nat /\ openAge <= Cooldown /\ Cooldown \in Nat
    BY <1>2
  <2>4. /\ HoldRank = A + (Cooldown - openAge) /\ HoldRank' = B + (Cooldown - openAge')
        /\ A \in Nat /\ B \in Nat
    BY <1>6
  <2> QED
    BY <2>2, <2>3, <2>4, StampLess
<1>9. ASSUME NEW c \in Callers,
             AttemptOpen(c) \/ Refuse(c) \/ CheckRaises(c) \/ Fail(c) \/ Return(c)
      PROVE  HoldRank' <= HoldRank
  <2>1. N' <= N
    <3>1. CASE AttemptOpen(c)
      BY <1>3, <3>1, StragglersMove DEF AttemptOpen, N, Labels
    <3>2. CASE Refuse(c)
      BY <1>3, <3>2, StragglersMove DEF Refuse, N, Labels
    <3>3. CASE CheckRaises(c)
      BY <1>3, <3>3, StragglersMove DEF CheckRaises, N, Labels
    <3>4. CASE Fail(c)
      BY <1>3, <3>4, StragglersMove DEF Fail, Count, N, Labels
    <3>5. CASE Return(c)
      BY <1>3, <3>5, StragglersMove DEF Return, N, Labels
    <3> QED
      BY <1>9, <3>1, <3>2, <3>3, <3>4, <3>5
  <2>2. openAge' = openAge
    BY <1>9 DEF AttemptOpen, Refuse, CheckRaises, Fail, Return
  <2> QED
    BY <1>2, <1>3, <1>6, <2>1, <2>2
<1>10. ASSUME NEW c \in Callers, Attempt(c) \/ Expire(c) \/ Succeed(c)
      PROVE  FALSE
  <2>1. ~ Expire(c)
    BY <1>2, BreakerAssumption DEF Expire, Elapsed, TypeOK
  <2> QED
    BY <1>10, <2>1 DEF Attempt, Succeed, HeldOff
<1>11. HoldRank \in Int /\ HoldRank' \in Int
  BY <1>2, <1>6
<1>12. CASE \E c \in Callers : Attempt(c) \/ AttemptOpen(c) \/ Continue(c)
  <2>1. PICK c \in Callers : Attempt(c) \/ AttemptOpen(c) \/ Continue(c)
    BY <1>12
  <2>2. CASE Stamp(c)
    BY <1>8, <1>11, <2>2
  <2>3. CASE ~ Stamp(c)
    <3>1. HoldRank' <= HoldRank
      BY <1>9, <1>10, <2>1, <2>3 DEF Continue
    <3>2. ~ Tick
      <4>1. openAge' = openAge
        BY <1>10, <2>1, <2>3
           DEF Continue, AttemptOpen, Refuse, CheckRaises, Fail, Return
      <4> QED
        BY <1>2, <4>1, BreakerAssumption DEF Tick, HeldOff, Closed, Expired
    <3> QED
      BY <1>8, <3>1, <3>2
  <2> QED
    BY <2>2, <2>3
<1> QED
  BY <1>7, <1>8, <1>11, <1>12 DEF Next

(***************************************************************************)
(* How long Recovers can take: a breaker that holds calls off lets nobody  *)
(* in, so every straggler that stamps it again is one fewer to come, and   *)
(* every tick leaves less of the hold. It ends within one cooldown per     *)
(* thread, and one more.                                                   *)
(***************************************************************************)
HoldShrinks ==
  [][HeldOff /\ HeldOff' =>
       /\ HoldRank' <= HoldRank
       /\ Tick \/ (\E c \in Callers : Stamp(c)) => HoldRank' < HoldRank]_vars

\* A breaker that is open lets nobody in and forgets no straggler: how long it
\* can still hold calls off gets shorter with every tick and every late stamp.
THEOREM HoldEnds == Spec => HoldShrinks
<1>1. TypeOK /\ [Next]_vars =>
        [HeldOff /\ HeldOff' =>
           /\ HoldRank' <= HoldRank
           /\ Tick \/ (\E c \in Callers : Stamp(c)) => HoldRank' < HoldRank]_vars
  BY Shrinking
<1> QED
  BY <1>1, Typing, PTL DEF Spec, HoldShrinks

\* How long that is at most: a cooldown for every thread, and one more.
HoldBounded == HeldOff => HoldRank \in 0 .. (Cardinality(Callers) + 1) * (Cooldown + 1) - 1

\* The hold of an open breaker has an end that the number of threads bounds.
THEOREM HoldBound == Spec => []HoldBounded
<1>1. TypeOK => HoldBounded
  <2> SUFFICES ASSUME TypeOK, HeldOff
               PROVE  HoldRank \in 0 .. (Cardinality(Callers) + 1) * (Cooldown + 1) - 1
    BY DEF HoldBounded
  <2> DEFINE K == Cooldown + 1
  <2> DEFINE N == Cardinality(Stragglers)
  <2> DEFINE M == Cardinality(Callers)
  <2>1. N \in Nat /\ M \in Nat /\ N <= M
    BY AtStragglers, BreakerAssumption, FS_Subset, FS_CardinalityType DEF At
  <2>2. Cooldown \in Nat /\ K \in Nat /\ K = Cooldown + 1 /\ openAge \in 0 .. Cooldown
    BY BreakerAssumption DEF TypeOK, HeldOff, Closed, Expired
  <2>3. HoldRank = N * K + (Cooldown - openAge)
    BY DEF HoldRank, Stragglers
  <2> SUFFICES HoldRank \in 0 .. (M + 1) * K - 1
    OBVIOUS
  <2> HIDE DEF K, N, M
  <2>4. N * K <= M * K /\ N * K \in Nat /\ M * K \in Nat
    BY <2>1, <2>2, RankSteps
  <2>5. (M + 1) * K = M * K + K
    BY <2>1, <2>2
  <2> QED
    BY <2>2, <2>3, <2>4, <2>5
<1> QED
  BY <1>1, Typing, PTL
=============================================================================
