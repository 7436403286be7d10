--------------------------- MODULE CircuitBreaker ---------------------------
(***************************************************************************)
(* The circuit breaker every LLM call of the process goes through: one     *)
(* object, no lock, shared by the HTTP and Kafka threads. The steps are    *)
(* those between which CPython 3.11 can switch threads, that is at calls:  *)
(* record_success and the reset inside is_open are one step each, but      *)
(* is_open reads _opened_at twice with a call to time() in between, and    *)
(* record_failure counts before and stamps after such a call.              *)
(*                                                                         *)
(* Time is kept as ages, so that it needs no end: how long ago _opened_at  *)
(* was stamped, and how long ago a switched-out thread read the clock.     *)
(***************************************************************************)
EXTENDS Integers, FiniteSets

CONSTANTS
  Callers,      \* threads calling the LLM
  Threshold,    \* failure_threshold
  Cooldown,     \* cooldown_seconds
  Lag           \* bound: ticks a thread stays switched out with a time it read

ASSUME BreakerAssumption ==
  /\ IsFiniteSet(Callers)
  /\ Threshold \in Nat \ {0}
  /\ Cooldown \in Nat
  /\ Lag \in Nat

Closed == -1
\* Older than this, the breaker has expired for every thread: count no further.
Expired == Cooldown + Lag + 1

VARIABLES
  failures,     \* _failures
  openAge,      \* time since _opened_at, Closed when it is None
  pc,           \* where each thread is
  readAge       \* time since the thread read the clock

vars == <<failures, openAge, pc, readAge>>

Init ==
  /\ failures = 0
  /\ openAge = Closed
  /\ pc = [c \in Callers |-> "idle"]
  /\ readAge = [c \in Callers |-> 0]

Goto(c, label) == pc' = [pc EXCEPT ![c] = label]
ReadClock(c) == readAge' = [readAge EXCEPT ![c] = 0]

\* Threads between reading the clock and using what they read.
Holding == {c \in Callers : pc[c] \in {"expiry", "stamp"}}

Tick ==
  /\ \A c \in Holding : readAge[c] < Lag
  /\ openAge' = IF openAge \in {Closed, Expired} THEN openAge ELSE openAge + 1
  /\ readAge' = [c \in Callers |-> IF c \in Holding THEN readAge[c] + 1 ELSE 0]
  /\ UNCHANGED <<failures, pc>>

(***************************************************************************)
(* is_open, as call() evaluates it.                                        *)
(***************************************************************************)
\* _opened_at is None at the first read: the call goes to the LLM.
Attempt(c) ==
  /\ pc[c] = "idle"
  /\ openAge = Closed
  /\ Goto(c, "llm")
  /\ UNCHANGED <<failures, openAge, readAge>>

\* It is not: time() is read, and the thread may be switched out.
AttemptOpen(c) ==
  /\ pc[c] = "idle"
  /\ openAge # Closed
  /\ ReadClock(c)
  /\ Goto(c, "expiry")
  /\ UNCHANGED <<failures, openAge>>

Elapsed(c) == openAge - readAge[c]

\* Mutant: every refused call starts the cooldown again.
RefuseRestamps(c) ==
  /\ pc[c] = "expiry"
  /\ openAge # Closed
  /\ Elapsed(c) <= Cooldown
  /\ openAge' = readAge[c]
  /\ Goto(c, "idle")
  /\ ReadClock(c)
  /\ UNCHANGED failures

Refuse(c) ==
  /\ pc[c] = "expiry"
  /\ openAge # Closed
  /\ Elapsed(c) <= Cooldown
  /\ Goto(c, "idle")
  /\ ReadClock(c)
  /\ UNCHANGED <<failures, openAge>>

\* Mutant: the breaker closes without forgetting its failures.
ExpireKeepsCount(c) ==
  /\ pc[c] = "expiry"
  /\ openAge # Closed
  /\ Elapsed(c) > Cooldown
  /\ openAge' = Closed
  /\ Goto(c, "llm")
  /\ ReadClock(c)
  /\ UNCHANGED failures

\* Mutant: closing takes the threshold off the count instead of clearing it.
ExpireSubtracts(c) ==
  /\ pc[c] = "expiry"
  /\ openAge # Closed
  /\ Elapsed(c) > Cooldown
  /\ openAge' = Closed
  /\ failures' = failures - Threshold
  /\ Goto(c, "llm")
  /\ ReadClock(c)

Expire(c) ==
  /\ pc[c] = "expiry"
  /\ openAge # Closed
  /\ Elapsed(c) > Cooldown
  /\ openAge' = Closed
  /\ failures' = 0
  /\ Goto(c, "llm")
  /\ ReadClock(c)

\* Another thread has closed the breaker since the first read: the second read
\* is None, the subtraction raises, and call() is not inside its try yet.
CheckRaises(c) ==
  /\ pc[c] = "expiry"
  /\ openAge = Closed
  /\ Goto(c, "raised")
  /\ ReadClock(c)
  /\ UNCHANGED <<failures, openAge>>

(***************************************************************************)
(* The call itself.                                                        *)
(***************************************************************************)
\* record_success.
Succeed(c) ==
  /\ pc[c] = "llm"
  /\ failures' = 0
  /\ openAge' = Closed
  /\ Goto(c, "report")
  /\ UNCHANGED readAge

\* Mutant: a failure at the threshold is the last one not to open the breaker.
CountTooLate(c) ==
  /\ failures' = failures + 1
  /\ Goto(c, IF failures + 1 > Threshold THEN "stamp" ELSE "idle")

\* record_failure up to its call to time().
Count(c) ==
  /\ failures' = failures + 1
  /\ Goto(c, IF failures + 1 >= Threshold THEN "stamp" ELSE "idle")

\* The completion, the reading of its answer, or the metrics after
\* record_success raise: they are in the same try.
Fail(c) ==
  /\ pc[c] \in {"llm", "report"}
  /\ Count(c)
  /\ ReadClock(c)
  /\ UNCHANGED openAge

Stamp(c) ==
  /\ pc[c] = "stamp"
  /\ openAge' = readAge[c]
  /\ Goto(c, "idle")
  /\ ReadClock(c)
  /\ UNCHANGED failures

\* call() has returned its result, or raised.
Return(c) ==
  /\ pc[c] \in {"report", "raised"}
  /\ Goto(c, "idle")
  /\ UNCHANGED <<failures, openAge, readAge>>

-----------------------------------------------------------------------------
\* What a thread that is inside call() does next.
Continue(c) ==
  \/ Refuse(c) \/ Expire(c) \/ CheckRaises(c)
  \/ Succeed(c) \/ Fail(c) \/ Stamp(c) \/ Return(c)

Next ==
  \/ Tick
  \/ \E c \in Callers : Attempt(c) \/ AttemptOpen(c) \/ Continue(c)

Spec == Init /\ [][Next]_vars

\* Time passes, and a thread inside call() goes on: litellm has its timeout.
\* Nobody has to call.
FairSpec ==
  /\ Spec
  /\ WF_vars(Tick)
  /\ \A c \in Callers : WF_vars(Continue(c))

-----------------------------------------------------------------------------
Labels == {"idle", "expiry", "llm", "report", "stamp", "raised"}

TypeOK ==
  /\ failures \in Nat
  /\ openAge \in {Closed} \cup 0 .. Expired
  /\ pc \in [Callers -> Labels]
  /\ readAge \in [Callers -> 0 .. Lag]

Stampers == {c \in Callers : pc[c] = "stamp"}
InCall   == {c \in Callers : pc[c] \in {"llm", "report"}}

(***************************************************************************)
(* The breaker is never left closed with its threshold reached: either the *)
(* count is below it, or a thread that has counted is about to stamp.      *)
(***************************************************************************)
OpensWhenDue == openAge = Closed /\ failures >= Threshold => Stampers # {}

(***************************************************************************)
(* However the threads interleave, an endpoint that is down gets at most   *)
(* the threshold's failures, and one more for every other thread that was  *)
(* already inside a call, before the breaker holds it off.                 *)
(***************************************************************************)
OutageContained == failures <= Threshold - 1 + Cardinality(Callers)

(***************************************************************************)
(* Stragglers may stamp an open breaker again, but a refused call does     *)
(* not: the breaker always gets back to where the next call goes through.  *)
(***************************************************************************)
Recovers == []<>(openAge = Closed \/ openAge > Cooldown)

\* The docstring of call(): it returns a dict, breaker open or not.
CallReturns == \A c \in Callers : pc[c] # "raised"
=============================================================================
