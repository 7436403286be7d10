--------------------------- MODULE MPCController ---------------------------
(***************************************************************************)
(* Planning: the hourly limit the pipeline puts on it, and the cycle of    *)
(* the LLM-MPC controller with its activation gate and its suspension. The *)
(* limit is a check-then-act on a module-level dictionary, without a lock: *)
(* between reading the clock, reading the last planning and writing the    *)
(* new one a thread can be switched out (Lag ticks at most).               *)
(*                                                                         *)
(* Time is kept as ages: of the last planning, and of the clock readings.  *)
(***************************************************************************)
EXTENDS Integers

CONSTANTS
  Workers,             \* threads
  Clusters,
  Cooldown,            \* _MPC_COOLDOWN
  Lag,                 \* bound: ticks between a thread's clock reading and its use
  MinRecords,          \* classifications the activation gate asks for
  SuspensionThreshold, \* _suspension_threshold
  NoCluster            \* the cluster of a thread that plans nothing

ASSUME PlanningAssumption ==
  /\ Cooldown \in Nat /\ Lag \in Nat
  /\ MinRecords \in Nat /\ SuspensionThreshold \in Nat \ {0}
  /\ NoCluster \notin Clusters

Never == -1
\* Older than this, a planning limits nobody and is far from every other.
Forgotten == Cooldown + Lag

VARIABLES
  planned,       \* age of _mpc_last_planned, per cluster; Never if absent
  records,       \* classifications in the window whose bundle id has the cluster's id
  pc,
  cluster,       \* the cluster a thread plans for
  readAge,       \* age of the thread's clock reading
  instabilities, \* _consecutive_instabilities of the thread's controller
  suspended,     \* the last cycle recorded for a cluster was suspended
  streak,        \* unstable cycles recorded in a row for a cluster
  own            \* age of the clock reading a thread last stamped, per cluster

limit   == <<planned, readAge, own>>
written == <<suspended, streak>>
vars == <<limit, records, pc, cluster, instabilities, written>>

Init ==
  /\ planned = [c \in Clusters |-> Never]
  /\ records = [c \in Clusters |-> 0]
  /\ pc = [w \in Workers |-> "idle"]
  /\ cluster = [w \in Workers |-> NoCluster]
  /\ readAge = [w \in Workers |-> 0]
  /\ instabilities = [w \in Workers |-> 0]
  /\ suspended = [c \in Clusters |-> FALSE]
  /\ streak = [c \in Clusters |-> 0]
  /\ own = [w \in Workers |-> [c \in Clusters |-> Never]]

Goto(w, label) == pc' = [pc EXCEPT ![w] = label]

\* The thread is done with the cluster, and with its controller.
Leave(w) ==
  /\ Goto(w, "idle")
  /\ cluster' = [cluster EXCEPT ![w] = NoCluster]
  /\ instabilities' = [instabilities EXCEPT ![w] = 0]

-----------------------------------------------------------------------------
Holding == {w \in Workers : pc[w] \in {"check", "stamp"}}

Older(age) == IF age \in {Never, Forgotten} THEN age ELSE age + 1

Tick ==
  /\ \A w \in Holding : readAge[w] < Lag
  /\ planned' = [c \in Clusters |-> Older(planned[c])]
  /\ own' = [w \in Workers |-> [c \in Clusters |-> Older(own[w][c])]]
  /\ readAge' = [w \in Workers |-> IF w \in Holding THEN readAge[w] + 1 ELSE 0]
  /\ UNCHANGED <<records, pc, cluster, instabilities, written>>

\* Classifications are stored, and leave the window of min_history_weeks.
HistoryChanges(c) ==
  /\ \E n \in {records[c] - 1, records[c] + 1} :
       n \in 0 .. MinRecords /\ records' = [records EXCEPT ![c] = n]
  /\ UNCHANGED <<limit, pc, cluster, instabilities, written>>

(***************************************************************************)
(* _should_plan_mpc.                                                       *)
(***************************************************************************)
\* The clock is read.
EventArrives(w, c) ==
  /\ pc[w] = "idle"
  /\ cluster' = [cluster EXCEPT ![w] = c]
  /\ Goto(w, "check")
  /\ UNCHANGED <<limit, records, instabilities, written>>

\* now - last < _MPC_COOLDOWN, where last may be newer than now.
CoolingDown(w) ==
  LET age == planned[cluster[w]] IN age # Never /\ age - readAge[w] < Cooldown

SkipPlanning(w) ==
  /\ pc[w] = "check"
  /\ CoolingDown(w)
  /\ readAge' = [readAge EXCEPT ![w] = 0]
  /\ Leave(w)
  /\ UNCHANGED <<planned, own, records, written>>

DecideToPlan(w) ==
  /\ pc[w] = "check"
  /\ ~ CoolingDown(w)
  /\ Goto(w, "stamp")
  /\ UNCHANGED <<limit, records, cluster, instabilities, written>>

\* Mutant: only the first planning of a cluster is remembered.
StampOnce(w) ==
  LET c == cluster[w] IN
  /\ pc[w] = "stamp"
  /\ planned' = [planned EXCEPT ![c] = IF @ = Never THEN readAge[w] ELSE @]
  /\ own' = [own EXCEPT ![w][c] = readAge[w]]
  /\ readAge' = [readAge EXCEPT ![w] = 0]
  /\ Goto(w, "activation")
  /\ UNCHANGED <<records, cluster, instabilities, written>>

\* The dictionary is written, whatever has been written since it was read.
Stamp(w) ==
  LET c == cluster[w] IN
  /\ pc[w] = "stamp"
  /\ planned' = [planned EXCEPT ![c] = readAge[w]]
  /\ own' = [own EXCEPT ![w][c] = readAge[w]]
  /\ readAge' = [readAge EXCEPT ![w] = 0]
  /\ Goto(w, "activation")
  /\ UNCHANGED <<records, cluster, instabilities, written>>

\* POST /mpc/plan has no such limit.
RequestPlan(w, c) ==
  /\ pc[w] = "idle"
  /\ cluster' = [cluster EXCEPT ![w] = c]
  /\ Goto(w, "gate")
  /\ UNCHANGED <<limit, records, instabilities, written>>

(***************************************************************************)
(* plan, on a controller made for this request. The pipeline asks for the  *)
(* activation gate before it plans, and plan asks again.                   *)
(***************************************************************************)
Gates == {"activation", "gate"}

\* The hour's planning is spent nevertheless.
GateClosed(w) ==
  /\ pc[w] \in Gates
  /\ records[cluster[w]] < MinRecords
  /\ Leave(w)
  /\ UNCHANGED <<limit, records, written>>

GateOpen(w) ==
  /\ pc[w] \in Gates
  /\ records[cluster[w]] >= MinRecords
  /\ Goto(w, IF pc[w] = "activation" THEN "gate" ELSE "predict")
  /\ UNCHANGED <<limit, records, cluster, instabilities, written>>

\* Mutant: a stable cycle takes one off the count instead of clearing it.
PredictDecrements(w) ==
  /\ pc[w] = "predict"
  /\ \E n \in {instabilities[w] + 1, instabilities[w] - 1} :
       instabilities' = [instabilities EXCEPT ![w] = n]
  /\ Goto(w, "select")
  /\ UNCHANGED <<limit, records, cluster, written>>

\* predict and _check_suspension; a call that fails scores 0, which is unstable.
Predict(w) ==
  /\ pc[w] = "predict"
  /\ \E n \in {instabilities[w] + 1, 0} :
       instabilities' = [instabilities EXCEPT ![w] = n]
  /\ Goto(w, "select")
  /\ UNCHANGED <<limit, records, cluster, written>>

Suspended(w) == instabilities[w] >= SuspensionThreshold

\* optimize meets scores that are no objects: nothing is recorded.
OptimizeRaises(w) ==
  /\ pc[w] = "select"
  /\ ~ Suspended(w)
  /\ Leave(w)
  /\ UNCHANGED <<limit, records, written>>

\* Counting further than the threshold tells nothing more.
Lengthened(n) == IF n < SuspensionThreshold THEN n + 1 ELSE n

\* The cycle is stored and committed, then published.
RecordCycle(w) ==
  LET c == cluster[w] IN
  /\ pc[w] = "select"
  /\ suspended' = [suspended EXCEPT ![c] = Suspended(w)]
  /\ streak' = [streak EXCEPT ![c] = IF instabilities[w] > 0 THEN Lengthened(@) ELSE 0]
  /\ Leave(w)
  /\ UNCHANGED <<limit, records>>

\* The process restarts: what the database does not hold is lost, the limit too.
Restart ==
  /\ planned' = [c \in Clusters |-> Never]
  /\ own' = [w \in Workers |-> [c \in Clusters |-> Never]]
  /\ readAge' = [w \in Workers |-> 0]
  /\ pc' = [w \in Workers |-> "idle"]
  /\ cluster' = [w \in Workers |-> NoCluster]
  /\ instabilities' = [w \in Workers |-> 0]
  /\ UNCHANGED <<records, written>>

-----------------------------------------------------------------------------
Step(w) ==
  \/ SkipPlanning(w) \/ DecideToPlan(w) \/ Stamp(w)
  \/ GateClosed(w) \/ GateOpen(w) \/ Predict(w) \/ OptimizeRaises(w) \/ RecordCycle(w)

Next ==
  \/ Tick
  \/ \E c \in Clusters : HistoryChanges(c)
  \/ \E w \in Workers : Step(w)
  \/ \E w \in Workers, c \in Clusters : EventArrives(w, c) \/ RequestPlan(w, c)
  \/ Restart

Spec == Init /\ [][Next]_vars

-----------------------------------------------------------------------------
Labels == {"idle", "check", "stamp", "predict", "select"} \cup Gates

Age == {Never} \cup 0 .. Forgotten

\* A thread at work has a cluster to work for, and every age is in its range.
TypeOK ==
  /\ planned \in [Clusters -> Age]
  /\ records \in [Clusters -> 0 .. MinRecords]
  /\ pc \in [Workers -> Labels]
  /\ cluster \in [Workers -> Clusters \cup {NoCluster}]
  /\ \A w \in Workers : cluster[w] = NoCluster <=> pc[w] = "idle"
  /\ readAge \in [Workers -> 0 .. Lag]
  /\ instabilities \in [Workers -> Nat]
  /\ suspended \in [Clusters -> BOOLEAN]
  /\ streak \in [Clusters -> 0 .. SuspensionThreshold]
  /\ own \in [Workers -> [Clusters -> Age]]

(***************************************************************************)
(* The limit is not once per hour: two threads may both find the cluster   *)
(* due, and the slower one writes an older time over a newer one. But one  *)
(* thread's plannings of a cluster are a cooldown apart, short of the time *)
(* a thread was switched out: so a cooldown sees at most about one event's *)
(* planning per thread, however many events there are.                     *)
(***************************************************************************)
PlanningsSpaced ==
  \A w \in Workers :
    pc[w] = "stamp" /\ own[w][cluster[w]] # Never =>
      own[w][cluster[w]] - readAge[w] >= Cooldown - Lag

(***************************************************************************)
(* PERSISTENCE.md 1.5 and SBE.md 4: the third unstable cycle in a row of a *)
(* cluster is suspended.                                                   *)
(***************************************************************************)
InstabilitySuspends ==
  \A c \in Clusters : streak[c] >= SuspensionThreshold => suspended[c]
=============================================================================
