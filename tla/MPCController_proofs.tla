------------------------ MODULE MPCController_proofs ------------------------
(***************************************************************************)
(* Proofs about planning, for any number of threads and clusters and any   *)
(* cooldown, lag, gate and suspension threshold.                           *)
(***************************************************************************)
EXTENDS MPCController, TLAPS

(***************************************************************************)
(* A straggler can make the time remembered for a cluster older than the   *)
(* last planning, but by no more than it was switched out.                 *)
(***************************************************************************)
Remembered ==
  \A w \in Workers, c \in Clusters :
    own[w][c] # Never => planned[c] # Never /\ planned[c] <= own[w][c] + Lag

IInv == TypeOK /\ Remembered /\ PlanningsSpaced

-----------------------------------------------------------------------------
LEMMA AgesAreNumbers ==
  /\ Cooldown \in Nat /\ Lag \in Nat
  /\ Cooldown \in Int /\ Lag \in Int /\ Forgotten \in Int /\ Never \in Age
  /\ \A a \in Age : a \in Int
  /\ \A a \in 0 .. Lag : a \in Int
  /\ \A a \in Age : a # Never => a \in 0 .. Forgotten
  /\ \A a \in 0 .. Lag : a \in Age /\ a # Never
BY PlanningAssumption DEF Age, Never, Forgotten

\* What growing older does to an age.
LEMMA Aging ==
  ASSUME NEW a \in Age
  PROVE  /\ Older(a) \in Age
         /\ Older(a) = Never <=> a = Never
         /\ a # Never => /\ Older(a) <= a + 1 /\ Older(a) <= Forgotten
                         /\ Older(a) = a + 1 \/ Older(a) = Forgotten
BY PlanningAssumption DEF Older, Age, Never, Forgotten

LEMMA GotoType ==
  ASSUME TypeOK, NEW w \in Workers, NEW l \in Labels, Goto(w, l)
  PROVE  /\ pc' \in [Workers -> Labels] /\ pc'[w] = l
         /\ \A v \in Workers \ {w} : pc'[v] = pc[v]
BY DEF Goto, TypeOK

LEMMA LeaveType ==
  ASSUME TypeOK, NEW w \in Workers, Leave(w)
  PROVE  /\ pc' \in [Workers -> Labels]
         /\ cluster' \in [Workers -> Clusters \cup {NoCluster}]
         /\ \A v \in Workers : cluster'[v] = NoCluster <=> pc'[v] = "idle"
         /\ instabilities' \in [Workers -> Nat]
         /\ pc'[w] = "idle"
         /\ \A v \in Workers \ {w} : pc'[v] = pc[v] /\ cluster'[v] = cluster[v]
BY GotoType DEF Leave, TypeOK, Labels, Goto

\* A thread that goes to work on a cluster, or goes on with it.
LEMMA WorkType ==
  ASSUME TypeOK, NEW w \in Workers, NEW l \in Labels \ {"idle"}, Goto(w, l),
         \/ UNCHANGED cluster /\ pc[w] # "idle"
         \/ \E c \in Clusters : cluster' = [cluster EXCEPT ![w] = c]
  PROVE  /\ pc' \in [Workers -> Labels]
         /\ cluster' \in [Workers -> Clusters \cup {NoCluster}]
         /\ \A v \in Workers : cluster'[v] = NoCluster <=> pc'[v] = "idle"
<1>1. pc' \in [Workers -> Labels] /\ pc'[w] = l /\ \A v \in Workers \ {w} : pc'[v] = pc[v]
  BY GotoType
<1>2. CASE UNCHANGED cluster /\ pc[w] # "idle"
  BY <1>1, <1>2 DEF TypeOK
<1>3. CASE \E c \in Clusters : cluster' = [cluster EXCEPT ![w] = c]
  <2>1. /\ cluster' \in [Workers -> Clusters \cup {NoCluster}] /\ cluster'[w] \in Clusters
        /\ \A v \in Workers \ {w} : cluster'[v] = cluster[v]
    BY <1>3 DEF TypeOK
  <2> QED
    BY <1>1, <2>1, PlanningAssumption DEF TypeOK
<1> QED
  BY <1>2, <1>3

LEMMA InitTyping == Init => TypeOK
BY PlanningAssumption, AgesAreNumbers DEF Init, TypeOK, Labels

LEMMA StepTyping == ASSUME TypeOK, NEW w \in Workers, Step(w) PROVE TypeOK'
<1>1. pc[w] # "idle" => cluster[w] \in Clusters
  BY DEF TypeOK
<1>2. CASE SkipPlanning(w)
  <2>1. readAge' \in [Workers -> 0 .. Lag]
    BY <1>2, PlanningAssumption DEF SkipPlanning, TypeOK
  <2> QED
    BY <1>2, <2>1, LeaveType DEF SkipPlanning, TypeOK, written
<1>3. CASE DecideToPlan(w) \/ GateOpen(w)
  <2>1. PICK l \in Labels \ {"idle"} : Goto(w, l)
    BY <1>3 DEF DecideToPlan, GateOpen, Labels, Gates
  <2>2. UNCHANGED cluster /\ pc[w] # "idle"
    BY <1>3 DEF DecideToPlan, GateOpen, Gates
  <2> QED
    BY <1>3, <2>1, <2>2, WorkType DEF DecideToPlan, GateOpen, TypeOK, limit, written
<1>4. CASE Stamp(w)
  <2>1. cluster[w] \in Clusters /\ readAge[w] \in Age
    BY <1>1, <1>4, AgesAreNumbers DEF Stamp, TypeOK
  <2>2. planned' \in [Clusters -> Age] /\ own' \in [Workers -> [Clusters -> Age]]
    BY <1>4, <2>1 DEF Stamp, TypeOK
  <2>3. readAge' \in [Workers -> 0 .. Lag]
    BY <1>4, PlanningAssumption DEF Stamp, TypeOK
  <2>4. Goto(w, "activation") /\ UNCHANGED cluster /\ pc[w] # "idle"
    BY <1>4 DEF Stamp
  <2> QED
    BY <1>4, <2>2, <2>3, <2>4, WorkType DEF Stamp, TypeOK, written, Labels, Gates
<1>5. CASE GateClosed(w) \/ OptimizeRaises(w)
  BY <1>5, LeaveType DEF GateClosed, OptimizeRaises, TypeOK, limit, written
<1>6. CASE Predict(w)
  <2>1. instabilities' \in [Workers -> Nat]
    BY <1>6 DEF Predict, TypeOK
  <2>2. Goto(w, "select") /\ UNCHANGED cluster /\ pc[w] # "idle"
    BY <1>6 DEF Predict
  <2> QED
    BY <1>6, <2>1, <2>2, WorkType DEF Predict, TypeOK, limit, written, Labels
<1>7. CASE RecordCycle(w)
  <2>1. suspended' \in [Clusters -> BOOLEAN]
    BY <1>7 DEF RecordCycle, TypeOK, Suspended
  <2>2. streak' \in [Clusters -> 0 .. SuspensionThreshold]
    BY <1>7, PlanningAssumption DEF RecordCycle, TypeOK, Lengthened
  <2> QED
    BY <1>7, <2>1, <2>2, LeaveType DEF RecordCycle, TypeOK, limit
<1> QED
  BY <1>2, <1>3, <1>4, <1>5, <1>6, <1>7 DEF Step

LEMMA NextTyping == TypeOK /\ [Next]_vars => TypeOK'
<1> SUFFICES ASSUME TypeOK, [Next]_vars
             PROVE  TypeOK'
  OBVIOUS
<1>1. CASE Tick
  <2>1. planned' \in [Clusters -> Age] /\ own' \in [Workers -> [Clusters -> Age]]
    BY <1>1, Aging DEF Tick, TypeOK
  <2>2. readAge' \in [Workers -> 0 .. Lag]
    BY <1>1, PlanningAssumption DEF Tick, TypeOK
  <2> QED
    BY <1>1, <2>1, <2>2 DEF Tick, TypeOK, written
<1>2. ASSUME NEW c \in Clusters, HistoryChanges(c)
      PROVE  TypeOK'
  BY <1>2 DEF HistoryChanges, TypeOK, limit, written
<1>3. ASSUME NEW w \in Workers, NEW c \in Clusters, EventArrives(w, c) \/ RequestPlan(w, c)
      PROVE  TypeOK'
  <2>1. PICK l \in {"check", "gate"} : Goto(w, l)
    BY <1>3 DEF EventArrives, RequestPlan
  <2>2. cluster' = [cluster EXCEPT ![w] = c]
    BY <1>3 DEF EventArrives, RequestPlan
  <2> QED
    BY <1>3, <2>1, <2>2, WorkType DEF EventArrives, RequestPlan, TypeOK, limit, written,
       Labels, Gates
<1>4. CASE Restart
  BY <1>4, PlanningAssumption, AgesAreNumbers DEF Restart, TypeOK, Labels, written
<1>5. CASE UNCHANGED vars
  BY <1>5 DEF vars, TypeOK, limit, written
<1> QED
  BY <1>1, <1>2, <1>3, <1>4, <1>5, StepTyping DEF Next

-----------------------------------------------------------------------------
\* Steps that leave the limit alone, and bring no thread to stamp.
LEMMA LimitStays ==
  ASSUME IInv, UNCHANGED <<planned, own>>,
         \A w \in Workers :
           pc'[w] = "stamp" =>
             pc[w] = "stamp" /\ cluster'[w] = cluster[w] /\ readAge'[w] = readAge[w]
  PROVE  Remembered' /\ PlanningsSpaced'
BY DEF IInv, Remembered, PlanningsSpaced

LEMMA DecisionSpaces ==
  ASSUME IInv, NEW w \in Workers, DecideToPlan(w)
  PROVE  Remembered' /\ PlanningsSpaced'
<1>1. UNCHANGED <<planned, own, readAge, cluster>> /\ cluster[w] \in Clusters
  BY DEF DecideToPlan, limit, IInv, TypeOK
<1>2. \A v \in Workers \ {w} : pc'[v] = pc[v]
  BY DEF DecideToPlan, Goto, IInv, TypeOK
<1>3. ASSUME own[w][cluster[w]] # Never
      PROVE  own[w][cluster[w]] - readAge[w] >= Cooldown - Lag
  <2> DEFINE mine == own[w][cluster[w]]
  <2> DEFINE age == planned[cluster[w]]
  <2>1. mine \in Int /\ age \in Int /\ readAge[w] \in Int /\ Cooldown \in Int /\ Lag \in Int
    <3>1. mine \in Age /\ age \in Age /\ readAge[w] \in 0 .. Lag
      BY <1>1 DEF IInv, TypeOK
    <3> QED
      BY <3>1, AgesAreNumbers
  <2>2. age # Never /\ age <= mine + Lag
    BY <1>1, <1>3 DEF IInv, Remembered
  <2>3. age - readAge[w] >= Cooldown
    <3>1. age \in Int /\ readAge[w] \in Int /\ Cooldown \in Int
      BY <2>1
    <3>2. ~ (age - readAge[w] < Cooldown)
      BY <2>2 DEF DecideToPlan, CoolingDown
    <3> QED
      BY <3>1, <3>2
  <2> QED
    BY <2>1, <2>2, <2>3
<1> QED
  BY <1>1, <1>2, <1>3 DEF IInv, Remembered, PlanningsSpaced

LEMMA StampSpaces ==
  ASSUME IInv, NEW w \in Workers, Stamp(w)
  PROVE  Remembered' /\ PlanningsSpaced'
<1> DEFINE c == cluster[w]
<1>1. c \in Clusters /\ readAge[w] \in 0 .. Lag
  BY DEF Stamp, IInv, TypeOK
<1>2. /\ planned'[c] = readAge[w] /\ own'[w][c] = readAge[w]
      /\ \A d \in Clusters \ {c} : planned'[d] = planned[d]
      /\ \A d \in Clusters \ {c} : own'[w][d] = own[w][d]
      /\ \A v \in Workers \ {w} : own'[v] = own[v]
  BY <1>1 DEF Stamp, IInv, TypeOK
<1>3. /\ pc'[w] = "activation" /\ cluster' = cluster
      /\ \A v \in Workers \ {w} : pc'[v] = pc[v] /\ readAge'[v] = readAge[v]
  BY DEF Stamp, Goto, IInv, TypeOK
<1>4. ASSUME NEW v \in Workers, NEW d \in Clusters, own'[v][d] # Never
      PROVE  planned'[d] # Never /\ planned'[d] <= own'[v][d] + Lag
  <2>1. CASE d # c
    <3>1. planned'[d] = planned[d] /\ own'[v][d] = own[v][d]
      BY <1>2, <2>1
    <3> QED
      BY <1>4, <3>1 DEF IInv, Remembered
  <2>2. CASE d = c
    <3>1. own'[v][c] \in 0 .. Forgotten
      BY <1>4, <2>2, NextTyping, AgesAreNumbers DEF IInv, TypeOK, Next, Step
    <3> QED
      BY <1>1, <1>2, <2>2, <3>1, AgesAreNumbers DEF Forgotten
  <2> QED
    BY <2>1, <2>2
<1>5. \A v \in Workers : pc'[v] = "stamp" =>
        /\ v # w /\ pc[v] = "stamp" /\ cluster'[v] = cluster[v]
        /\ readAge'[v] = readAge[v] /\ own'[v] = own[v]
  BY <1>2, <1>3
<1> QED
  BY <1>4, <1>5 DEF IInv, Remembered, PlanningsSpaced

LEMMA TickSpaces ==
  ASSUME IInv, Tick
  PROVE  Remembered' /\ PlanningsSpaced'
<1>1. /\ \A c \in Clusters : planned'[c] = Older(planned[c])
      /\ \A w \in Workers, c \in Clusters : own'[w][c] = Older(own[w][c])
      /\ \A w \in Workers : pc[w] = "stamp" => readAge'[w] = readAge[w] + 1 /\ readAge[w] < Lag
      /\ UNCHANGED <<pc, cluster>>
  BY DEF Tick, Holding
<1>2. /\ \A c \in Clusters : planned[c] \in Age
      /\ \A w \in Workers, c \in Clusters : own[w][c] \in Age
      /\ \A w \in Workers : readAge[w] \in 0 .. Lag
      /\ \A w \in Workers : pc[w] = "stamp" => cluster[w] \in Clusters
  BY DEF IInv, TypeOK
<1>3. ASSUME NEW w \in Workers, NEW c \in Clusters, own'[w][c] # Never
      PROVE  planned'[c] # Never /\ planned'[c] <= own'[w][c] + Lag
  <2>1. own[w][c] # Never /\ planned[c] # Never /\ planned[c] <= own[w][c] + Lag
    BY <1>1, <1>2, <1>3, Aging DEF IInv, Remembered
  <2>2. planned'[c] # Never /\ planned'[c] <= planned[c] + 1 /\ planned'[c] <= Forgotten
    BY <1>1, <1>2, <2>1, Aging
  <2>3. own'[w][c] = own[w][c] + 1 \/ own'[w][c] = Forgotten
    BY <1>1, <1>2, <2>1, Aging
  <2>4. planned[c] \in Age /\ planned'[c] \in Age /\ own[w][c] \in Age
    BY <1>1, <1>2, Aging
  <2>5. planned[c] \in Int /\ planned'[c] \in Int /\ own[w][c] \in Int
    BY <2>4, AgesAreNumbers
  <2>6. Lag \in Nat /\ Forgotten = Cooldown + Lag /\ Cooldown \in Nat
    BY AgesAreNumbers DEF Forgotten
  <2> QED
    BY <2>1, <2>2, <2>3, <2>5, <2>6
<1>4. ASSUME NEW w \in Workers, pc[w] = "stamp", own'[w][cluster[w]] # Never
      PROVE  own'[w][cluster[w]] - readAge'[w] >= Cooldown - Lag
  <2> DEFINE mine == own[w][cluster[w]]
  <2>1. mine \in Age /\ own'[w][cluster[w]] = Older(mine)
    BY <1>1, <1>2, <1>4
  <2>2. mine # Never
    BY <1>4, <2>1, Aging
  <2>3. mine - readAge[w] >= Cooldown - Lag
    BY <1>4, <2>2 DEF IInv, PlanningsSpaced
  <2>4. Older(mine) = mine + 1 \/ Older(mine) = Forgotten
    BY <2>1, <2>2, Aging
  <2>5. readAge'[w] = readAge[w] + 1 /\ readAge[w] < Lag /\ readAge[w] \in Nat
    BY <1>1, <1>2, <1>4, AgesAreNumbers
  <2>6. mine \in Int /\ Cooldown \in Nat /\ Lag \in Nat
    BY <2>1, AgesAreNumbers
  <2> HIDE DEF mine
  <2> QED
    BY <2>1, <2>3, <2>4, <2>5, <2>6 DEF Forgotten
<1> QED
  BY <1>1, <1>3, <1>4 DEF Remembered, PlanningsSpaced

LEMMA NextSpaces == IInv /\ [Next]_vars => IInv'
<1> SUFFICES ASSUME IInv, [Next]_vars
             PROVE  Remembered' /\ PlanningsSpaced'
  BY NextTyping DEF IInv
<1>1. ASSUME NEW c \in Clusters, HistoryChanges(c)
      PROVE  Remembered' /\ PlanningsSpaced'
  BY <1>1, LimitStays DEF HistoryChanges, limit
<1>2. ASSUME NEW w \in Workers,
             \/ SkipPlanning(w) \/ GateClosed(w) \/ GateOpen(w) \/ Predict(w)
             \/ OptimizeRaises(w) \/ RecordCycle(w)
      PROVE  Remembered' /\ PlanningsSpaced'
  <2>1. /\ UNCHANGED <<planned, own>>
        /\ \A v \in Workers \ {w} :
             pc'[v] = pc[v] /\ cluster'[v] = cluster[v] /\ readAge'[v] = readAge[v]
    BY <1>2 DEF SkipPlanning, GateClosed, GateOpen, Predict, OptimizeRaises, RecordCycle,
       Leave, Goto, limit, IInv, TypeOK
  <2>2. pc'[w] # "stamp"
    BY <1>2 DEF SkipPlanning, GateClosed, GateOpen, Predict, OptimizeRaises, RecordCycle,
       Leave, Goto, IInv, TypeOK
  <2> QED
    BY <2>1, <2>2, LimitStays
<1>3. ASSUME NEW w \in Workers, NEW c \in Clusters, EventArrives(w, c) \/ RequestPlan(w, c)
      PROVE  Remembered' /\ PlanningsSpaced'
  <2>1. /\ UNCHANGED <<planned, own>>
        /\ \A v \in Workers \ {w} :
             pc'[v] = pc[v] /\ cluster'[v] = cluster[v] /\ readAge'[v] = readAge[v]
        /\ pc'[w] # "stamp"
    BY <1>3 DEF EventArrives, RequestPlan, Goto, limit, IInv, TypeOK
  <2> QED
    BY <2>1, LimitStays
<1>4. CASE Restart
  BY <1>4 DEF Restart, Remembered, PlanningsSpaced
<1>5. CASE UNCHANGED vars
  BY <1>5, LimitStays DEF vars, limit
<1> QED
  BY <1>1, <1>2, <1>3, <1>4, <1>5, TickSpaces, StampSpaces, DecisionSpaces DEF Next, Step

LEMMA InitSpaces == Init => IInv
BY InitTyping DEF Init, IInv, Remembered, PlanningsSpaced

\* Every variable of planning keeps its type.
THEOREM Typing == Spec => []TypeOK
BY InitTyping, NextTyping, PTL DEF Spec

\* One thread's plannings of a cluster are a cooldown apart, less the lag,
\* however the other threads overwrite what it remembers.
THEOREM Spacing == Spec => []PlanningsSpaced
<1>1. IInv => PlanningsSpaced
  BY DEF IInv
<1> QED
  BY <1>1, InitSpaces, NextSpaces, PTL DEF Spec
=============================================================================
