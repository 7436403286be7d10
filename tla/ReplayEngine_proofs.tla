------------------------ MODULE ReplayEngine_proofs ------------------------
(***************************************************************************)
(* Proofs about the replay, for any number of engines and starts, any      *)
(* archive and any pause points.                                           *)
(***************************************************************************)
EXTENDS ReplayEngine, TLAPS

(***************************************************************************)
(* While a pause or stop is in force one of the attributes says so, and a  *)
(* thread that has emitted since is before its next look at them.          *)
(***************************************************************************)
Obeyed(e) ==
  halted[e] =>
    /\ ~ running[e] \/ paused[e]
    /\ \A k \in late[e] : pc[e][k] \notin {"emit", "pausePoint"}

\* A thread about to emit is at an event of the archive.
Within ==
  \A e \in Engines, k \in Replays :
    pc[e][k] \in {"emit", "pausePoint"} => offset[e][k] # Length

IInv == TypeOK /\ Within /\ \A e \in Engines : Obeyed(e)

-----------------------------------------------------------------------------
LEMMA GotoMoves ==
  ASSUME TypeOK, NEW e \in Engines, NEW k \in Replays, NEW l \in Labels, Goto(e, k, l)
  PROVE  /\ pc' \in [Engines -> [Replays -> Labels]]
         /\ pc'[e][k] = l
         /\ \A f \in Engines, j \in Replays : f # e \/ j # k => pc'[f][j] = pc[f][j]
BY DEF Goto, TypeOK

LEMMA InitTyping == Init => TypeOK /\ Within
<1>1. 0 \in 0 .. MaxStarts /\ 0 \in 0 .. Length /\ Length \in 0 .. Length
  BY ReplayAssumption
<1>2. "none" \in Labels
  BY DEF Labels
<1> SUFFICES ASSUME Init
             PROVE  TypeOK /\ Within
  OBVIOUS
<1>3. pc \in [Engines -> [Replays -> Labels]]
  BY <1>2 DEF Init
<1>4. /\ offset \in [Engines -> [Replays -> 0 .. Length]]
      /\ pauseAt \in [Engines -> [Replays -> 0 .. Length]]
  BY <1>1 DEF Init
<1>5. starts \in [Engines -> 0 .. MaxStarts]
  BY <1>1 DEF Init
<1>6. late \in [Engines -> SUBSET Replays]
  BY DEF Init
<1> QED
  BY <1>3, <1>4, <1>5, <1>6 DEF Init, TypeOK, Within

LEMMA StepTyping ==
  ASSUME TypeOK, Within, NEW e \in Engines, NEW k \in Replays, Step(e, k)
  PROVE  TypeOK' /\ Within'
<1>1. CASE \/ End(e, k) \/ WaitWhilePaused(e, k) \/ ReturnWhilePaused(e, k)
           \/ PauseHere(e, k) \/ GoOn(e, k) \/ LeavePausePoint(e, k) \/ EventRaises(e, k)
  <2>1. PICK l \in Labels : Goto(e, k, l)
    BY <1>1 DEF End, WaitWhilePaused, ReturnWhilePaused, PauseHere, GoOn, LeavePausePoint,
       EventRaises, Labels
  <2>2. running' \in [Engines -> BOOLEAN] /\ paused' \in [Engines -> BOOLEAN]
    BY <1>1 DEF End, WaitWhilePaused, ReturnWhilePaused, PauseHere, GoOn, LeavePausePoint,
       EventRaises, attributes, TypeOK
  <2>3. UNCHANGED <<starts, offset, pauseAt, orders>>
    BY <1>1 DEF End, WaitWhilePaused, ReturnWhilePaused, PauseHere, GoOn, LeavePausePoint,
       EventRaises
  <2>4. pc'[e][k] \in {"emit", "pausePoint"} => offset[e][k] # Length
    BY <1>1, GotoMoves DEF End, WaitWhilePaused, ReturnWhilePaused, PauseHere, GoOn,
       LeavePausePoint, EventRaises, Passing, Exhausted, Within, Labels
  <2>5. TypeOK'
    BY <2>1, <2>2, <2>3, GotoMoves DEF TypeOK, orders
  <2>6. Within'
    BY <2>1, <2>3, <2>4, GotoMoves DEF Within
  <2> QED
    BY <2>5, <2>6
<1>2. CASE Emit(e, k)
  <2>1. Goto(e, k, "top") /\ "top" \in Labels
    BY <1>2 DEF Emit, Labels
  <2>2. offset[e][k] \in 0 .. Length /\ offset[e][k] # Length
    BY <1>2 DEF Emit, TypeOK, Within
  <2>3. offset[e][k] + 1 \in 0 .. Length
    BY <2>2, ReplayAssumption
  <2>4. /\ offset' \in [Engines -> [Replays -> 0 .. Length]]
        /\ \A f \in Engines, j \in Replays : f # e \/ j # k => offset'[f][j] = offset[f][j]
    BY <1>2, <2>3 DEF Emit, TypeOK
  <2>5. late' \in [Engines -> SUBSET Replays]
    BY <1>2 DEF Emit, TypeOK
  <2>6. TypeOK'
    BY <1>2, <2>1, <2>4, <2>5, GotoMoves DEF Emit, TypeOK, attributes
  <2>7. Within'
    BY <2>1, <2>4, GotoMoves DEF Within
  <2> QED
    BY <2>6, <2>7
<1> QED
  BY <1>1, <1>2 DEF Step

LEMMA StartTyping ==
  ASSUME TypeOK, Within, NEW e \in Engines, NEW p \in PausePoints, Start(e, p)
  PROVE  TypeOK' /\ Within'
<1> DEFINE k == starts[e] + 1
<1>1. k \in Replays /\ k \in 0 .. MaxStarts /\ p \in 0 .. Length
  BY ReplayAssumption DEF Start, Replays
<1>2. Goto(e, k, "top") /\ "top" \in Labels
  BY DEF Start, Labels
<1>3. pc' \in [Engines -> [Replays -> Labels]]
  BY <1>1, <1>2, GotoMoves
<1>4. starts' \in [Engines -> 0 .. MaxStarts] /\ pauseAt' \in [Engines -> [Replays -> 0 .. Length]]
  BY <1>1 DEF Start, TypeOK
<1>5. running' \in [Engines -> BOOLEAN] /\ paused' \in [Engines -> BOOLEAN]
  BY DEF Start, TypeOK
<1>6. Within'
  <2>1. pc'[e][k] = "top" /\ UNCHANGED offset
        /\ \A f \in Engines, j \in Replays : f # e \/ j # k => pc'[f][j] = pc[f][j]
    BY <1>1, <1>2, GotoMoves DEF Start
  <2> QED
    BY <2>1 DEF Within
<1> QED
  BY <1>3, <1>4, <1>5, <1>6 DEF Start, Released, TypeOK

LEMMA NextTyping == TypeOK /\ Within /\ [Next]_vars => TypeOK' /\ Within'
<1> SUFFICES ASSUME TypeOK, Within, [Next]_vars
             PROVE  TypeOK' /\ Within'
  OBVIOUS
<1>1. ASSUME NEW e \in Engines, Pause(e) \/ Resume(e) \/ Stop(e)
      PROVE  TypeOK' /\ Within'
  <2>1. running' \in [Engines -> BOOLEAN] /\ paused' \in [Engines -> BOOLEAN]
    BY <1>1 DEF Pause, Resume, Stop, TypeOK
  <2>2. /\ halted' \in [Engines -> BOOLEAN] /\ late' \in [Engines -> SUBSET Replays]
    BY <1>1 DEF Pause, Resume, Stop, Halted, Released, orders, TypeOK
  <2>3. UNCHANGED threads
    BY <1>1 DEF Pause, Resume, Stop
  <2> QED
    BY <2>1, <2>2, <2>3 DEF threads, TypeOK, Within
<1>2. CASE UNCHANGED vars
  BY <1>2 DEF vars, attributes, threads, orders, TypeOK, Within
<1> QED
  BY <1>1, <1>2, StartTyping, StepTyping DEF Next, Call, RequestStart

-----------------------------------------------------------------------------
(***************************************************************************)
(* A thread's step disturbs its own engine at most, and only by passing    *)
(* the look at the attributes or by emitting.                              *)
(***************************************************************************)
LEMMA StepObeys ==
  ASSUME IInv, NEW e \in Engines, NEW k \in Replays, Step(e, k), NEW f \in Engines
  PROVE  Obeyed(f)'
<1> TypeOK /\ Obeyed(e) /\ Obeyed(f)
  BY DEF IInv
<1>1. CASE End(e, k) \/ WaitWhilePaused(e, k) \/ ReturnWhilePaused(e, k) \/ EventRaises(e, k)
  <2>1. PICK l \in Labels \ {"emit", "pausePoint"} : Goto(e, k, l)
    BY <1>1 DEF End, WaitWhilePaused, ReturnWhilePaused, EventRaises, Labels
  <2>2. UNCHANGED <<paused, halted, late>> /\ \A g \in Engines : running'[g] => running[g]
    BY <1>1 DEF End, WaitWhilePaused, ReturnWhilePaused, EventRaises, attributes, orders, TypeOK
  <2>3. \A j \in late[f] : j \in Replays
    BY DEF TypeOK
  <2> QED
    BY <2>1, <2>2, <2>3, GotoMoves DEF Obeyed
<1>2. CASE PauseHere(e, k) \/ GoOn(e, k)
  <2>1. ~ halted[e]
    BY <1>2 DEF PauseHere, GoOn, Passing, Unpaused, Obeyed
  <2>2. PICK l \in Labels : Goto(e, k, l)
    BY <1>2 DEF PauseHere, GoOn, Labels
  <2>3. UNCHANGED <<running, halted, late>> /\ \A g \in Engines \ {e} : paused'[g] = paused[g]
    BY <1>2 DEF PauseHere, GoOn, attributes, orders, TypeOK
  <2>4. \A j \in late[f] : j \in Replays
    BY DEF TypeOK
  <2> QED
    BY <2>1, <2>2, <2>3, <2>4, GotoMoves DEF Obeyed
<1>3. CASE LeavePausePoint(e, k)
  <2>1. halted[e] => k \notin late[e]
    BY <1>3 DEF LeavePausePoint, Obeyed
  <2>2. Goto(e, k, "emit") /\ "emit" \in Labels /\ UNCHANGED <<running, paused, halted, late>>
    BY <1>3 DEF LeavePausePoint, Labels, attributes, orders
  <2>3. \A j \in late[f] : j \in Replays
    BY DEF TypeOK
  <2> QED
    BY <2>1, <2>2, <2>3, GotoMoves DEF Obeyed
<1>4. CASE Emit(e, k)
  <2>1. Goto(e, k, "top") /\ "top" \in Labels /\ UNCHANGED <<running, paused, halted>>
    BY <1>4 DEF Emit, Labels, attributes
  <2>2. \A g \in Engines : late'[g] \subseteq late[g] \cup {k} /\ (g # e => late'[g] = late[g])
    BY <1>4 DEF Emit, TypeOK
  <2>3. \A j \in late[f] : j \in Replays
    BY DEF TypeOK
  <2> QED
    BY <2>1, <2>2, <2>3, GotoMoves DEF Obeyed
<1> QED
  BY <1>1, <1>2, <1>3, <1>4 DEF Step

LEMMA CallObeys ==
  ASSUME IInv, NEW e \in Engines, Call(e), NEW f \in Engines
  PROVE  Obeyed(f)'
<1> TypeOK /\ Obeyed(e) /\ Obeyed(f)
  BY DEF IInv
<1>1. ASSUME NEW p \in PausePoints, Start(e, p)
      PROVE  Obeyed(f)'
  <2>1. CASE f = e
    BY <1>1, <2>1 DEF Start, Released, Obeyed, TypeOK
  <2>2. CASE f # e
    BY <1>1, <2>2 DEF Start, Released, Goto, Obeyed, TypeOK
  <2> QED
    BY <2>1, <2>2
<1>2. CASE Pause(e) \/ Stop(e)
  <2>1. CASE f = e
    BY <1>2, <2>1 DEF Pause, Stop, Halted, threads, Obeyed, TypeOK
  <2>2. CASE f # e
    BY <1>2, <2>2 DEF Pause, Stop, Halted, threads, Obeyed, TypeOK
  <2> QED
    BY <2>1, <2>2
<1>3. CASE Resume(e)
  <2>1. CASE f = e /\ running[e]
    BY <1>3, <2>1 DEF Resume, Released, Obeyed, TypeOK
  <2>2. CASE f # e \/ ~ running[e]
    BY <1>3, <2>2 DEF Resume, Released, threads, orders, Obeyed, TypeOK
  <2> QED
    BY <2>1, <2>2
<1> QED
  BY <1>1, <1>2, <1>3 DEF Call, RequestStart

LEMMA Initially == Init => IInv
BY InitTyping DEF Init, IInv, Obeyed

LEMMA NextObeys == IInv /\ [Next]_vars => IInv'
<1> SUFFICES ASSUME IInv, [Next]_vars
             PROVE  IInv'
  OBVIOUS
<1>1. TypeOK' /\ Within'
  BY NextTyping DEF IInv
<1>2. CASE UNCHANGED vars
  BY <1>1, <1>2 DEF vars, attributes, threads, orders, IInv, Obeyed
<1> QED
  BY <1>1, <1>2, StepObeys, CallObeys DEF IInv, Next

\* Every variable of the replay keeps its type; no thread goes beyond the archive.
THEOREM Typing == Spec => []TypeOK
BY InitTyping, NextTyping, PTL DEF Spec

\* After a pause or a stop no thread of the engine emits more than one event,
\* however many threads an engine has and wherever they were.
THEOREM Halting == Spec => HaltHolds
<1> DEFINE Obedient ==
      \A e \in Engines, k \in Replays : Emit(e, k) /\ halted[e] => k \notin late[e]
<1>1. IInv => Obedient
  BY DEF IInv, Obeyed, Emit
<1>2. IInv /\ [Next]_vars => [Obedient]_vars
  BY <1>1
<1> QED
  BY <1>2, Initially, NextObeys, PTL DEF Spec, HaltHolds
-----------------------------------------------------------------------------
(***************************************************************************)
(* How long a thread can go on. Its rank is a bound on the steps it has    *)
(* left, whatever its engine's callers do: four for every event it is not  *)
(* past, and its end.                                                      *)
(***************************************************************************)
LabelRank == [none |-> 5, top |-> 4, held |-> 3, pausePoint |-> 2, emit |-> 1]

ThreadRank(e, k) ==
  IF pc[e][k] = "done" THEN 0
  ELSE 4 * (Length - offset[e][k]) + LabelRank[pc[e][k]]

\* A replay that has not been started has no thread.
Unstarted == \A e \in Engines, k \in Replays : k > starts[e] => pc[e][k] = "none"

LEMMA StepKeepsOthers ==
  ASSUME TypeOK, NEW e \in Engines, NEW k \in Replays, Step(e, k)
  PROVE  /\ \A f \in Engines, j \in Replays :
              f # e \/ j # k => pc'[f][j] = pc[f][j] /\ offset'[f][j] = offset[f][j]
         /\ pc[e][k] # "none" /\ UNCHANGED starts
<1>1. PICK l \in Labels : Goto(e, k, l)
  BY DEF Step, End, WaitWhilePaused, ReturnWhilePaused, PauseHere, GoOn, LeavePausePoint,
     Emit, EventRaises, Labels
<1>2. \A f \in Engines, j \in Replays : f # e \/ j # k => pc'[f][j] = pc[f][j]
  BY <1>1, GotoMoves
<1>3. \A f \in Engines, j \in Replays : f # e \/ j # k => offset'[f][j] = offset[f][j]
  <2>1. CASE Emit(e, k)
    BY <2>1 DEF Emit, TypeOK
  <2>2. CASE ~ Emit(e, k)
    BY <2>2 DEF Step, End, WaitWhilePaused, ReturnWhilePaused, PauseHere, GoOn,
       LeavePausePoint, EventRaises
  <2> QED
    BY <2>1, <2>2
<1>4. pc[e][k] # "none" /\ UNCHANGED starts
  BY DEF Step, End, WaitWhilePaused, ReturnWhilePaused, PauseHere, GoOn, LeavePausePoint,
     Emit, EventRaises, Passing
<1> QED
  BY <1>2, <1>3, <1>4

LEMMA RankType ==
  ASSUME TypeOK, NEW e \in Engines, NEW k \in Replays
  PROVE  /\ ThreadRank(e, k) \in 0 .. 4 * Length + 5
         /\ pc[e][k] # "done" => ThreadRank(e, k) > 0
<1>1. offset[e][k] \in 0 .. Length /\ Length \in Nat /\ pc[e][k] \in Labels
  BY ReplayAssumption DEF TypeOK
<1>2. pc[e][k] # "done" => LabelRank[pc[e][k]] \in 1 .. 5
  BY <1>1 DEF LabelRank, Labels
<1> QED
  BY <1>1, <1>2 DEF ThreadRank

Ranked == \A e \in Engines, k \in Replays : ThreadRank(e, k) \in Int

LEMMA RankedNext == TypeOK' => Ranked'
<1>1. TypeOK => Ranked
  BY RankType DEF Ranked
<1> QED
  BY <1>1, PTL

LEMMA StepRank ==
  ASSUME TypeOK, Within, NEW e \in Engines, NEW k \in Replays, Step(e, k)
  PROVE  ThreadRank(e, k)' < ThreadRank(e, k)
<1>1. offset[e][k] \in 0 .. Length /\ Length \in Nat /\ pc[e][k] \in Labels
  BY ReplayAssumption DEF TypeOK
<1>2. CASE End(e, k) \/ ReturnWhilePaused(e, k) \/ EventRaises(e, k)
  <2>1. pc'[e][k] = "done" /\ pc[e][k] # "done"
    BY <1>2, GotoMoves DEF End, ReturnWhilePaused, EventRaises, Labels
  <2> QED
    BY <2>1, RankType DEF ThreadRank
<1>3. CASE WaitWhilePaused(e, k) \/ PauseHere(e, k) \/ GoOn(e, k) \/ LeavePausePoint(e, k)
  <2>1. /\ UNCHANGED offset
        /\ \/ pc[e][k] = "top" /\ pc'[e][k] \in {"held", "pausePoint", "emit"}
           \/ pc[e][k] = "held" /\ pc'[e][k] \in {"pausePoint", "emit"}
           \/ pc[e][k] = "pausePoint" /\ pc'[e][k] = "emit"
    BY <1>3, GotoMoves
    DEF WaitWhilePaused, PauseHere, GoOn, LeavePausePoint, Passing, Labels
  <2> QED
    BY <1>1, <2>1 DEF ThreadRank, LabelRank
<1>4. CASE Emit(e, k)
  <2>1. pc[e][k] = "emit" /\ pc'[e][k] = "top"
    BY <1>4, GotoMoves DEF Emit, Labels
  <2>2. offset'[e][k] = offset[e][k] + 1
    BY <1>4 DEF Emit, TypeOK
  <2> QED
    BY <1>1, <2>1, <2>2 DEF ThreadRank, LabelRank
<1> QED
  BY <1>2, <1>3, <1>4 DEF Step

LEMMA StartRank ==
  ASSUME TypeOK, Unstarted, NEW e \in Engines, NEW p \in PausePoints, Start(e, p)
  PROVE  /\ Unstarted'
         /\ \A f \in Engines, j \in Replays : ThreadRank(f, j)' <= ThreadRank(f, j)
<1> DEFINE k == starts[e] + 1
<1>1. k \in Replays /\ k > starts[e] /\ starts[e] \in Nat
  BY ReplayAssumption DEF Start, Replays, TypeOK
<1>2. Goto(e, k, "top") /\ "top" \in Labels /\ UNCHANGED offset
  BY DEF Start, Labels
<1>3. pc[e][k] = "none"
  BY <1>1 DEF Unstarted
<1>4. /\ pc'[e][k] = "top"
      /\ \A f \in Engines, j \in Replays : f # e \/ j # k => pc'[f][j] = pc[f][j]
  BY <1>1, <1>2, GotoMoves
<1>5. starts'[e] = k /\ \A f \in Engines : f # e => starts'[f] = starts[f]
  BY DEF Start, TypeOK
<1> HIDE DEF k
<1>6. Unstarted'
  <2> SUFFICES ASSUME NEW f \in Engines, NEW j \in Replays, j > starts'[f]
               PROVE  pc'[f][j] = "none"
    BY DEF Unstarted
  <2>1. j # k \/ f # e
    BY <1>1, <1>5 DEF Replays
  <2>2. j > starts[f]
    BY <1>1, <1>5 DEF Replays, k
  <2> QED
    BY <1>4, <2>1, <2>2 DEF Unstarted
<1>7. ASSUME NEW f \in Engines, NEW j \in Replays
      PROVE  ThreadRank(f, j)' <= ThreadRank(f, j)
  <2>1. offset[f][j] \in 0 .. Length /\ Length \in Nat
    BY ReplayAssumption DEF TypeOK
  <2>2. CASE f = e /\ j = k
    BY <1>2, <1>3, <1>4, <2>1, <2>2 DEF ThreadRank, LabelRank
  <2>3. CASE f # e \/ j # k
    <3>1. ThreadRank(f, j)' = ThreadRank(f, j) /\ ThreadRank(f, j) \in Int
      BY <1>2, <1>4, <2>3, RankType DEF ThreadRank
    <3> QED
      BY <3>1
  <2> QED
    BY <2>2, <2>3
<1> QED
  BY <1>6, <1>7

\* Every step of a thread uses up some of its rank, and nothing ever adds to
\* it: no pause, resume, stop or further start, and no other thread.
ThreadsShrink ==
  [][\A e \in Engines, k \in Replays :
       /\ ThreadRank(e, k)' <= ThreadRank(e, k)
       /\ Step(e, k) => ThreadRank(e, k)' < ThreadRank(e, k)]_vars

\* A thread never takes more than 4 * Length + 5 steps, however often it is
\* paused and resumed and whoever shares its engine: what Settles leaves to
\* fairness is only that it takes them.
THEOREM ThreadsRun == Spec => ThreadsShrink
<1> DEFINE Shrink ==
      \A e \in Engines, k \in Replays :
        /\ ThreadRank(e, k)' <= ThreadRank(e, k)
        /\ Step(e, k) => ThreadRank(e, k)' < ThreadRank(e, k)
<1>1. IInv /\ Unstarted /\ Next => Shrink /\ Unstarted'
  <2> SUFFICES ASSUME IInv, Unstarted, Next
               PROVE  Shrink /\ Unstarted'
    OBVIOUS
  <2> TypeOK /\ Within
    BY DEF IInv
  <2>1. \A e \in Engines, k \in Replays : ThreadRank(e, k) \in Int
    BY RankType
  <2>2. \A e \in Engines, k \in Replays : Step(e, k) => ThreadRank(e, k)' < ThreadRank(e, k)
    BY StepRank
  <2>3. ASSUME NEW e \in Engines, NEW k \in Replays, Step(e, k)
        PROVE  /\ Unstarted'
               /\ \A f \in Engines, j \in Replays : ThreadRank(f, j)' <= ThreadRank(f, j)
    <3>1. Unstarted'
      <4> SUFFICES ASSUME NEW f \in Engines, NEW j \in Replays, j > starts'[f]
                   PROVE  pc'[f][j] = "none"
        BY DEF Unstarted
      <4>1. pc[f][j] = "none"
        BY <2>3, StepKeepsOthers DEF Unstarted
      <4> QED
        BY <2>3, <4>1, StepKeepsOthers
    <3>2. ASSUME NEW f \in Engines, NEW j \in Replays, f # e \/ j # k
          PROVE  ThreadRank(f, j)' = ThreadRank(f, j)
      BY <2>3, <3>2, StepKeepsOthers DEF ThreadRank
    <3>3. ThreadRank(e, k)' <= ThreadRank(e, k)
      <4>1. ThreadRank(e, k)' < ThreadRank(e, k)
        BY <2>2, <2>3
      <4>2. ThreadRank(e, k)' \in Int
        BY <2>3, StepTyping, RankedNext DEF Ranked
      <4> QED
        BY <2>1, <4>1, <4>2
    <3> QED
      BY <2>1, <3>1, <3>2, <3>3
  <2>4. ASSUME NEW e \in Engines, Pause(e) \/ Resume(e) \/ Stop(e)
        PROVE  /\ Unstarted'
               /\ \A f \in Engines, j \in Replays : ThreadRank(f, j)' <= ThreadRank(f, j)
    <3>1. UNCHANGED threads
      BY <2>4 DEF Pause, Resume, Stop
    <3>2. Unstarted'
      BY <3>1 DEF threads, Unstarted
    <3>3. \A f \in Engines, j \in Replays : ThreadRank(f, j)' = ThreadRank(f, j)
      BY <3>1 DEF threads, ThreadRank
    <3> QED
      BY <2>1, <3>2, <3>3
  <2>5. /\ Unstarted'
        /\ \A f \in Engines, j \in Replays : ThreadRank(f, j)' <= ThreadRank(f, j)
    BY <2>3, <2>4, StartRank DEF Next, Call, RequestStart
  <2> QED
    BY <2>2, <2>5
<1>2. IInv /\ Unstarted /\ [Next]_vars => [Shrink]_vars /\ Unstarted'
  <2>1. Unstarted /\ UNCHANGED vars => Unstarted'
    BY DEF Unstarted, vars, threads
  <2> QED
    BY <1>1, <2>1
<1>3. Init => Unstarted
  BY DEF Init, Unstarted
<1> QED
  BY <1>2, <1>3, Initially, NextObeys, PTL DEF Spec, ThreadsShrink

\* How much a thread can have left.
ThreadsBounded == \A e \in Engines, k \in Replays : ThreadRank(e, k) \in 0 .. 4 * Length + 5

\* The length of the archive bounds what the thread of a start has to do: at
\* most four steps for an event, wherever it is paused.
THEOREM ThreadBound == Spec => []ThreadsBounded
<1>1. TypeOK => ThreadsBounded
  BY RankType DEF ThreadsBounded
<1> QED
  BY <1>1, Typing, PTL
=============================================================================
