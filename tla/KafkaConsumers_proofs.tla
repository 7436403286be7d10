------------------------ MODULE KafkaConsumers_proofs ------------------------
(***************************************************************************)
(* Proofs about a topic's consumer, for any number of messages and of ends *)
(* of the process.                                                         *)
(***************************************************************************)
EXTENDS KafkaConsumers, TLAPS

\* There is a consumer as long as the thread is past its making of one.
Consuming ==
  /\ consumer = "none" <=> pc \in {"down", "subscribing"}
  /\ consumer = "none" => stored = Nothing
  /\ consumer = "closed" => ~ running

\* What is committed next is the position, or nothing because the group is there
\* already; closing leaves nothing to commit.
Storing ==
  consumer # "none" =>
    /\ stored # Nothing => stored = position
    /\ stored = Nothing /\ committed # Nothing => position = committed
    /\ consumer = "closed" /\ committed # Nothing => position = committed
    /\ pc = "handling" => position > 0 /\ stored = position

\* What the consumer is past is accounted for, as what the group is past is.
Covered ==
  consumer # "none" => \A o \in Offsets : o < position => Accounted(o) \/ InHandler(o)

\* A handled message that is handed out again was left uncommitted by a kill.
Ahead == IF pc = "handling" THEN Current ELSE position

Repeating ==
  /\ consumer # "none" => \A o \in handled : o >= Ahead => o \in unrecorded
  /\ consumer = "none" /\ committed # Nothing =>
       \A o \in handled : o >= committed => o \in unrecorded

IInv == TypeOK /\ Consuming /\ Storing /\ Covered /\ LossExplained /\ Repeating

-----------------------------------------------------------------------------
LEMMA Bounds ==
  ASSUME TypeOK
  PROVE  /\ MaxMessages \in Nat /\ MaxEnds \in Nat /\ length \in Nat /\ length <= MaxMessages
         /\ position \in Nat /\ position <= length
         /\ committed \in Int /\ stored \in Int
         /\ handled \subseteq Offsets /\ Offsets \subseteq Int
BY ConsumerAssumption DEF TypeOK, Nothing, Offsets

LEMMA Initially == Init => IInv
<1> SUFFICES ASSUME Init
             PROVE  IInv
  OBVIOUS
<1>1. /\ length \in 0 .. MaxMessages /\ position \in 0 .. length
      /\ ends \in 0 .. MaxEnds
  BY ConsumerAssumption DEF Init
<1>2. TypeOK
  BY <1>1 DEF Init, TypeOK, Labels
<1> QED
  BY <1>2 DEF Init, IInv, Consuming, Storing, Covered, LossExplained, Repeating, Offsets, Nothing

(***************************************************************************)
(* One lemma for each action.                                              *)
(***************************************************************************)
LEMMA PublishKeeps == IInv /\ Publish => IInv'
<1> SUFFICES ASSUME IInv, Publish
             PROVE  IInv'
  OBVIOUS
<1> TypeOK
  BY DEF IInv
<1>1. length' \in 0 .. MaxMessages /\ length' = length + 1 /\ length \in Nat
  BY Bounds DEF Publish, TypeOK
<1>2. \A S \in SUBSET (0 .. length - 1) : S \in SUBSET (0 .. length' - 1)
  BY <1>1
<1>3. garbled \subseteq garbled' /\ garbled' \subseteq 0 .. length' - 1
  BY <1>1 DEF Publish, TypeOK
<1>4. 0 .. length \subseteq 0 .. length'
  BY <1>1
<1>5. TypeOK'
  BY <1>1, <1>2, <1>3, <1>4 DEF Publish, TypeOK, client, past
<1>6. \A o : Accounted(o) => Accounted(o)'
  BY <1>3 DEF Accounted, Publish, past
<1>7. \A o : InHandler(o) = InHandler(o)'
  BY DEF InHandler, Current, Publish, client
<1> QED
  BY <1>5, <1>6, <1>7 DEF IInv, Publish, client, past, Consuming, Storing, Covered,
     LossExplained, Repeating, Ahead, Current

LEMMA StartKeeps == IInv /\ Start => IInv'
BY DEF IInv, Start, topic, client, past, TypeOK, Labels, Consuming, Storing, Covered,
   LossExplained, Repeating, Ahead, Current, Accounted, InHandler

LEMMA StopKeeps == IInv /\ Stop => IInv'
<1> SUFFICES ASSUME IInv, Stop
             PROVE  IInv'
  OBVIOUS
<1> TypeOK
  BY DEF IInv
<1>1. TypeOK' /\ Consuming'
  BY DEF IInv, Stop, topic, past, TypeOK, Consuming
<1>2. Storing'
  BY Bounds DEF IInv, Stop, Consuming, Storing
<1>3. \A o : Accounted(o)' = Accounted(o) /\ InHandler(o)' = InHandler(o)
  BY DEF Accounted, InHandler, Current, Stop, topic, past
<1>4. Covered' /\ LossExplained'
  BY <1>3, Bounds DEF IInv, Stop, Consuming, Storing, Covered, LossExplained
<1>5. Repeating'
  BY DEF IInv, Stop, past, Consuming, Repeating, Ahead, Current
<1> QED
  BY <1>1, <1>2, <1>4, <1>5 DEF IInv

LEMMA EndKeeps == IInv /\ End => IInv'
<1> SUFFICES ASSUME IInv, End
             PROVE  IInv'
  OBVIOUS
<1> TypeOK
  BY DEF IInv
<1>1. pc = "handling" => Current \in 0 .. length - 1
  BY Bounds DEF IInv, Consuming, Storing, Current
<1>2. interrupted' \subseteq 0 .. length - 1 /\ unrecorded' \subseteq 0 .. length - 1
  BY <1>1 DEF End, ToRepeat, TypeOK
<1>3. TypeOK'
  <2>1. ends' \in 0 .. MaxEnds /\ position' \in 0 .. length
    BY Bounds DEF End, TypeOK
  <2> QED
    BY <1>2, <2>1 DEF End, topic, TypeOK, Labels
<1>4. \A o : Accounted(o) \/ InHandler(o) => Accounted(o)'
  BY DEF Accounted, InHandler, End, topic
<1>5. LossExplained'
  BY <1>4 DEF IInv, LossExplained, End
<1>6. Consuming' /\ Storing' /\ Covered'
  BY DEF End, Consuming, Storing, Covered
<1>7. Repeating'
  <2> SUFFICES ASSUME committed # Nothing, NEW o \in handled, o >= committed
               PROVE  o \in unrecorded'
    BY <1>6 DEF Repeating, End
  <2>1. CASE consumer = "open"
    BY <2>1 DEF End, ToRepeat
  <2>2. CASE consumer = "closed"
    <3>1. o >= Ahead
      BY <2>2, Bounds DEF IInv, Storing, Ahead, Current
    <3> QED
      BY <2>2, <3>1 DEF IInv, Repeating, End
  <2>3. CASE consumer = "none"
    BY <2>3 DEF IInv, Repeating, End
  <2> QED
    BY <2>1, <2>2, <2>3 DEF TypeOK
<1> QED
  BY <1>3, <1>5, <1>6, <1>7 DEF IInv

LEMMA SubscribeKeeps == IInv /\ Subscribe => IInv'
<1> SUFFICES ASSUME IInv, Subscribe
             PROVE  IInv'
  OBVIOUS
<1> TypeOK
  BY DEF IInv
<1>1. position' = FirstPosition /\ FirstPosition \in 0 .. length
  BY Bounds DEF Subscribe, FirstPosition, TypeOK, Nothing
<1>2. TypeOK'
  BY <1>1 DEF Subscribe, topic, TypeOK, Labels
<1>3. Consuming' /\ Storing'
  BY <1>1 DEF IInv, Subscribe, FirstPosition, Consuming, Storing
<1>4. \A o : Accounted(o) => Accounted(o)'
  BY DEF Accounted, Subscribe, topic, TypeOK
<1>5. LossExplained'
  BY <1>4 DEF IInv, LossExplained, Subscribe, InHandler
<1>6. Covered'
  <2> SUFFICES ASSUME NEW o \in Offsets, o < position'
               PROVE  Accounted(o)'
    BY DEF Covered
  <2>1. CASE committed = Nothing
    BY <2>1, <1>1, Bounds DEF Subscribe, FirstPosition, Accounted, Offsets
  <2>2. CASE committed # Nothing
    BY <2>2, <1>1, <1>4 DEF IInv, LossExplained, Subscribe, FirstPosition, InHandler
  <2> QED
    BY <2>1, <2>2
<1>7. Repeating'
  <2> SUFFICES ASSUME NEW o \in handled, o >= position'
               PROVE  o \in unrecorded
    BY DEF Repeating, Ahead, Subscribe
  <2>1. CASE committed = Nothing
    BY <2>1, <1>1, Bounds DEF FirstPosition, TypeOK
  <2>2. CASE committed # Nothing
    BY <2>2, <1>1 DEF IInv, Consuming, Repeating, Subscribe, FirstPosition
  <2> QED
    BY <2>1, <2>2
<1> QED
  BY <1>2, <1>3, <1>5, <1>6, <1>7 DEF IInv

LEMMA LeaveLoopKeeps == IInv /\ LeaveLoop => IInv'
<1> SUFFICES ASSUME IInv, LeaveLoop
             PROVE  IInv'
  OBVIOUS
<1>1. TypeOK' /\ Consuming' /\ Storing' /\ Repeating'
  BY DEF IInv, LeaveLoop, topic, client, past, TypeOK, Labels, Consuming, Storing,
     Repeating, Ahead, Current
<1>2. \A o : ~ InHandler(o) /\ Accounted(o)' = Accounted(o)
  BY DEF LeaveLoop, InHandler, Accounted, topic, past
<1>3. Covered' /\ LossExplained'
  BY <1>2 DEF IInv, LeaveLoop, client, Covered, LossExplained
<1> QED
  BY <1>1, <1>3 DEF IInv

LEMMA HandOutKeeps == IInv /\ (Poll \/ PollGarbled) => IInv'
<1> SUFFICES ASSUME IInv, Poll \/ PollGarbled
             PROVE  IInv'
  OBVIOUS
<1> TypeOK
  BY DEF IInv
<1>1. /\ pc = "polling" /\ running /\ position < length /\ consumer # "none"
      /\ position' = position + 1 /\ stored' = position' /\ position' \in 0 .. length
      /\ UNCHANGED <<topic, committed, running, consumer, ends, handled, past>>
  BY Bounds DEF IInv, Poll, PollGarbled, HandOut, Consuming
<1>2. pc' \in {"handling", "dead"} /\ (pc' = "dead" => position \in garbled)
  BY DEF Poll, PollGarbled, HandOut
<1>3. TypeOK'
  BY <1>1, <1>2 DEF TypeOK, Labels, topic, past
<1>4. Consuming' /\ Storing'
  BY <1>1, <1>2, Bounds DEF IInv, Consuming, Storing, Nothing
<1>5. \A o : ~ InHandler(o) /\ Accounted(o)' = Accounted(o)
  BY <1>1 DEF InHandler, Accounted, topic, past
<1>6. LossExplained'
  BY <1>1, <1>5 DEF IInv, LossExplained
<1>7. ASSUME NEW o \in Offsets, o < position'
      PROVE  Accounted(o)' \/ InHandler(o)'
  <2>1. CASE o < position
    BY <2>1, <1>1, <1>5 DEF IInv, Covered
  <2>2. CASE o = position
    BY <2>2, <1>1, <1>2, <1>5, Bounds DEF Accounted, InHandler, Current
  <2> QED
    BY <1>7, <2>1, <2>2, <1>1, Bounds
<1>8. Repeating'
  <2>1. ASSUME NEW o \in handled, o >= Ahead'
        PROVE  o >= Ahead
    BY <2>1, <1>1, <1>2, Bounds DEF Ahead, Current
  <2> QED
    BY <2>1, <1>1 DEF IInv, Repeating, past
<1> QED
  BY <1>3, <1>4, <1>6, <1>7, <1>8 DEF IInv, Covered

LEMMA HandledKeeps == IInv /\ Handled => IInv'
<1> SUFFICES ASSUME IInv, Handled
             PROVE  IInv'
  OBVIOUS
<1> TypeOK
  BY DEF IInv
<1>1. consumer # "none" /\ Current \in 0 .. length - 1 /\ Current < position
  BY Bounds DEF IInv, Handled, Consuming, Storing, Current
<1>2. TypeOK'
  BY <1>1 DEF Handled, topic, client, past, TypeOK, Labels
<1>3. Consuming' /\ Storing'
  BY DEF IInv, Handled, client, Consuming, Storing
<1>4. \A o : Accounted(o) \/ InHandler(o) => Accounted(o)'
  BY DEF Accounted, InHandler, Handled, topic, past
<1>5. Covered' /\ LossExplained'
  BY <1>4 DEF IInv, Handled, client, Covered, LossExplained
<1>6. Repeating'
  <2>1. ASSUME NEW o \in handled', o >= position
        PROVE  o \in handled /\ o >= Ahead
    BY <2>1, <1>1, Bounds DEF Handled, Ahead, Current
  <2>2. Ahead' = position /\ UNCHANGED <<consumer, unrecorded>>
    BY DEF Handled, Ahead, client, past
  <2> QED
    BY <2>1, <2>2, <1>1 DEF IInv, Repeating
<1> QED
  BY <1>2, <1>3, <1>5, <1>6 DEF IInv

LEMMA AutoCommitKeeps == IInv /\ AutoCommit => IInv'
<1> SUFFICES ASSUME IInv, AutoCommit
             PROVE  IInv'
  OBVIOUS
<1>1. TypeOK' /\ Consuming' /\ Repeating'
  BY DEF IInv, AutoCommit, topic, client, past, TypeOK, Consuming, Repeating, Ahead, Current
<1>2. committed' = position /\ consumer = "open"
  BY DEF IInv, AutoCommit, Storing
<1>3. Storing'
  BY <1>2 DEF IInv, AutoCommit, client, Storing
<1>4. \A o : Accounted(o)' = Accounted(o) /\ InHandler(o)' = InHandler(o)
  BY DEF Accounted, InHandler, Current, AutoCommit, topic, client, past
<1>5. Covered' /\ LossExplained'
  BY <1>2, <1>4 DEF IInv, AutoCommit, client, Covered, LossExplained
<1> QED
  BY <1>1, <1>3, <1>5 DEF IInv

\* An assignment leaves the position where it is, or puts it to the log's end and
\* passes over the rest.
LEMMA Reassigned ==
  ASSUME IInv, Rebalance
  PROVE  \/ committed' # Nothing /\ committed' = position /\ UNCHANGED <<position, passed>>
         \/ /\ committed' = Nothing /\ stored = Nothing /\ committed = Nothing
            /\ pc # "handling" /\ position' = length
            /\ passed' = passed \cup position .. length - 1
<1>1. consumer # "none" /\ Storing /\ TypeOK
  BY DEF Rebalance, IInv
<1>2. CASE stored # Nothing
  BY <1>1, <1>2 DEF Rebalance, Storing
<1>3. CASE stored = Nothing /\ committed # Nothing
  BY <1>1, <1>3 DEF Rebalance, Storing
<1>4. CASE stored = Nothing /\ committed = Nothing
  <2>1. pc # "handling"
    BY <1>1, <1>4, Bounds DEF Storing, Nothing
  <2> QED
    BY <1>4, <2>1 DEF Rebalance
<1> QED
  BY <1>2, <1>3, <1>4

LEMMA RebalanceKeeps == IInv /\ Rebalance => IInv'
<1> SUFFICES ASSUME IInv, Rebalance
             PROVE  IInv'
  OBVIOUS
<1> TypeOK
  BY DEF IInv
<1>1. /\ consumer = "open" /\ UNCHANGED <<topic, length, garbled, pc, running, consumer>>
      /\ UNCHANGED <<stored, ends, handled, interrupted, unrecorded>>
  BY DEF Rebalance, topic
<1>2. position' \in position .. length /\ passed \subseteq passed' /\ passed' \subseteq 0 .. length - 1
  <2>1. passed \subseteq 0 .. length - 1 /\ position \in Nat /\ length \in Nat /\ position <= length
    BY Bounds DEF TypeOK
  <2>2. CASE UNCHANGED <<position, passed>>
    BY <2>1, <2>2
  <2>3. CASE position' = length /\ passed' = passed \cup position .. length - 1
    BY <2>1, <2>3
  <2> QED
    BY <2>2, <2>3, Reassigned
<1>3. TypeOK'
  <2>1. position' \in 0 .. length
    BY <1>2, Bounds
  <2>2. committed' \in {Nothing} \cup 0 .. length
    BY DEF Rebalance, TypeOK
  <2> QED
    BY <1>1, <1>2, <2>1, <2>2 DEF TypeOK
<1>4. Consuming'
  BY <1>1 DEF IInv, Consuming
<1>5. Storing'
  BY <1>1, Reassigned DEF IInv, Storing
<1>6. \A o : Accounted(o) => Accounted(o)'
  BY <1>1, <1>2 DEF Accounted
<1>7. CASE committed' # Nothing
  <2>1. committed' = position /\ position' = position
    BY <1>7, Reassigned
  <2>2. \A o : InHandler(o)' = InHandler(o)
    BY <1>1, <2>1 DEF InHandler, Current
  <2>3. Covered' /\ LossExplained'
    BY <1>1, <1>6, <2>1, <2>2 DEF IInv, Covered, LossExplained
  <2>4. Repeating'
    BY <1>1, <2>1 DEF IInv, Repeating, Ahead, Current
  <2> QED
    BY <1>3, <1>4, <1>5, <2>3, <2>4 DEF IInv
<1>8. CASE committed' = Nothing
  <2>1. /\ pc # "handling" /\ position' = length
        /\ passed' = passed \cup position .. length - 1
    BY <1>8, Reassigned
  <2>2. \A o : ~ InHandler(o)
    BY <2>1 DEF InHandler
  <2>3. ASSUME NEW o \in Offsets, o < position'
        PROVE  Accounted(o)'
    <3>1. CASE o < position
      BY <1>1, <1>6, <2>2, <3>1 DEF IInv, Covered
    <3>2. CASE o \in position .. length - 1
      BY <2>1, <3>2 DEF Accounted
    <3> QED
      BY <2>1, <2>3, <3>1, <3>2, Bounds
  <2>4. Covered'
    BY <2>3 DEF Covered
  <2>5. LossExplained'
    BY <1>8, Bounds DEF LossExplained, Nothing, Offsets
  <2>6. Repeating'
    <3>1. ASSUME NEW o \in handled, o >= Ahead'
          PROVE  o >= Ahead
      BY <1>1, <2>1, <3>1, Bounds DEF Ahead
    <3> QED
      BY <1>1, <3>1 DEF IInv, Repeating
  <2> QED
    BY <1>3, <1>4, <1>5, <2>4, <2>5, <2>6 DEF IInv
<1> QED
  BY <1>7, <1>8

LEMMA NextKeeps == IInv /\ [Next]_vars => IInv'
<1>1. IInv /\ UNCHANGED vars => IInv'
  BY DEF IInv, vars, topic, client, past, TypeOK, Consuming, Storing, Covered, LossExplained,
     Repeating, Ahead, Current, Accounted, InHandler
<1> QED
  BY <1>1, PublishKeeps, StartKeeps, StopKeeps, EndKeeps, SubscribeKeeps, LeaveLoopKeeps,
     HandOutKeeps, HandledKeeps, AutoCommitKeeps, RebalanceKeeps DEF Next, Step

\* Every variable of the consumer keeps its type.
THEOREM Typing == Spec => []TypeOK
<1>1. IInv => TypeOK
  BY DEF IInv
<1> QED
  BY <1>1, Initially, NextKeeps, PTL DEF Spec

\* Only the message in the handler is lost, when the process ends, and what is
\* passed over by an assignment that finds no commit of the group.
THEOREM Losses == Spec => []LossExplained
<1>1. IInv => LossExplained
  BY DEF IInv
<1> QED
  BY <1>1, Initially, NextKeeps, PTL DEF Spec

\* Only what a kill has left uncommitted is handled again.
THEOREM Repetitions == Spec => RepeatExplained
<1> DEFINE Explained == Handled /\ Current \in handled => Current \in unrecorded
<1>1. IInv => Explained
  BY Bounds DEF IInv, Consuming, Repeating, Handled, Ahead, Current
<1>2. IInv /\ [Next]_vars => [Explained]_vars
  BY <1>1
<1> QED
  BY <1>2, Initially, NextKeeps, PTL DEF Spec, RepeatExplained
-----------------------------------------------------------------------------
(***************************************************************************)
(* How long a message can wait. Its rank is a bound on the thread's steps  *)
(* until it is accounted for: two for every message before it, whatever    *)
(* becomes of them.                                                        *)
(***************************************************************************)
Waiting(o) == o < length /\ ~ Accounted(o) /\ pc \notin {"down", "dead"}

WaitRank(o) ==
  IF pc = "subscribing" THEN 2 * o + 3
  ELSE IF pc = "polling" THEN 2 * (o - position) + 2
  ELSE 2 * (o - position) + 3

\* A message that waits has not been passed by the thread.
LEMMA NotPassed ==
  ASSUME IInv, NEW o \in Offsets, Waiting(o)
  PROVE  /\ pc \in {"subscribing", "polling", "handling"}
         /\ pc = "subscribing" => o >= committed
         /\ pc = "polling" => o >= position
         /\ pc = "handling" => o >= position - 1
<1>1. TypeOK /\ Covered /\ LossExplained /\ Consuming
  BY DEF IInv
<1>2. pc \in {"subscribing", "polling", "handling"}
  BY <1>1 DEF Waiting, TypeOK, Labels
<1>3. ASSUME pc = "subscribing"
      PROVE  o >= committed
  <2>1. ~ InHandler(o)
    BY <1>3 DEF InHandler
  <2>2. ~ (o < committed)
    BY <1>1, <2>1 DEF LossExplained, Waiting
  <2> QED
    BY <1>1, <2>2, Bounds
<1>4. ASSUME pc \in {"polling", "handling"}
      PROVE  o < position => pc = "handling" /\ o = Current
  BY <1>1, <1>4 DEF Covered, Consuming, Waiting, InHandler
<1> QED
  BY <1>1, <1>2, <1>3, <1>4, Bounds DEF Current

LEMMA WaitRankType ==
  ASSUME IInv, NEW o \in Offsets, Waiting(o)
  PROVE  WaitRank(o) \in 1 .. 2 * o + 3
<1>1. o \in Nat /\ position \in Nat
  BY Bounds DEF IInv, Offsets
<1> QED
  BY <1>1, NotPassed DEF WaitRank

LEMMA WaitStep ==
  ASSUME IInv, Step, NEW o \in Offsets, Waiting(o), Waiting(o)'
  PROVE  WaitRank(o)' < WaitRank(o)
<1>1. /\ o \in Nat /\ position \in Nat /\ committed \in Int /\ length \in Nat
      /\ TypeOK
  BY Bounds DEF IInv, Offsets
<1>2. CASE Subscribe
  <2>1. committed # Nothing
    <3>1. ASSUME committed = Nothing
          PROVE  FALSE
      <4>1. passed' = 0 .. length - 1 /\ o \in 0 .. length - 1
        BY <1>1, <1>2, <3>1 DEF Subscribe, Waiting
      <4> QED
        BY <4>1 DEF Waiting, Accounted
    <3> QED
      BY <3>1
  <2>2. position' = committed /\ pc = "subscribing" /\ pc' = "polling"
    BY <1>2, <2>1 DEF Subscribe, FirstPosition
  <2>3. committed \in Nat
    BY <2>1 DEF IInv, TypeOK
  <2> QED
    BY <1>1, <2>2, <2>3 DEF WaitRank
<1>3. CASE Poll
  BY <1>1, <1>3 DEF Poll, HandOut, WaitRank
<1>4. CASE Handled
  BY <1>1, <1>4 DEF Handled, client, WaitRank
<1>5. CASE LeaveLoop \/ PollGarbled
  BY <1>5 DEF LeaveLoop, PollGarbled, HandOut, Waiting
<1> QED
  BY <1>2, <1>3, <1>4, <1>5 DEF Step

LEMMA WaitKept ==
  ASSUME IInv, Publish \/ Start \/ Stop \/ End \/ AutoCommit \/ Rebalance,
         NEW o \in Offsets, Waiting(o), Waiting(o)'
  PROVE  WaitRank(o)' = WaitRank(o)
<1>1. pc # "down" /\ pc' # "down"
  BY DEF Waiting
<1>2. CASE Publish \/ Start \/ Stop \/ End \/ AutoCommit
  <2>1. UNCHANGED <<pc, position>>
    BY <1>1, <1>2 DEF Publish, Start, Stop, End, AutoCommit, client
  <2> QED
    BY <2>1 DEF WaitRank
<1>3. CASE Rebalance
  <2>1. pc' = pc /\ pc \in {"polling", "handling"} /\ length' = length
    BY <1>3, NotPassed DEF Rebalance, IInv, Consuming, topic
  <2>2. CASE position' = position
    BY <2>1, <2>2 DEF WaitRank
  <2>3. CASE position' # position
    <3>1. pc = "polling" /\ passed' = passed \cup position .. length - 1
      BY <1>3, <2>1, <2>3, Reassigned
    <3>2. o \in position .. length - 1
      BY <3>1, NotPassed, Bounds DEF Waiting, IInv
    <3> QED
      BY <3>1, <3>2 DEF Waiting, Accounted
  <2> QED
    BY <2>2, <2>3
<1> QED
  BY <1>2, <1>3

\* While a message waits, every step of the thread brings it nearer, and
\* nothing that happens meanwhile puts it off: neither what is published, nor
\* a shutdown, a commit or a rebalance, nor a handler that fails.
WaitShrinks ==
  [][\A o \in Offsets : Waiting(o) /\ Waiting(o)' =>
       /\ WaitRank(o)' <= WaitRank(o)
       /\ Step => WaitRank(o)' < WaitRank(o)]_vars

\* _consume_topic comes nearer to each message that waits with every step it
\* takes, a handler that raises and a text that is no JSON included.
THEOREM WaitRuns == Spec => WaitShrinks
<1> DEFINE Nearer ==
      \A o \in Offsets : Waiting(o) /\ Waiting(o)' =>
        /\ WaitRank(o)' <= WaitRank(o)
        /\ Step => WaitRank(o)' < WaitRank(o)
<1>1. IInv /\ IInv' /\ Next => Nearer
  <2> SUFFICES ASSUME IInv, IInv', Next, NEW o \in Offsets, Waiting(o), Waiting(o)'
               PROVE  /\ WaitRank(o)' <= WaitRank(o)
                      /\ Step => WaitRank(o)' < WaitRank(o)
    OBVIOUS
  <2>1. WaitRank(o) \in Int /\ o \in Int
    BY WaitRankType DEF Offsets
  <2>2. CASE Step
    <3>1. WaitRank(o)' < WaitRank(o)
      BY <2>2, WaitStep
    <3>2. WaitRank(o)' \in Int
      BY <2>1, Bounds DEF IInv, TypeOK, WaitRank
    <3> QED
      BY <2>1, <3>1, <3>2
  <2>3. CASE ~ Step
    <3>1. WaitRank(o)' = WaitRank(o)
      BY <2>3, WaitKept DEF Next
    <3> QED
      BY <2>1, <2>3, <3>1
  <2> QED
    BY <2>2, <2>3
<1>2. IInv /\ [Next]_vars => [Nearer]_vars
  BY <1>1, NextKeeps
<1> QED
  BY <1>2, Initially, NextKeeps, PTL DEF Spec, WaitShrinks

\* The wait for message o is at most 2 * o + 3 steps of a thread that lives on.
WaitBounded == \A o \in Offsets : Waiting(o) => WaitRank(o) \in 1 .. 2 * o + 3

\* The number of messages before it bounds how long a message waits for
\* _consume_topic, from its publication to its handler.
THEOREM WaitBound == Spec => []WaitBounded
<1>1. IInv => WaitBounded
  BY WaitRankType DEF WaitBounded
<1> QED
  BY <1>1, Initially, NextKeeps, PTL DEF Spec
=============================================================================
