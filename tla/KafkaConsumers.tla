--------------------------- MODULE KafkaConsumers ---------------------------
(***************************************************************************)
(* One topic's consumer: the daemon thread that polls a message, hands it  *)
(* to its handler and polls again, in a process that is stopped, killed    *)
(* and started anew. Topics have a thread and a consumer each, and share   *)
(* _running and the group: a consumer that joins or leaves it has the      *)
(* partitions of all of them assigned anew.                                *)
(*                                                                         *)
(* The client library remembers as stored what it has handed out, commits  *)
(* it by a timer of its own whatever the handler is doing, and once more   *)
(* when it is closed. The log is never cut; a position is an index in it.  *)
(***************************************************************************)
EXTENDS Integers

CONSTANTS
  MaxMessages,  \* bound: messages published to the topic
  MaxEnds       \* bound: ends of the process

ASSUME ConsumerAssumption == MaxMessages \in Nat \ {0} /\ MaxEnds \in Nat \ {0}

Nothing == -1
Offsets == 0 .. MaxMessages - 1

VARIABLES
  length,      \* messages published
  garbled,     \* those that are no UTF-8 text
  committed,   \* the group's committed offset, Nothing if none
  pc,          \* where the thread is; "down" if there is no process
  running,     \* _running
  consumer,    \* "none" before it is made, then "open" or "closed"
  position,    \* the next message to hand out
  stored,      \* what the next commit will commit, Nothing if nothing
  ends,        \* how often the process has ended
  handled,     \* the messages that have been handled to the end
  passed,      \* those in the log when the position was set to its end
  interrupted, \* those in a handler when the process ended
  unrecorded   \* those handled and not committed when the process was killed

topic == <<length, garbled>>
client == <<consumer, position, stored>>
past == <<passed, interrupted, unrecorded>>
vars == <<topic, committed, pc, running, client, ends, handled, past>>

Init ==
  /\ length = 0
  /\ garbled = {}
  /\ committed = Nothing
  /\ pc = "down"
  /\ running = FALSE
  /\ consumer = "none"
  /\ position = 0
  /\ stored = Nothing
  /\ ends = 0
  /\ handled = {}
  /\ passed = {}
  /\ interrupted = {}
  /\ unrecorded = {}

Current == position - 1

\* A producer of the topic, Stargate or another part of GeoLux.
Publish ==
  /\ length < MaxMessages
  /\ length' = length + 1
  /\ garbled' \in {garbled, garbled \cup {length}}
  /\ UNCHANGED <<committed, pc, running, client, ends, handled, past>>

(***************************************************************************)
(* The process: startup, shutdown, and its end, in order or not.           *)
(***************************************************************************)
\* on_startup: a new manager is made and started.
Start ==
  /\ pc = "down"
  /\ pc' = "subscribing"
  /\ running' = TRUE
  /\ UNCHANGED <<topic, committed, client, ends, handled, past>>

\* Mutant: the consumer is closed without its last commit.
StopUncommitted ==
  /\ pc # "down" /\ running
  /\ running' = FALSE
  /\ consumer' = IF consumer = "open" THEN "closed" ELSE consumer
  /\ UNCHANGED <<topic, committed, pc, position, stored, ends, handled, past>>

\* on_shutdown: closing the consumer commits, whether or not the message
\* handed out last is through its handler. The thread is not waited for; one
\* that has yet to make its consumer is not stopped from making it.
Stop ==
  /\ pc # "down" /\ running
  /\ running' = FALSE
  /\ IF consumer = "open"
       THEN /\ consumer' = "closed"
            /\ committed' = IF stored = Nothing THEN committed ELSE stored
       ELSE UNCHANGED <<consumer, committed>>
  /\ UNCHANGED <<topic, pc, position, stored, ends, handled, past>>

\* The handled messages that the group's next consumer will be handed again.
ToRepeat ==
  IF consumer = "open" THEN {o \in handled : o >= committed} ELSE {}

\* The process ends, after a shutdown or without one, and takes its daemon
\* thread with it.
End ==
  /\ pc # "down"
  /\ ends < MaxEnds
  /\ ends' = ends + 1
  /\ pc' = "down"
  /\ running' = FALSE
  /\ consumer' = "none"
  /\ position' = 0
  /\ stored' = Nothing
  /\ interrupted' = IF pc = "handling" THEN interrupted \cup {Current} ELSE interrupted
  /\ unrecorded' = unrecorded \cup ToRepeat
  /\ UNCHANGED <<topic, committed, handled, passed>>

(***************************************************************************)
(* _consume_topic.                                                         *)
(***************************************************************************)
\* Mutant: the position is the committed offset although there is none.
FirstPositionUnset == committed

\* auto.offset.reset is "latest".
FirstPosition == IF committed = Nothing THEN length ELSE committed

Subscribe ==
  /\ pc = "subscribing"
  /\ consumer' = "open"
  /\ position' = FirstPosition
  /\ passed' = IF committed = Nothing THEN 0 .. length - 1 ELSE passed
  /\ pc' = "polling"
  /\ UNCHANGED <<topic, committed, running, stored, ends, handled, interrupted, unrecorded>>

\* The loop ends: it has been stopped, or its consumer closed under it.
LeaveLoop ==
  /\ pc = "polling"
  /\ ~ running
  /\ pc' = "dead"
  /\ UNCHANGED <<topic, committed, running, client, ends, handled, past>>

\* Mutant: messages are polled two at a time and the last one is handled.
HandOutTwo(label) ==
  /\ pc = "polling" /\ running
  /\ position < length
  /\ position' = IF position + 2 <= length THEN position + 2 ELSE position + 1
  /\ stored' = position'
  /\ pc' = label
  /\ UNCHANGED <<topic, committed, running, consumer, ends, handled, past>>

HandOut(label) ==
  /\ pc = "polling" /\ running
  /\ position < length
  /\ position' = position + 1
  /\ stored' = position + 1
  /\ pc' = label
  /\ UNCHANGED <<topic, committed, running, consumer, ends, handled, past>>

Poll == position \notin garbled /\ HandOut("handling")

\* decode raises what only the outermost handler catches: the thread ends, and
\* its consumer stays open.
PollGarbled == position \in garbled /\ HandOut("dead")

\* Mutant: a message whose handler fails is polled again.
HandledRetries ==
  /\ pc = "handling"
  /\ pc' = "polling"
  /\ \/ handled' = handled \cup {Current} /\ UNCHANGED position
     \/ position' = Current /\ UNCHANGED handled
  /\ UNCHANGED <<topic, committed, running, consumer, stored, ends, past>>

\* The handler returns; that it raised, or the text was no JSON, is logged.
Handled ==
  /\ pc = "handling"
  /\ handled' = handled \cup {Current}
  /\ pc' = "polling"
  /\ UNCHANGED <<topic, committed, running, client, ends, past>>

\* enable.auto.commit, in a thread of the client library.
AutoCommit ==
  /\ consumer = "open"
  /\ stored # Nothing /\ stored # committed
  /\ committed' = stored
  /\ UNCHANGED <<topic, pc, running, client, ends, handled, past>>

\* Another topic's consumer joins the group or leaves it. What is stored is
\* committed when the partition is revoked; when it is assigned again the position
\* is the committed offset, or the end of the log, as for the first time.
Rebalance ==
  /\ consumer = "open"
  /\ committed' = IF stored = Nothing THEN committed ELSE stored
  /\ position' = IF committed' = Nothing THEN length ELSE committed'
  /\ passed' = IF committed' = Nothing THEN passed \cup position .. length - 1 ELSE passed
  /\ UNCHANGED <<topic, pc, running, consumer, stored, ends, handled, interrupted, unrecorded>>

-----------------------------------------------------------------------------
Step == Subscribe \/ LeaveLoop \/ Poll \/ PollGarbled \/ Handled

Next == Publish \/ Start \/ Stop \/ End \/ Step \/ AutoCommit \/ Rebalance

Spec == Init /\ [][Next]_vars

\* The thread goes on while its process does: a handler's calls have timeouts.
FairSpec == Spec /\ WF_vars(Step)

-----------------------------------------------------------------------------
Labels == {"down", "subscribing", "polling", "handling", "dead"}

\* Every variable has its type, and no position is beyond the log.
TypeOK ==
  /\ length \in 0 .. MaxMessages
  /\ garbled \subseteq 0 .. length - 1
  /\ committed \in {Nothing} \cup 0 .. length
  /\ pc \in Labels
  /\ running \in BOOLEAN
  /\ consumer \in {"none", "open", "closed"}
  /\ position \in 0 .. length
  /\ stored \in {Nothing} \cup 0 .. length
  /\ ends \in 0 .. MaxEnds
  /\ handled \subseteq 0 .. length - 1
  /\ passed \subseteq 0 .. length - 1
  /\ interrupted \subseteq 0 .. length - 1
  /\ unrecorded \subseteq 0 .. length - 1

(***************************************************************************)
(* A committed message is not always a handled one: an end of the process  *)
(* loses the message in the handler; and a group without a commit passes   *)
(* over what is in the log when its partition is assigned, the first time  *)
(* or once more. Nothing else is lost, so with a commit at most one        *)
(* message for every end of the process.                                   *)
(***************************************************************************)
InHandler(o) == pc = "handling" /\ o = Current

Accounted(o) == o \in handled \cup garbled \cup passed \cup interrupted

LossExplained ==
  \A o \in Offsets : o < committed => Accounted(o) \/ InHandler(o)

(***************************************************************************)
(* Nor is a handled one always committed: but a message is handled again   *)
(* only after the process was killed before the commit, and never after an *)
(* orderly shutdown.                                                       *)
(***************************************************************************)
RepeatExplained ==
  [][Handled /\ Current \in handled => Current \in unrecorded]_vars

(***************************************************************************)
(* A failing handler or a text that is no JSON does not hold up the topic: *)
(* a message is handled, or accounted for otherwise, as long as thread and *)
(* process are there.                                                      *)
(***************************************************************************)
Delivered ==
  \A o \in Offsets :
    o < length ~> Accounted(o) \/ pc \in {"down", "dead"}
=============================================================================
