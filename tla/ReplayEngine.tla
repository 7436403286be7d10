---------------------------- MODULE ReplayEngine ----------------------------
(***************************************************************************)
(* The replay of an archive: the thread that start() makes walks over the  *)
(* archive's events, and looks at two plain attributes of its engine,      *)
(* _running and _paused, which callers of pause, resume and stop set from  *)
(* other threads. A thread can be switched out where it sleeps or calls.   *)
(* An engine may be started again while an older thread of it is alive;    *)
(* both then look at the same attributes. The HTTP endpoints make an       *)
(* engine of their own for every request.                                  *)
(***************************************************************************)
EXTENDS Integers

CONSTANTS
  Engines,    \* KafkaReplayEngine objects
  MaxStarts,  \* bound: times an engine is started
  Length,     \* events in the archive
  PausePoints \* pause_at_offset: an offset, or the length for None

ASSUME ReplayAssumption ==
  /\ MaxStarts \in Nat \ {0}
  /\ Length \in Nat \ {0}
  /\ PausePoints \subseteq 0 .. Length

Replays == 1 .. MaxStarts

VARIABLES
  running,   \* _running
  paused,    \* _paused
  starts,    \* how often an engine has been started
  pc,        \* where the thread of each start is
  offset,    \* the event a thread is at: i in _replay_loop
  pauseAt,   \* the pause_at of each start
  halted,    \* a pause or stop of the engine is in force
  late       \* the threads that have emitted an event since

attributes == <<running, paused>>
threads == <<starts, pc, offset, pauseAt>>
orders == <<halted, late>>
vars == <<attributes, threads, orders>>

Init ==
  /\ running = [e \in Engines |-> FALSE]
  /\ paused = [e \in Engines |-> FALSE]
  /\ starts = [e \in Engines |-> 0]
  /\ pc = [e \in Engines |-> [k \in Replays |-> "none"]]
  /\ offset = [e \in Engines |-> [k \in Replays |-> 0]]
  /\ pauseAt = [e \in Engines |-> [k \in Replays |-> Length]]
  /\ halted = [e \in Engines |-> FALSE]
  /\ late = [e \in Engines |-> {}]

Goto(e, k, label) == pc' = [pc EXCEPT ![e][k] = label]

(***************************************************************************)
(* start, pause, resume and stop.                                          *)
(***************************************************************************)
\* A replay goes on by order of a caller.
Released(e) ==
  /\ halted' = [halted EXCEPT ![e] = FALSE]
  /\ late' = [late EXCEPT ![e] = {}]

\* Threads that have emitted since an earlier order are late for that one.
Halted(e) ==
  /\ halted' = [halted EXCEPT ![e] = TRUE]
  /\ late' = IF halted[e] THEN late ELSE [late EXCEPT ![e] = {}]

\* The archive exists and has events; an earlier thread is not waited for.
Start(e, p) ==
  LET k == starts[e] + 1 IN
  /\ k \in Replays
  /\ running' = [running EXCEPT ![e] = TRUE]
  /\ paused' = [paused EXCEPT ![e] = FALSE]
  /\ starts' = [starts EXCEPT ![e] = k]
  /\ pauseAt' = [pauseAt EXCEPT ![e][k] = p]
  /\ Goto(e, k, "top")
  /\ Released(e)
  /\ UNCHANGED offset

Pause(e) ==
  /\ paused' = [paused EXCEPT ![e] = TRUE]
  /\ Halted(e)
  /\ UNCHANGED <<running, threads>>

\* Resuming an engine that has been stopped does not start it.
Resume(e) ==
  /\ paused' = [paused EXCEPT ![e] = FALSE]
  /\ IF running[e] THEN Released(e) ELSE UNCHANGED orders
  /\ UNCHANGED <<running, threads>>

Stop(e) ==
  /\ running' = [running EXCEPT ![e] = FALSE]
  /\ Halted(e)
  /\ UNCHANGED <<paused, threads>>

\* POST /replay/start, on an engine made for the request, in whatever mode: that
\* it is refused in all modes but one is left out. (POST /replay/pause makes an
\* engine too, which nobody has started or can start: it pauses no replay.)
RequestStart(e, p) == starts[e] = 0 /\ Start(e, p)

(***************************************************************************)
(* _replay_loop.                                                           *)
(***************************************************************************)
\* Mutant: the loop goes one event too far.
ExhaustedTooLate(e, k) == offset[e][k] > Length

Exhausted(e, k) == offset[e][k] = Length

\* The archive is done, or the engine stopped: the loop ends the replay, its
\* own or one that has been started since.
End(e, k) ==
  /\ pc[e][k] = "top"
  /\ Exhausted(e, k) \/ ~ running[e]
  /\ running' = [running EXCEPT ![e] = FALSE]
  /\ Goto(e, k, "done")
  /\ UNCHANGED <<paused, starts, offset, pauseAt, orders>>

WaitWhilePaused(e, k) ==
  /\ pc[e][k] = "top"
  /\ ~ Exhausted(e, k) /\ running[e] /\ paused[e]
  /\ Goto(e, k, "held")
  /\ UNCHANGED <<attributes, starts, offset, pauseAt, orders>>

\* Stopped while paused: the thread returns.
ReturnWhilePaused(e, k) ==
  /\ pc[e][k] = "held"
  /\ ~ running[e]
  /\ Goto(e, k, "done")
  /\ UNCHANGED <<attributes, starts, offset, pauseAt, orders>>

\* Mutant: a pause is noticed only at the next look at it.
UnpausedUnseen(e, k) == pc[e][k] = "top" \/ ~ paused[e]

Unpaused(e, k) == ~ paused[e]

Passing(e, k) ==
  /\ pc[e][k] \in {"top", "held"}
  /\ ~ Exhausted(e, k) /\ running[e] /\ Unpaused(e, k)

PauseHere(e, k) ==
  /\ Passing(e, k)
  /\ offset[e][k] >= pauseAt[e][k]
  /\ paused' = [paused EXCEPT ![e] = TRUE]
  /\ Goto(e, k, "pausePoint")
  /\ UNCHANGED <<running, starts, offset, pauseAt, orders>>

GoOn(e, k) ==
  /\ Passing(e, k)
  /\ offset[e][k] < pauseAt[e][k]
  /\ Goto(e, k, "emit")
  /\ UNCHANGED <<attributes, starts, offset, pauseAt, orders>>

\* Mutant: the wait at the pause point does not ask whether it is stopped.
LeavePausePointResumed(e, k) ==
  /\ pc[e][k] = "pausePoint"
  /\ ~ paused[e]
  /\ Goto(e, k, "emit")
  /\ UNCHANGED <<attributes, starts, offset, pauseAt, orders>>

\* Resumed, or stopped: the event at the pause point is emitted either way.
LeavePausePoint(e, k) ==
  /\ pc[e][k] = "pausePoint"
  /\ ~ paused[e] \/ ~ running[e]
  /\ Goto(e, k, "emit")
  /\ UNCHANGED <<attributes, starts, offset, pauseAt, orders>>

\* The delay until the event's time, the entry in _results, the publishing.
Emit(e, k) ==
  /\ pc[e][k] = "emit"
  /\ offset' = [offset EXCEPT ![e][k] = @ + 1]
  /\ late' = IF halted[e] THEN [late EXCEPT ![e] = @ \cup {k}] ELSE late
  /\ Goto(e, k, "top")
  /\ UNCHANGED <<attributes, starts, pauseAt, halted>>

\* The event's value is no object, or its timestamp no number: the thread dies,
\* and _running stays as it is.
EventRaises(e, k) ==
  /\ pc[e][k] = "emit"
  /\ Goto(e, k, "done")
  /\ UNCHANGED <<attributes, starts, offset, pauseAt, orders>>

-----------------------------------------------------------------------------
Step(e, k) ==
  \/ End(e, k) \/ WaitWhilePaused(e, k) \/ ReturnWhilePaused(e, k)
  \/ PauseHere(e, k) \/ GoOn(e, k) \/ LeavePausePoint(e, k)
  \/ Emit(e, k) \/ EventRaises(e, k)

Call(e) ==
  \/ \E p \in PausePoints : Start(e, p) \/ RequestStart(e, p)
  \/ Pause(e) \/ Resume(e) \/ Stop(e)

Next == \E e \in Engines : Call(e) \/ \E k \in Replays : Step(e, k)

Spec == Init /\ [][Next]_vars

\* The sleeps of a thread end, whatever is left to call.
FairSpec == Spec /\ \A e \in Engines, k \in Replays : WF_vars(Step(e, k))

-----------------------------------------------------------------------------
Labels == {"none", "top", "held", "pausePoint", "emit", "done"}

\* Every variable has its type, no offset goes beyond the archive, and there is
\* a thread for every start.
TypeOK ==
  /\ running \in [Engines -> BOOLEAN]
  /\ paused \in [Engines -> BOOLEAN]
  /\ starts \in [Engines -> 0 .. MaxStarts]
  /\ pc \in [Engines -> [Replays -> Labels]]
  /\ offset \in [Engines -> [Replays -> 0 .. Length]]
  /\ pauseAt \in [Engines -> [Replays -> 0 .. Length]]
  /\ halted \in [Engines -> BOOLEAN]
  /\ late \in [Engines -> SUBSET Replays]

(***************************************************************************)
(* Once pause() or stop() has returned, a thread that was past its look at *)
(* the attributes emits the event it is at, and none after it, until a     *)
(* caller resumes or starts again: wherever the thread was, at its own     *)
(* pause point too, and with an older thread of the engine around.         *)
(***************************************************************************)
HaltHolds ==
  [][\A e \in Engines, k \in Replays :
       Emit(e, k) /\ halted[e] => k \notin late[e]]_vars

(***************************************************************************)
(* No thread is left over: time and again all threads of an engine have    *)
(* ended, or the engine is running, paused, and waits for a caller.        *)
(***************************************************************************)
Ended(e) == \A k \in Replays : pc[e][k] \in {"none", "done"}

Settles == \A e \in Engines : []<>(Ended(e) \/ (running[e] /\ paused[e]))
=============================================================================
