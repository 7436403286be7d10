----------------------- MODULE ActionExecutor_proofs -----------------------
(***************************************************************************)
(* Proofs about the executor, for any number of callers and attempts.      *)
(***************************************************************************)
EXTENDS ActionExecutor, TLAPS

Busy(c) == pc[c] # "idle"

\* Attempts to come have done nothing.
Unbegun ==
  \A a \in Attempts : a > begun =>
    effect[a] = "none" /\ a \notin succeeded /\ a \notin undone

\* An attempt belongs to one caller, and overlaps those of all others.
Overlapping ==
  \A c, d \in Callers : c # d /\ Busy(c) /\ Busy(d) =>
    attempt[c] # attempt[d] /\ <<attempt[c], attempt[d]>> \in overlap

\* Until it has performed its action an attempt has had no effect, and until it
\* is rolled back it has no outcome.
Fresh ==
  \A c \in Callers :
    /\ pc[c] \in {"capturing", "executing"} => effect[attempt[c]] = "none"
    /\ pc[c] \in {"capturing", "executing", "failed"} =>
         attempt[c] \notin succeeded /\ attempt[c] \notin undone

Frames == TypeOK /\ Unbegun /\ Overlapping /\ Fresh

\* A caller that has been late is not before another unforced effect.
Lateness ==
  \A c \in late : ~ live /\ (pc[c] \in {"capturing", "executing"} => forced[c])

InForce == \A a \in applied : effect[a] = "change"

(***************************************************************************)
(* What a caller has captured, and will write back, is what stands, except *)
(* for attempts that it overlaps.                                          *)
(***************************************************************************)
Overlaps(a, c) == <<a, attempt[c]>> \in overlap

Seen(c) ==
  captured[c] = "listed" =>
    /\ Busy(c)
    /\ attempt[c] \notin before[c]
    /\ \A a \in before[c] : effect[a] = "change"
    /\ \A a \in succeeded :
         effect[a] = "change" /\ a # attempt[c] =>
           a \in before[c] \/ Disturbed(a) \/ Overlaps(a, c)
    /\ \A a \in undone : a \in before[c] => Disturbed(a) \/ Overlaps(a, c)

IInv ==
  /\ Frames /\ EffectsRecorded /\ Lateness
  /\ InForce /\ Standing /\ \A c \in Callers : Seen(c)

-----------------------------------------------------------------------------
LEMMA GotoMoves ==
  ASSUME TypeOK, NEW c \in Callers, NEW l \in Labels, Goto(c, l)
  PROVE  /\ pc' \in [Callers -> Labels]
         /\ pc'[c] = l
         /\ \A d \in Callers : d # c => pc'[d] = pc[d]
BY DEF Goto, TypeOK

\* The frame of d is as it was.
SameFrame(d) ==
  /\ pc'[d] = pc[d] /\ attempt'[d] = attempt[d] /\ kind'[d] = kind[d]
  /\ forced'[d] = forced[d] /\ captured'[d] = captured[d] /\ before'[d] = before[d]

FrameTypes ==
  /\ pc \in [Callers -> Labels]
  /\ attempt \in [Callers -> 0 .. MaxAttempts]
  /\ kind \in [Callers -> Kinds]
  /\ forced \in [Callers -> BOOLEAN]
  /\ captured \in [Callers -> {"nothing", "listed", "unlisted"}]
  /\ before \in [Callers -> SUBSET Attempts]

LEMMA LeaveMoves ==
  ASSUME TypeOK, NEW gone, Leave(gone)
  PROVE  /\ FrameTypes'
         /\ \A c \in Callers : c \in gone => pc'[c] = "idle" /\ captured'[c] = "nothing"
         /\ \A c \in Callers : c \notin gone => SameFrame(c)
<1>1. "idle" \in Labels /\ "none" \in Kinds /\ 0 \in 0 .. MaxAttempts
  BY ExecutorAssumption DEF Labels, Kinds
<1>2. pc' \in [Callers -> Labels] /\ kind' \in [Callers -> Kinds]
  BY <1>1 DEF Leave, TypeOK
<1>3. attempt' \in [Callers -> 0 .. MaxAttempts] /\ forced' \in [Callers -> BOOLEAN]
  BY <1>1 DEF Leave, TypeOK
<1>4. /\ captured' \in [Callers -> {"nothing", "listed", "unlisted"}]
      /\ before' \in [Callers -> SUBSET Attempts]
  BY DEF Leave, TypeOK
<1>5. \A c \in Callers : c \in gone => pc'[c] = "idle" /\ captured'[c] = "nothing"
  BY DEF Leave
<1>6. \A c \in Callers : c \notin gone => SameFrame(c)
  BY DEF Leave, SameFrame
<1> QED
  BY <1>2, <1>3, <1>4, <1>5, <1>6 DEF FrameTypes

\* The attempt of a call under way is one of the attempts.
LEMMA BusyAttempt ==
  ASSUME TypeOK, NEW c \in Callers, Busy(c)
  PROVE  /\ attempt[c] \in Attempts /\ attempt[c] \in 1 .. begun
         /\ attempt[c] \in UnderWay
<1>1. attempt[c] \in 1 .. begun /\ begun \in 0 .. MaxAttempts
  BY DEF TypeOK, Busy
<1>2. attempt[c] \in Attempts
  BY <1>1, ExecutorAssumption DEF Attempts
<1> QED
  BY <1>1, <1>2 DEF UnderWay, Busy

LEMMA UnderWayAttempts ==
  ASSUME TypeOK
  PROVE  UnderWay \subseteq Attempts /\ \A a \in UnderWay : a <= begun
<1> SUFFICES ASSUME NEW a \in UnderWay
             PROVE  a \in Attempts /\ a <= begun
  OBVIOUS
<1>1. PICK c \in Callers : pc[c] # "idle" /\ a = attempt[c]
  BY DEF UnderWay
<1> QED
  BY <1>1, BusyAttempt DEF Busy, TypeOK

(***************************************************************************)
(* Types, and what frames and attempts have to do with each other.         *)
(***************************************************************************)
LEMMA InitFrames == Init => Frames
<1> SUFFICES ASSUME Init
             PROVE  Frames
  OBVIOUS
<1>1. "idle" \in Labels /\ "none" \in Kinds /\ 0 \in 0 .. MaxAttempts
  BY ExecutorAssumption DEF Labels, Kinds
<1>2. FrameTypes
  BY <1>1 DEF Init, FrameTypes
<1>3. \A c \in Callers : pc[c] = "idle"
  BY DEF Init
<1>4. /\ effect \in [Attempts -> {"none", "change", "delete"}]
      /\ record \in [Attempts -> {"none", "rejected", "executed"}]
      /\ \A a \in Attempts : effect[a] = "none"
  BY DEF Init
<1>5. TypeOK
  BY <1>1, <1>2, <1>3, <1>4 DEF Init, FrameTypes, TypeOK
<1>6. Unbegun /\ Overlapping /\ Fresh
  BY <1>3, <1>4 DEF Init, Unbegun, Overlapping, Fresh, Busy
<1> QED
  BY <1>5, <1>6 DEF Frames

\* The history of attempts is as it was.
SameHistory == UNCHANGED <<effect, begun, succeeded, undone, overlap>>

\* Calls that end take nothing with them that the others need.
LEMMA LeaveFrames ==
  ASSUME Frames, NEW gone, Leave(gone), SameHistory,
         live' \in BOOLEAN, applied' = applied, meddling' = meddling,
         record' \in [Attempts -> {"none", "rejected", "executed"}],
         cut' \subseteq Attempts, late' \subseteq Callers
  PROVE  Frames'
<1> USE DEF Frames
<1>1. /\ FrameTypes'
      /\ \A c \in Callers : c \in gone => pc'[c] = "idle" /\ captured'[c] = "nothing"
      /\ \A c \in Callers : c \notin gone => SameFrame(c)
  BY LeaveMoves
<1>2. \A c \in Callers : pc'[c] # "idle" => SameFrame(c)
  BY <1>1
<1>3. TypeOK'
  <2>1. \A c \in Callers :
          /\ pc'[c] # "idle" => attempt'[c] \in 1 .. begun'
          /\ pc'[c] = "failed" => captured'[c] # "nothing"
    BY <1>2 DEF SameFrame, SameHistory, TypeOK
  <2> QED
    BY <1>1, <2>1 DEF FrameTypes, SameHistory, TypeOK
<1>4. Unbegun'
  BY DEF Unbegun, SameHistory
<1>5. Overlapping'
  BY <1>2 DEF Overlapping, Busy, SameFrame, SameHistory
<1>6. Fresh'
  BY <1>2 DEF Fresh, SameFrame, SameHistory
<1> QED
  BY <1>3, <1>4, <1>5, <1>6

LEMMA AdmitFrames ==
  ASSUME Frames, NEW c \in Callers, NEW k \in Kinds,
         NEW permitted \in BOOLEAN, NEW force \in BOOLEAN, Admit(c, k, permitted, force)
  PROVE  Frames'
<1> USE DEF Frames
<1> DEFINE b == begun + 1
<1>1. b \in Attempts /\ b \in 0 .. MaxAttempts /\ begun' = b /\ pc[c] = "idle"
      /\ b \in 1 .. b /\ b > begun /\ begun \in Nat /\ (\A x \in 1 .. begun : x \in 1 .. b)
  BY ExecutorAssumption DEF Admit, Enter, TypeOK, Attempts
<1>2. Goto(c, "capturing") /\ "capturing" \in Labels
  BY DEF Admit, Labels
<1>3. /\ pc' \in [Callers -> Labels] /\ pc'[c] = "capturing"
      /\ \A d \in Callers : d # c => pc'[d] = pc[d]
  BY <1>2, GotoMoves
<1>4. /\ attempt' \in [Callers -> 0 .. MaxAttempts] /\ attempt'[c] = b
      /\ \A d \in Callers : d # c => attempt'[d] = attempt[d]
  BY <1>1 DEF Admit, TypeOK
<1>5. kind' \in [Callers -> Kinds] /\ forced' \in [Callers -> BOOLEAN]
  BY DEF Admit, TypeOK
<1>6. overlap' = overlap \cup ({b} \X UnderWay) \cup (UnderWay \X {b})
  BY DEF Admit
<1>7. UNCHANGED <<live, captured, before, cluster, record, outcomes, cut, late>>
  BY DEF Admit
<1>8. TypeOK'
  <2>1. overlap' \subseteq Attempts \X Attempts
    BY <1>1, <1>6, UnderWayAttempts DEF TypeOK
  <2>2. \A d \in Callers : pc'[d] # "idle" => attempt'[d] \in 1 .. begun'
    BY <1>1, <1>3, <1>4 DEF TypeOK
  <2>3. \A d \in Callers : pc'[d] = "failed" => captured'[d] # "nothing"
    BY <1>3, <1>7 DEF TypeOK
  <2> QED
    BY <1>1, <1>3, <1>4, <1>5, <1>7, <2>1, <2>2, <2>3 DEF TypeOK, cluster, outcomes
<1>9. Unbegun'
  BY <1>1, <1>7 DEF Unbegun, cluster, outcomes, TypeOK, Attempts
<1>10. Overlapping'
  <2> SUFFICES ASSUME NEW d \in Callers, NEW e \in Callers, d # e, Busy(d)', Busy(e)'
               PROVE  (attempt[d] # attempt[e] /\ <<attempt[d], attempt[e]>> \in overlap)'
    BY DEF Overlapping
  <2>1. CASE d # c /\ e # c
    BY <2>1, <1>3, <1>4, <1>6 DEF Overlapping, Busy
  <2>2. CASE d = c
    <3>1. Busy(e) /\ attempt'[e] = attempt[e] /\ attempt'[d] = b
      BY <2>2, <1>3, <1>4 DEF Busy
    <3>2. attempt[e] \in UnderWay /\ attempt[e] # b
      BY <3>1, <1>1, BusyAttempt
    <3> QED
      BY <3>1, <3>2, <1>6
  <2>3. CASE e = c
    <3>1. Busy(d) /\ attempt'[d] = attempt[d] /\ attempt'[e] = b
      BY <2>3, <1>3, <1>4 DEF Busy
    <3>2. attempt[d] \in UnderWay /\ attempt[d] # b
      BY <3>1, <1>1, BusyAttempt
    <3> QED
      BY <3>1, <3>2, <1>6
  <2> QED
    BY <2>1, <2>2, <2>3
<1>11. Fresh'
  <2>1. effect[b] = "none" /\ b \notin succeeded /\ b \notin undone
    BY <1>1 DEF Unbegun
  <2> QED
    BY <2>1, <1>3, <1>4, <1>7 DEF Fresh, cluster, outcomes
<1> QED
  BY <1>8, <1>9, <1>10, <1>11

LEMMA RejectFrames ==
  ASSUME Frames, NEW c \in Callers, NEW permitted \in BOOLEAN, NEW force \in BOOLEAN,
         Reject(c, permitted, force)
  PROVE  Frames'
<1> USE DEF Frames
<1>1. /\ begun' = begun + 1 /\ begun' \in 0 .. MaxAttempts /\ begun' \in Attempts
      /\ (\A x \in 1 .. begun : x \in 1 .. begun')
  BY ExecutorAssumption DEF Reject, Enter, TypeOK, Attempts
<1>2. record' \in [Attempts -> {"none", "rejected", "executed"}]
  BY <1>1 DEF Reject, TypeOK
<1>3. UNCHANGED <<live, frames, cluster, outcomes, cut, overlap, late>>
  BY DEF Reject
<1>4. TypeOK'
  BY <1>1, <1>2, <1>3 DEF TypeOK, frames, cluster, outcomes
<1>5. Unbegun'
  BY <1>1, <1>3 DEF Unbegun, cluster, outcomes, TypeOK, Attempts
<1>6. Overlapping' /\ Fresh'
  BY <1>3 DEF Overlapping, Fresh, Busy, frames, cluster, outcomes
<1> QED
  BY <1>4, <1>5, <1>6

LEMMA CaptureFrames ==
  ASSUME Frames, NEW c \in Callers, CaptureBefore(c)
  PROVE  Frames'
<1> USE DEF Frames
<1>1. Goto(c, "executing") /\ "executing" \in Labels /\ pc[c] = "capturing"
  BY DEF CaptureBefore, Labels
<1>2. /\ pc' \in [Callers -> Labels] /\ pc'[c] = "executing"
      /\ \A d \in Callers : d # c => pc'[d] = pc[d]
  BY <1>1, GotoMoves
<1>3. /\ captured' \in [Callers -> {"nothing", "listed", "unlisted"}]
      /\ \A d \in Callers : d # c => captured'[d] = captured[d]
      /\ before' \in [Callers -> SUBSET Attempts]
  BY DEF CaptureBefore, TypeOK
<1>4. UNCHANGED <<live, attempt, kind, forced, cluster, record, begun, outcomes, cut,
                  overlap, late>>
  BY DEF CaptureBefore
<1>5. TypeOK'
  <2>1. \A d \in Callers :
          /\ pc'[d] # "idle" => attempt'[d] \in 1 .. begun'
          /\ pc'[d] = "failed" => captured'[d] # "nothing"
    BY <1>1, <1>2, <1>3, <1>4 DEF TypeOK
  <2> QED
    BY <1>2, <1>3, <1>4, <2>1 DEF TypeOK, cluster, outcomes
<1>6. Unbegun' /\ Overlapping' /\ Fresh'
  BY <1>1, <1>2, <1>4 DEF Unbegun, Overlapping, Fresh, Busy, cluster, outcomes
<1> QED
  BY <1>5, <1>6

LEMMA PerformFrames ==
  ASSUME Frames, NEW c \in Callers, PerformNothing(c) \/ PerformEffect(c)
  PROVE  Frames'
<1> USE DEF Frames
<1> DEFINE a == attempt[c]
<1>1. PICK success \in BOOLEAN : Judge(c, success)
  BY DEF PerformNothing, PerformEffect
<1>2. PICK l \in {"done", "failed"} :
        Goto(c, l) /\ l \in Labels /\ (l = "done" \/ (captured[c] # "nothing" /\ ~ success))
  BY <1>1 DEF Judge, Labels
<1>3. /\ pc' \in [Callers -> Labels] /\ pc'[c] = l
      /\ \A d \in Callers : d # c => pc'[d] = pc[d]
  BY <1>2, GotoMoves
<1>4. pc[c] = "executing" /\ Busy(c) /\ a \in Attempts /\ a \in 1 .. begun
  BY BusyAttempt DEF PerformNothing, PerformEffect, Busy
<1>5. /\ effect' \in [Attempts -> {"none", "change", "delete"}]
      /\ \A x \in Attempts : x # a => effect'[x] = effect[x]
      /\ applied' \subseteq Attempts
      /\ late' \subseteq Callers
  BY <1>4 DEF PerformNothing, PerformEffect, TypeOK, cluster
<1>6. succeeded' = IF success THEN succeeded \cup {a} ELSE succeeded
  BY <1>1 DEF Judge
<1>7. UNCHANGED <<live, attempt, kind, forced, captured, before, record, begun, meddling,
                  undone, cut, overlap>>
  BY <1>1 DEF Judge, PerformNothing, PerformEffect, TypeOK
<1>8. TypeOK'
  <2>1. \A d \in Callers :
          /\ pc'[d] # "idle" => attempt'[d] \in 1 .. begun'
          /\ pc'[d] = "failed" => captured'[d] # "nothing"
    BY <1>2, <1>3, <1>4, <1>7 DEF TypeOK
  <2>2. succeeded' \subseteq Attempts
    BY <1>4, <1>6 DEF TypeOK
  <2> QED
    BY <1>3, <1>5, <1>7, <2>1, <2>2 DEF TypeOK
<1>9. Unbegun'
  BY <1>4, <1>5, <1>6, <1>7 DEF Unbegun, TypeOK
<1>10. Overlapping'
  BY <1>3, <1>4, <1>7 DEF Overlapping, Busy
<1>11. Fresh'
  <2> SUFFICES ASSUME NEW d \in Callers
               PROVE  (/\ pc[d] \in {"capturing", "executing"} => effect[attempt[d]] = "none"
                       /\ pc[d] \in {"capturing", "executing", "failed"} =>
                            attempt[d] \notin succeeded /\ attempt[d] \notin undone)'
    BY DEF Fresh
  <2>1. CASE d = c
    BY <2>1, <1>2, <1>3, <1>4, <1>6, <1>7 DEF Fresh
  <2>2. CASE d # c /\ pc[d] \in {"capturing", "executing", "failed"}
    <3>1. Busy(d) /\ attempt[d] \in Attempts /\ attempt[d] # a
      BY <2>2, <1>4, BusyAttempt DEF Overlapping, Busy
    <3> QED
      BY <2>2, <3>1, <1>3, <1>5, <1>6, <1>7 DEF Fresh
  <2>3. CASE d # c /\ pc[d] \notin {"capturing", "executing", "failed"}
    BY <2>3, <1>3
  <2> QED
    BY <2>1, <2>2, <2>3
<1> QED
  BY <1>8, <1>9, <1>10, <1>11

LEMMA RollbackFrames ==
  ASSUME Frames, NEW c \in Callers, Rollback(c)
  PROVE  Frames'
<1> USE DEF Frames
<1> DEFINE a == attempt[c]
<1>1. Goto(c, "done") /\ "done" \in Labels
  BY DEF Rollback, Labels
<1>2. /\ pc' \in [Callers -> Labels] /\ pc'[c] = "done"
      /\ \A d \in Callers : d # c => pc'[d] = pc[d]
  BY <1>1, GotoMoves
<1>3. pc[c] = "failed" /\ Busy(c) /\ a \in Attempts /\ a \in 1 .. begun
  BY BusyAttempt DEF Rollback, Busy
<1>4. /\ applied' \subseteq Attempts /\ meddling' \subseteq Attempts
      /\ undone' \subseteq undone \cup {a}
  BY <1>3 DEF Rollback, Restores, TypeOK
<1>5. UNCHANGED <<live, attempt, kind, forced, captured, before, effect, record, begun,
                  succeeded, cut, overlap, late>>
  BY DEF Rollback
<1>6. TypeOK'
  <2>1. \A d \in Callers :
          /\ pc'[d] # "idle" => attempt'[d] \in 1 .. begun'
          /\ pc'[d] = "failed" => captured'[d] # "nothing"
    BY <1>2, <1>3, <1>5 DEF TypeOK
  <2>2. undone' \subseteq Attempts
    BY <1>3, <1>4 DEF TypeOK
  <2> QED
    BY <1>2, <1>4, <1>5, <2>1, <2>2 DEF TypeOK
<1>7. Unbegun'
  BY <1>3, <1>4, <1>5 DEF Unbegun, TypeOK
<1>8. Overlapping'
  BY <1>2, <1>3, <1>5 DEF Overlapping, Busy
<1>9. Fresh'
  <2> SUFFICES ASSUME NEW d \in Callers
               PROVE  (/\ pc[d] \in {"capturing", "executing"} => effect[attempt[d]] = "none"
                       /\ pc[d] \in {"capturing", "executing", "failed"} =>
                            attempt[d] \notin succeeded /\ attempt[d] \notin undone)'
    BY DEF Fresh
  <2>1. CASE d = c
    BY <2>1, <1>2
  <2>2. CASE d # c /\ pc[d] \in {"capturing", "executing", "failed"}
    <3>1. attempt[d] # a
      BY <2>2, <1>3 DEF Overlapping, Busy
    <3> QED
      BY <2>2, <3>1, <1>2, <1>4, <1>5 DEF Fresh
  <2>3. CASE d # c /\ pc[d] \notin {"capturing", "executing", "failed"}
    BY <2>3, <1>2
  <2> QED
    BY <2>1, <2>2, <2>3
<1> QED
  BY <1>6, <1>7, <1>8, <1>9

LEMMA NextFrames == Frames /\ [Next]_vars => Frames'
<1> SUFFICES ASSUME Frames, [Next]_vars
             PROVE  Frames'
  OBVIOUS
<1>1. ASSUME NEW c \in Callers, Record(c)
      PROVE  Frames'
  <2>1. Busy(c) /\ attempt[c] \in Attempts
    BY <1>1, BusyAttempt DEF Record, Busy, Frames
  <2>2. record' \in [Attempts -> {"none", "rejected", "executed"}]
    BY <1>1, <2>1 DEF Record, Frames, TypeOK
  <2>3. Leave({c}) /\ UNCHANGED <<live, cluster, begun, outcomes, cut, overlap, late>>
    BY <1>1 DEF Record
  <2> QED
    BY <2>2, <2>3, LeaveFrames DEF SameHistory, Frames, TypeOK, cluster, outcomes
<1>2. ASSUME NEW c \in Callers, Raise(c)
      PROVE  Frames'
  <2>1. Busy(c) /\ attempt[c] \in Attempts
    BY <1>2, BusyAttempt DEF Raise, Raises, Busy, Frames
  <2>2. cut' \subseteq Attempts
    BY <1>2, <2>1 DEF Raise, Frames, TypeOK
  <2>3. Leave({c}) /\ UNCHANGED <<live, cluster, record, begun, outcomes, overlap, late>>
    BY <1>2 DEF Raise
  <2> QED
    BY <2>2, <2>3, LeaveFrames DEF SameHistory, Frames, TypeOK, cluster, outcomes
<1>3. CASE Crash
  <2>1. cut' \subseteq Attempts
    BY <1>3, UnderWayAttempts DEF Crash, Frames, TypeOK
  <2>2. /\ Leave(Callers) /\ live' \in BOOLEAN /\ late' = {}
        /\ UNCHANGED <<cluster, record, begun, outcomes, overlap>>
    BY <1>3 DEF Crash
  <2> QED
    BY <2>1, <2>2, LeaveFrames DEF SameHistory, Frames, TypeOK, cluster, outcomes
<1>4. ASSUME NEW m \in BOOLEAN, SetMode(m)
      PROVE  Frames'
  BY <1>4 DEF SetMode, Frames, TypeOK, Unbegun, Overlapping, Fresh, Busy, frames, cluster,
     outcomes
<1>5. CASE UNCHANGED vars
  BY <1>5 DEF vars, Frames, TypeOK, Unbegun, Overlapping, Fresh, Busy, frames, cluster,
     outcomes
<1> QED
  BY <1>1, <1>2, <1>3, <1>4, <1>5, AdmitFrames, RejectFrames, CaptureFrames, PerformFrames,
     RollbackFrames DEF Next, Call, Step

(***************************************************************************)
(* Effects are recorded.                                                   *)
(***************************************************************************)
LEMMA StaysUnderWay ==
  ASSUME NEW d \in Callers, pc[d] # "idle", pc'[d] # "idle", attempt'[d] = attempt[d]
  PROVE  attempt[d] \in UnderWay'
BY DEF UnderWay

LEMMA KeepsUnderWay ==
  ASSUME \A d \in Callers : pc[d] # "idle" => pc'[d] # "idle" /\ attempt'[d] = attempt[d]
  PROVE  \A a \in UnderWay : a \in UnderWay'
<1> SUFFICES ASSUME NEW a \in UnderWay
             PROVE  a \in UnderWay'
  OBVIOUS
<1>1. PICK d \in Callers : pc[d] # "idle" /\ a = attempt[d]
  BY DEF UnderWay
<1> QED
  BY <1>1, StaysUnderWay

LEMMA LeavesUnderWay ==
  ASSUME NEW c \in Callers, \A d \in Callers : d # c => SameFrame(d)
  PROVE  \A a \in UnderWay : a \in UnderWay' \/ a = attempt[c]
<1> SUFFICES ASSUME NEW a \in UnderWay, a # attempt[c]
             PROVE  a \in UnderWay'
  OBVIOUS
<1>1. PICK d \in Callers : pc[d] # "idle" /\ a = attempt[d]
  BY DEF UnderWay
<1> QED
  BY <1>1, StaysUnderWay DEF SameFrame

LEMMA InitRecorded == Init => EffectsRecorded
BY DEF Init, EffectsRecorded

LEMMA NextRecorded ==
  ASSUME Frames, EffectsRecorded, [Next]_vars
  PROVE  EffectsRecorded'
<1> USE DEF Frames
<1>1. ASSUME NEW c \in Callers, PerformNothing(c) \/ PerformEffect(c)
      PROVE  EffectsRecorded'
  <2>1. PICK success \in BOOLEAN : Judge(c, success)
    BY <1>1 DEF PerformNothing, PerformEffect
  <2>2. PICK l \in {"done", "failed"} : Goto(c, l) /\ l \in Labels
    BY <2>1 DEF Judge, Labels
  <2>3. pc'[c] # "idle" /\ \A d \in Callers : d # c => pc'[d] = pc[d]
    BY <2>2, GotoMoves
  <2>4. UNCHANGED <<attempt, record, cut>>
    BY <2>1 DEF Judge
  <2>5. \A a \in UnderWay : a \in UnderWay'
    BY <2>3, <2>4, KeepsUnderWay
  <2>6. attempt[c] \in UnderWay
    BY <1>1, BusyAttempt DEF PerformNothing, PerformEffect, Busy
  <2>7. \A a \in Attempts : a # attempt[c] => effect'[a] = effect[a]
    BY <1>1 DEF PerformNothing, PerformEffect, TypeOK, cluster
  <2> QED
    BY <2>4, <2>5, <2>6, <2>7 DEF EffectsRecorded
<1>2. ASSUME NEW c \in Callers, CaptureBefore(c) \/ Rollback(c)
      PROVE  EffectsRecorded'
  <2>1. PICK l \in {"executing", "done"} : Goto(c, l) /\ l \in Labels
    BY <1>2 DEF CaptureBefore, Rollback, Labels
  <2>2. pc'[c] # "idle" /\ \A d \in Callers : d # c => pc'[d] = pc[d]
    BY <2>1, GotoMoves
  <2>3. UNCHANGED <<attempt, record, cut, effect>>
    BY <1>2 DEF CaptureBefore, Rollback, cluster
  <2>4. \A a \in UnderWay : a \in UnderWay'
    BY <2>2, <2>3, KeepsUnderWay
  <2> QED
    BY <2>3, <2>4 DEF EffectsRecorded
<1>3. ASSUME NEW c \in Callers, NEW permitted \in BOOLEAN, NEW force \in BOOLEAN,
             Reject(c, permitted, force) \/ \E k \in Kinds : Admit(c, k, permitted, force)
      PROVE  EffectsRecorded'
  <2>1. begun + 1 \in Attempts /\ effect[begun + 1] = "none" /\ pc[c] = "idle"
    BY <1>3, ExecutorAssumption DEF Reject, Admit, Enter, Attempts, Unbegun, TypeOK
  <2>2. \A d \in Callers : pc[d] # "idle" => pc'[d] # "idle" /\ attempt'[d] = attempt[d]
    BY <1>3, <2>1 DEF Reject, Admit, Goto, TypeOK, frames
  <2>3. \A a \in UnderWay : a \in UnderWay'
    BY <2>2, KeepsUnderWay
  <2>4. \A a \in Attempts : a # begun + 1 => record'[a] = record[a]
    BY <1>3, <2>1 DEF Reject, Admit, TypeOK
  <2>5. UNCHANGED <<effect, cut>>
    BY <1>3 DEF Reject, Admit, cluster
  <2> QED
    BY <2>1, <2>3, <2>4, <2>5 DEF EffectsRecorded
<1>4. ASSUME NEW c \in Callers, Record(c) \/ Raise(c)
      PROVE  EffectsRecorded'
  <2>1. Leave({c}) /\ UNCHANGED cluster
    BY <1>4 DEF Record, Raise
  <2>2. \A d \in Callers : d # c => SameFrame(d)
    BY <2>1, LeaveMoves
  <2>3. \A a \in UnderWay : a \in UnderWay' \/ a = attempt[c]
    BY <2>2, LeavesUnderWay
  <2>4. Busy(c) /\ attempt[c] \in Attempts
    BY <1>4, BusyAttempt DEF Record, Raise, Raises, Busy
  <2>5. /\ record'[attempt[c]] = "executed" \/ attempt[c] \in cut'
        /\ \A a \in Attempts : record[a] = "executed" => record'[a] = "executed"
        /\ cut \subseteq cut'
    BY <1>4, <2>4 DEF Record, Raise, TypeOK
  <2> QED
    BY <2>1, <2>3, <2>5 DEF EffectsRecorded, cluster
<1>5. CASE Crash
  BY <1>5 DEF Crash, EffectsRecorded, cluster
<1>6. CASE UNCHANGED vars \/ \E m \in BOOLEAN : SetMode(m)
  BY <1>6 DEF vars, SetMode, EffectsRecorded, UnderWay, cluster, frames
<1> QED
  BY <1>1, <1>2, <1>3, <1>4, <1>5, <1>6 DEF Next, Call, Step

(***************************************************************************)
(* A switch of the mode holds.                                             *)
(***************************************************************************)
LEMMA NextLateness ==
  ASSUME Frames, Lateness, [Next]_vars
  PROVE  Lateness'
<1> USE DEF Frames
<1>1. ASSUME NEW c \in Callers, Step(c), ~ Record(c), ~ Raise(c)
      PROVE  Lateness'
  <2>1. PICK l \in {"executing", "done", "failed"} : Goto(c, l) /\ l \in Labels
    BY <1>1 DEF Step, CaptureBefore, PerformNothing, PerformEffect, Judge, Rollback, Labels
  <2>2. pc'[c] = l /\ \A d \in Callers : d # c => pc'[d] = pc[d]
    BY <2>1, GotoMoves
  <2>3. UNCHANGED <<live, forced>>
    BY <1>1 DEF Step, CaptureBefore, PerformNothing, PerformEffect, Judge, Rollback
  <2>4. CASE CaptureBefore(c)
    <3>1. pc[c] = "capturing" /\ late' = late
      BY <2>4 DEF CaptureBefore
    <3> QED
      BY <3>1, <2>2, <2>3 DEF Lateness, TypeOK
  <2>5. CASE ~ CaptureBefore(c)
    <3>1. pc'[c] \notin {"capturing", "executing"}
      BY <1>1, <2>1, <2>2, <2>5 DEF Step, PerformNothing, PerformEffect, Judge, Rollback, Goto,
         TypeOK
    <3>2. late' \subseteq late \cup {c} /\ (late' # late => ~ live)
      BY <1>1, <2>5 DEF Step, PerformNothing, PerformEffect, Rollback
    <3> QED
      BY <3>1, <3>2, <2>2, <2>3 DEF Lateness, TypeOK
  <2> QED
    BY <2>4, <2>5
<1>2. ASSUME NEW c \in Callers, Record(c) \/ Raise(c)
      PROVE  Lateness'
  <2>1. Leave({c}) /\ UNCHANGED <<live, late>>
    BY <1>2 DEF Record, Raise
  <2>2. pc'[c] = "idle" /\ \A d \in Callers : d # c => SameFrame(d)
    BY <2>1, LeaveMoves
  <2> QED
    BY <2>1, <2>2 DEF Lateness, SameFrame, TypeOK
<1>3. ASSUME NEW c \in Callers, NEW permitted \in BOOLEAN, NEW force \in BOOLEAN,
             NEW k \in Kinds, Admit(c, k, permitted, force)
      PROVE  Lateness'
  <2>1. UNCHANGED <<live, late>> /\ (force \/ live)
    BY <1>3 DEF Admit, Admitted
  <2>2. forced'[c] = force /\ \A d \in Callers : d # c => forced'[d] = forced[d] /\ pc'[d] = pc[d]
    BY <1>3 DEF Admit, Goto, TypeOK
  <2> QED
    BY <2>1, <2>2 DEF Lateness, TypeOK
<1>4. ASSUME NEW c \in Callers, NEW permitted \in BOOLEAN, NEW force \in BOOLEAN,
             Reject(c, permitted, force)
      PROVE  Lateness'
  BY <1>4 DEF Reject, Lateness, frames
<1>5. CASE Crash
  BY <1>5 DEF Crash, Lateness
<1>6. ASSUME NEW m \in BOOLEAN, SetMode(m)
      PROVE  Lateness'
  BY <1>6 DEF SetMode, Lateness, frames
<1>7. CASE UNCHANGED vars
  BY <1>7 DEF vars, Lateness, frames
<1> QED
  BY <1>1, <1>2, <1>3, <1>4, <1>5, <1>6, <1>7 DEF Next, Call

(***************************************************************************)
(* What stands.                                                            *)
(***************************************************************************)
Stands == InForce /\ Standing /\ \A c \in Callers : Seen(c)

\* A step that leaves the cluster and the outcomes alone, forgets no overlap,
\* and changes no frame that has listed anything but by ending its call.
LEMMA QuietStands ==
  ASSUME Stands, UNCHANGED <<cluster, outcomes>>, overlap \subseteq overlap',
         \A c \in Callers : captured'[c] = "listed" =>
           pc'[c] # "idle" /\ attempt'[c] = attempt[c] /\ captured[c] = "listed"
                           /\ before'[c] = before[c]
  PROVE  Stands'
<1>1. \A a \in Attempts : Disturbed(a) => Disturbed(a)'
  BY DEF Disturbed, outcomes
<1>2. InForce' /\ Standing'
  BY DEF Stands, InForce, Standing, Disturbed, cluster, outcomes
<1>3. ASSUME NEW c \in Callers
      PROVE  Seen(c)'
  BY DEF Stands, Seen, Overlaps, Busy, Disturbed, cluster, outcomes
<1> QED
  BY <1>2, <1>3 DEF Stands

LEMMA CaptureStands ==
  ASSUME Frames, Stands, NEW c \in Callers, CaptureBefore(c)
  PROVE  Stands'
<1> USE DEF Frames
<1>1. /\ pc[c] = "capturing" /\ Goto(c, "executing") /\ "executing" \in Labels
      /\ UNCHANGED <<attempt, cluster, outcomes, overlap>>
  BY DEF CaptureBefore, Labels
<1>2. pc'[c] = "executing" /\ \A d \in Callers : d # c => pc'[d] = pc[d]
  BY <1>1, GotoMoves
<1>3. /\ captured'[c] = "listed" => before'[c] = applied
      /\ \A d \in Callers : d # c => captured'[d] = captured[d] /\ before'[d] = before[d]
  BY DEF CaptureBefore, TypeOK
<1>4. InForce' /\ Standing'
  BY <1>1 DEF Stands, InForce, Standing, Disturbed, cluster, outcomes
<1>5. ASSUME NEW d \in Callers
      PROVE  Seen(d)'
  <2>1. CASE d # c
    BY <2>1, <1>1, <1>2, <1>3 DEF Stands, Seen, Overlaps, Busy, Disturbed, cluster, outcomes
  <2>2. CASE d = c
    <3>1. attempt[c] \notin applied
      BY <1>1 DEF Stands, InForce, Fresh
    <3> QED
      BY <2>2, <3>1, <1>1, <1>2, <1>3 DEF Stands, InForce, Seen, Standing, Overlaps, Busy,
         Disturbed, cluster, outcomes
  <2> QED
    BY <2>1, <2>2
<1> QED
  BY <1>4, <1>5 DEF Stands

LEMMA PerformStands ==
  ASSUME Frames, Stands, NEW c \in Callers, PerformNothing(c) \/ PerformEffect(c)
  PROVE  Stands'
<1> USE DEF Frames
<1> DEFINE b == attempt[c]
<1>1. PICK success \in BOOLEAN : Judge(c, success)
  BY DEF PerformNothing, PerformEffect
<1>2. PICK l \in {"done", "failed"} : Goto(c, l) /\ l \in Labels
  BY <1>1 DEF Judge, Labels
<1>3. pc'[c] = l /\ \A d \in Callers : d # c => pc'[d] = pc[d]
  BY <1>2, GotoMoves
<1>4. /\ pc[c] = "executing" /\ Busy(c) /\ b \in Attempts /\ effect[b] = "none"
      /\ b \notin succeeded /\ b \notin undone /\ b \notin applied
  BY BusyAttempt DEF PerformNothing, PerformEffect, Busy, Fresh, Stands, InForce
<1>5. UNCHANGED <<attempt, captured, before, meddling, undone, overlap>>
  BY <1>1 DEF Judge
<1>6. /\ succeeded' \subseteq succeeded \cup {b}
      /\ \A a \in Attempts : a # b => effect'[a] = effect[a]
      /\ applied \subseteq applied' /\ applied' \subseteq applied \cup {b}
      /\ b \in applied' <=> effect'[b] = "change"
  BY <1>1, <1>4 DEF Judge, PerformNothing, PerformEffect, TypeOK, cluster
<1>7. InForce'
  BY <1>4, <1>6 DEF Stands, InForce, TypeOK
<1>8. Standing'
  <2>1. \A a \in succeeded' : effect'[a] = "change" => a \in applied' \/ Disturbed(a)'
    BY <1>4, <1>5, <1>6 DEF Stands, Standing, Disturbed, TypeOK
  <2>2. \A a \in undone' : a \in applied' => Disturbed(a)'
    BY <1>4, <1>5, <1>6 DEF Stands, Standing, Disturbed
  <2> QED
    BY <2>1, <2>2 DEF Standing
<1>9. ASSUME NEW d \in Callers, captured'[d] = "listed"
      PROVE  Seen(d)'
  <2>1. captured[d] = "listed" /\ Seen(d) /\ Busy(d)
    BY <1>5, <1>9 DEF Stands, Seen
  <2>2. pc'[d] # "idle"
    BY <2>1, <1>3 DEF Busy
  <2>3. d # c => Overlaps(b, d)
    BY <2>1, <1>4 DEF Overlapping, Overlaps
  <2>4. \A a \in succeeded' :
          effect'[a] = "change" /\ a # attempt[d] =>
            a \in before[d] \/ Disturbed(a) \/ Overlaps(a, d)
    <3> SUFFICES ASSUME NEW a \in succeeded', effect'[a] = "change", a # attempt[d]
                 PROVE  a \in before[d] \/ Disturbed(a) \/ Overlaps(a, d)
      OBVIOUS
    <3>1. CASE a = b
      BY <3>1, <2>3
    <3>2. CASE a # b
      BY <3>2, <1>6, <2>1 DEF Seen, TypeOK
    <3> QED
      BY <3>1, <3>2
  <2>5. \A a \in before[d] : effect'[a] = "change"
    BY <2>1, <1>4, <1>6 DEF Seen, TypeOK
  <2> QED
    BY <2>1, <2>2, <2>4, <2>5, <1>5 DEF Seen, Overlaps, Disturbed, Busy
<1>10. \A d \in Callers : Seen(d)'
  BY <1>9 DEF Seen
<1> QED
  BY <1>7, <1>8, <1>10 DEF Stands

LEMMA RollbackStands ==
  ASSUME Frames, Stands, NEW c \in Callers, Rollback(c)
  PROVE  Stands'
<1> USE DEF Frames
<1> DEFINE b == attempt[c]
<1>1. /\ pc[c] = "failed" /\ Busy(c) /\ b \in Attempts /\ b \notin succeeded
      /\ Goto(c, "done") /\ "done" \in Labels
      /\ UNCHANGED <<attempt, captured, before, effect, succeeded, overlap>>
  BY BusyAttempt DEF Rollback, Busy, Fresh, Labels
<1>2. pc'[c] = "done" /\ \A d \in Callers : d # c => pc'[d] = pc[d]
  BY <1>1, GotoMoves
<1>3. \A d \in Callers : pc[d] # "idle" => pc'[d] # "idle"
  BY <1>2
<1>4. CASE captured[c] = "unlisted"
  <2>1. UNCHANGED <<applied, meddling, undone>>
    BY <1>4 DEF Rollback
  <2>2. \A d \in Callers : captured[d] = "listed" => pc[d] # "idle"
    BY DEF Stands, Seen, Busy
  <2> QED
    BY <2>1, <2>2, <1>1, <1>3, QuietStands DEF cluster, outcomes
<1>5. CASE captured[c] = "listed"
  <2>1. PICK written \in SUBSET Attempts :
          /\ applied' = (applied \ written) \cup (before[c] \cap written)
          /\ undone' = IF written = Attempts THEN undone \cup {b} ELSE undone
    BY <1>5 DEF Rollback, Restores
  <2>2. meddling' = meddling \cup {b}
    BY <1>5 DEF Rollback
  <2>3. Seen(c) /\ b \notin before[c]
    BY <1>5 DEF Stands, Seen
  <2>4. \A a \in Attempts : (Disturbed(a) => Disturbed(a)') /\ (Overlaps(a, c) => Disturbed(a)')
    BY <2>2, <1>1 DEF Disturbed, Overlaps
  <2>5. InForce'
    <3>1. \A a \in before[c] : effect[a] = "change"
      BY <1>5 DEF Stands, Seen
    <3> QED
      BY <3>1, <2>1, <1>1 DEF Stands, InForce
  <2>6. Standing'
    <3>1. ASSUME NEW a \in succeeded, effect[a] = "change"
          PROVE  a \in applied' \/ Disturbed(a)'
      <4>1. a \in Attempts /\ a # b
        BY <1>1 DEF TypeOK
      <4>2. a \in applied \/ Disturbed(a)'
        BY <3>1, <4>1, <2>4 DEF Stands, Standing
      <4>3. a \in before[c] \/ Disturbed(a)'
        BY <3>1, <4>1, <2>3, <2>4, <1>5 DEF Seen
      <4> QED
        BY <4>1, <4>2, <4>3, <2>1
    <3>2. ASSUME NEW a \in undone', a \in applied'
          PROVE  Disturbed(a)'
      <4>1. CASE a \in undone
        <5>1. a \in Attempts /\ (a \in applied \/ a \in before[c])
          BY <4>1, <3>2, <2>1 DEF TypeOK
        <5> QED
          BY <4>1, <5>1, <2>3, <2>4, <1>5 DEF Stands, Standing, Seen
      <4>2. CASE a \notin undone
        BY <4>2, <3>2, <2>1, <2>3, <1>1
      <4> QED
        BY <4>1, <4>2
    <3> QED
      BY <3>1, <3>2, <1>1 DEF Standing
  <2>7. ASSUME NEW d \in Callers, captured'[d] = "listed"
        PROVE  Seen(d)'
    <3>1. captured[d] = "listed" /\ Seen(d) /\ Busy(d) /\ pc'[d] # "idle"
      BY <2>7, <1>1, <1>3 DEF Stands, Seen, Busy
    <3>2. d # c => Overlaps(b, d)
      BY <3>1, <1>1 DEF Overlapping, Overlaps
    <3>3. \A a \in succeeded :
            effect[a] = "change" /\ a # attempt[d] =>
              a \in before[d] \/ Disturbed(a)' \/ Overlaps(a, d)
      BY <3>1, <2>4 DEF Seen, TypeOK
    <3>4. \A a \in undone' : a \in before[d] => Disturbed(a)' \/ Overlaps(a, d)
      <4> SUFFICES ASSUME NEW a \in undone', a \in before[d]
                   PROVE  Disturbed(a)' \/ Overlaps(a, d)
        OBVIOUS
      <4>1. CASE a \in undone
        BY <4>1, <3>1, <2>4 DEF Seen, TypeOK
      <4>2. CASE a \notin undone
        BY <4>2, <3>2, <2>1, <2>3
      <4> QED
        BY <4>1, <4>2
    <3> QED
      BY <3>1, <3>3, <3>4, <1>1 DEF Seen, Overlaps, Busy
  <2>8. \A d \in Callers : Seen(d)'
    BY <2>7 DEF Seen
  <2> QED
    BY <2>5, <2>6, <2>8 DEF Stands
<1> QED
  BY <1>4, <1>5 DEF Rollback

LEMMA InitStands == Init => Stands
BY DEF Init, Stands, InForce, Standing, Seen

LEMMA NextStands ==
  ASSUME Frames, Stands, [Next]_vars
  PROVE  Stands'
<1>1. \A c \in Callers : captured[c] = "listed" => pc[c] # "idle"
  BY DEF Stands, Seen, Busy
<1>2. ASSUME NEW c \in Callers, NEW permitted \in BOOLEAN, NEW force \in BOOLEAN,
             Reject(c, permitted, force) \/ \E k \in Kinds : Admit(c, k, permitted, force)
      PROVE  Stands'
  <2>1. UNCHANGED <<cluster, outcomes, captured, before>> /\ overlap \subseteq overlap'
    BY <1>2 DEF Reject, Admit, frames
  <2>2. pc[c] = "idle"
    BY <1>2 DEF Reject, Admit, Enter
  <2>3. \A d \in Callers : pc[d] # "idle" => pc'[d] # "idle" /\ attempt'[d] = attempt[d]
    BY <1>2, <2>2 DEF Reject, Admit, Goto, Frames, TypeOK, frames
  <2> QED
    BY <1>1, <2>1, <2>3, QuietStands
<1>3. ASSUME NEW gone, Leave(gone), UNCHANGED <<cluster, outcomes, overlap>>
      PROVE  Stands'
  <2>1. /\ \A c \in Callers : c \in gone => captured'[c] = "nothing"
        /\ \A c \in Callers : c \notin gone => SameFrame(c)
    BY <1>3, LeaveMoves DEF Frames
  <2> QED
    BY <1>1, <1>3, <2>1, QuietStands DEF SameFrame
<1>4. ASSUME NEW c \in Callers, Record(c) \/ Raise(c)
      PROVE  Stands'
  BY <1>3, <1>4 DEF Record, Raise
<1>5. CASE Crash
  BY <1>3, <1>5 DEF Crash
<1>6. CASE UNCHANGED vars \/ \E m \in BOOLEAN : SetMode(m)
  <2>1. UNCHANGED <<frames, cluster, outcomes, overlap>>
    BY <1>6 DEF vars, SetMode
  <2> QED
    BY <1>1, <2>1, QuietStands DEF frames
<1> QED
  BY <1>2, <1>4, <1>5, <1>6, CaptureStands, PerformStands, RollbackStands DEF Next, Call, Step

-----------------------------------------------------------------------------
LEMMA IInvHolds == Spec => []IInv
<1>1. Init => IInv
  BY InitFrames, InitRecorded, InitStands DEF IInv, Stands, Lateness, Init
<1>2. IInv /\ [Next]_vars => IInv'
  BY NextFrames, NextRecorded, NextLateness, NextStands DEF IInv, Stands
<1> QED
  BY <1>1, <1>2, PTL DEF Spec

\* Type correctness of the executor.
THEOREM Typing == Spec => []TypeOK
<1>1. IInv => TypeOK
  BY DEF IInv, Frames
<1> QED
  BY <1>1, IInvHolds, PTL

\* Whatever is interleaved, an effect on the cluster has its audit event, unless
\* the process, the database or a capture fails between the two.
THEOREM Recording == Spec => []EffectsRecorded
<1>1. IInv => EffectsRecorded
  BY DEF IInv
<1> QED
  BY <1>1, IInvHolds, PTL

\* Only the rollback of an attempt that overlaps reverses what an attempt has
\* left on the cluster.
THEOREM Stability == Spec => []Standing
<1>1. IInv => Standing
  BY DEF IInv
<1> QED
  BY <1>1, IInvHolds, PTL

\* After a switch away from live a caller has one more effect at most.
THEOREM Switching == Spec => SwitchHolds
<1>1. ASSUME IInv, NEW c \in Callers, PerformEffect(c), ~ live, ~ forced[c]
      PROVE  c \notin late
  BY <1>1 DEF IInv, Lateness, PerformEffect
<1>2. IInv /\ [Next]_vars =>
        [\A c \in Callers : PerformEffect(c) /\ ~ live /\ ~ forced[c] => c \notin late]_vars
  BY <1>1
<1> QED
  BY <1>2, IInvHolds, PTL DEF Spec, SwitchHolds

-----------------------------------------------------------------------------
(***************************************************************************)
(* The audit trail. What remains to be shown is that an attempt under way  *)
(* has no audit event that ends it, and how each step changes what is      *)
(* under way.                                                              *)
(***************************************************************************)
Unrecorded ==
  /\ \A a \in Attempts : a > begun => record[a] = "none"
  /\ \A c \in Callers : Busy(c) => record[attempt[c]] = "none"

LEMMA SameUnderWay ==
  ASSUME \A d \in Callers : (pc'[d] = "idle" <=> pc[d] = "idle"),
         \A d \in Callers : pc[d] # "idle" => attempt'[d] = attempt[d]
  PROVE  UnderWay' = UnderWay
BY DEF UnderWay

\* The steps within a call leave what is under way as it is.
LEMMA WithinCall ==
  ASSUME Frames, NEW c \in Callers,
         CaptureBefore(c) \/ PerformNothing(c) \/ PerformEffect(c) \/ Rollback(c)
  PROVE  /\ Busy(c) /\ UNCHANGED <<attempt, record, begun, cut>>
         /\ \A d \in Callers : pc'[d] = "idle" <=> pc[d] = "idle"
         /\ UnderWay' = UnderWay
<1>1. PICK l \in {"executing", "done", "failed"} : Goto(c, l) /\ l \in Labels
  BY DEF CaptureBefore, PerformNothing, PerformEffect, Judge, Rollback, Labels
<1>2. pc'[c] = l /\ \A d \in Callers : d # c => pc'[d] = pc[d]
  BY <1>1, GotoMoves DEF Frames
<1>3. Busy(c) /\ UNCHANGED <<attempt, record, begun, cut>>
  BY DEF CaptureBefore, PerformNothing, PerformEffect, Judge, Rollback, Busy
<1>4. \A d \in Callers : pc'[d] = "idle" <=> pc[d] = "idle"
  BY <1>1, <1>2, <1>3 DEF Busy
<1>5. UnderWay' = UnderWay
  BY <1>3, <1>4, SameUnderWay
<1> QED
  BY <1>3, <1>4, <1>5

LEMMA AdmitOpens ==
  ASSUME Frames, NEW c \in Callers, NEW k, NEW permitted, NEW force,
         Admit(c, k, permitted, force)
  PROVE  /\ pc[c] = "idle" /\ pc'[c] = "capturing" /\ attempt'[c] = begun + 1
         /\ \A d \in Callers : d # c => pc'[d] = pc[d] /\ attempt'[d] = attempt[d]
         /\ UnderWay' = UnderWay \cup {begun + 1}
<1>1. pc[c] = "idle" /\ begun + 1 \in 0 .. MaxAttempts
  BY ExecutorAssumption DEF Admit, Enter, Frames, TypeOK
<1>2. Goto(c, "capturing") /\ "capturing" \in Labels
  BY DEF Admit, Labels
<1>3. pc'[c] = "capturing" /\ \A d \in Callers : d # c => pc'[d] = pc[d]
  BY <1>2, GotoMoves DEF Frames
<1>4. attempt'[c] = begun + 1 /\ \A d \in Callers : d # c => attempt'[d] = attempt[d]
  BY <1>1 DEF Admit, Frames, TypeOK
<1>5. UnderWay' = UnderWay \cup {begun + 1}
  <2>1. ASSUME NEW a \in UnderWay'
        PROVE  a \in UnderWay \cup {begun + 1}
    <3>1. PICK d \in Callers : pc'[d] # "idle" /\ a = attempt'[d]
      BY <2>1 DEF UnderWay
    <3> QED
      BY <3>1, <1>3, <1>4 DEF UnderWay
  <2>2. ASSUME NEW a \in UnderWay
        PROVE  a \in UnderWay'
    <3>1. PICK d \in Callers : pc[d] # "idle" /\ a = attempt[d]
      BY <2>2 DEF UnderWay
    <3>2. pc'[d] # "idle" /\ attempt'[d] = a
      BY <3>1, <1>1, <1>3, <1>4
    <3> QED
      BY <3>2 DEF UnderWay
  <2>3. begun + 1 \in UnderWay'
    BY <1>3, <1>4 DEF UnderWay
  <2> QED
    BY <2>1, <2>2, <2>3
<1> QED
  BY <1>1, <1>3, <1>4, <1>5

LEMMA EndCloses ==
  ASSUME Frames, NEW c \in Callers, Busy(c), Leave({c})
  PROVE  UnderWay' = UnderWay \ {attempt[c]}
<1>1. pc'[c] = "idle" /\ \A d \in Callers : d # c => SameFrame(d)
  BY LeaveMoves DEF Frames
<1>2. ASSUME NEW a \in UnderWay'
      PROVE  a \in UnderWay \ {attempt[c]}
  <2>1. PICK d \in Callers : pc'[d] # "idle" /\ a = attempt'[d]
    BY <1>2 DEF UnderWay
  <2>2. d # c /\ Busy(d) /\ a = attempt[d]
    BY <1>1, <2>1 DEF SameFrame, Busy
  <2> QED
    BY <2>2 DEF Frames, Overlapping, UnderWay, Busy
<1>3. ASSUME NEW a \in UnderWay, a # attempt[c]
      PROVE  a \in UnderWay'
  BY <1>1, <1>3, LeavesUnderWay
<1> QED
  BY <1>2, <1>3

LEMMA CrashCloses == ASSUME Leave(Callers) PROVE UnderWay' = {}
BY DEF Leave, UnderWay

TrailInv == IInv /\ Unrecorded

LEMMA NextUnrecorded ==
  ASSUME Frames, Unrecorded, [Next]_vars
  PROVE  Unrecorded'
<1> begun \in 0 .. MaxAttempts /\ begun \in Nat
  BY ExecutorAssumption DEF Frames, TypeOK
<1> record \in [Attempts -> {"none", "rejected", "executed"}]
  BY DEF Frames, TypeOK
<1>1. ASSUME NEW c \in Callers,
             CaptureBefore(c) \/ PerformNothing(c) \/ PerformEffect(c) \/ Rollback(c)
      PROVE  Unrecorded'
  BY <1>1, WithinCall DEF Unrecorded, Busy
<1>2. ASSUME NEW c \in Callers, NEW permitted \in BOOLEAN, NEW force \in BOOLEAN,
             Reject(c, permitted, force)
      PROVE  Unrecorded'
  <2>1. /\ begun' = begun + 1 /\ begun + 1 \in Attempts
        /\ UNCHANGED frames
        /\ \A a \in Attempts : a # begun + 1 => record'[a] = record[a]
    BY <1>2, ExecutorAssumption DEF Reject, Enter, Attempts
  <2>2. \A d \in Callers : Busy(d) => attempt[d] \in Attempts /\ attempt[d] # begun + 1
    BY BusyAttempt DEF Frames
  <2>3. \A a \in Attempts : a > begun' => a > begun /\ a # begun + 1
    BY <2>1 DEF Attempts
  <2> QED
    BY <2>1, <2>2, <2>3 DEF Unrecorded, Busy, frames
<1>3. ASSUME NEW c \in Callers, NEW permitted \in BOOLEAN, NEW force \in BOOLEAN,
             NEW k \in Kinds, Admit(c, k, permitted, force)
      PROVE  Unrecorded'
  <2>1. begun' = begun + 1 /\ begun + 1 \in Attempts /\ record' = record
    BY <1>3, ExecutorAssumption DEF Admit, Enter, Attempts
  <2>2. \A a \in Attempts : a > begun' => a > begun
    BY <2>1 DEF Attempts
  <2>3. \A d \in Callers : Busy(d)' => record'[attempt'[d]] = "none"
    <3>1. begun + 1 > begun
      OBVIOUS
    <3> QED
      BY <1>3, <2>1, <3>1, AdmitOpens DEF Unrecorded, Busy
  <2> QED
    BY <2>1, <2>2, <2>3 DEF Unrecorded
<1>4. ASSUME NEW c \in Callers, Record(c) \/ Raise(c)
      PROVE  Unrecorded'
  <2>1. Leave({c}) /\ Busy(c) /\ begun' = begun
    BY <1>4 DEF Record, Raise, Raises, Busy
  <2>2. attempt[c] \in Attempts /\ attempt[c] <= begun
    BY <2>1, BusyAttempt DEF Frames
  <2>3. \A a \in Attempts : a # attempt[c] => record'[a] = record[a]
    BY <1>4 DEF Record, Raise
  <2>4. pc'[c] = "idle" /\ \A d \in Callers : d # c => SameFrame(d)
    BY <2>1, LeaveMoves DEF Frames
  <2>5. \A d \in Callers : Busy(d) => attempt[d] \in Attempts /\ (d # c => attempt[d] # attempt[c])
    BY <2>1, BusyAttempt DEF Frames, Overlapping
  <2>6. \A a \in Attempts : a > begun' => record'[a] = "none"
    BY <2>1, <2>2, <2>3 DEF Unrecorded, Attempts
  <2>7. \A d \in Callers : Busy(d)' => record'[attempt'[d]] = "none"
    BY <2>3, <2>4, <2>5 DEF Unrecorded, Busy, SameFrame
  <2> QED
    BY <2>6, <2>7 DEF Unrecorded
<1>5. CASE Crash
  BY <1>5 DEF Crash, Leave, Unrecorded, Busy
<1>6. CASE UNCHANGED vars \/ \E m \in BOOLEAN : SetMode(m)
  BY <1>6 DEF vars, SetMode, Unrecorded, Busy, frames
<1> QED
  BY <1>1, <1>2, <1>3, <1>4, <1>5, <1>6 DEF Next, Call, Step

LEMMA TrailInvHolds == Spec => []TrailInv
<1>1. Init => Unrecorded
  BY DEF Init, Unrecorded, Busy
<1>2. IInv /\ Unrecorded /\ [Next]_vars => Unrecorded'
  BY NextUnrecorded DEF IInv
<1> QED
  BY <1>1, <1>2, IInvHolds, PTL DEF Spec, TrailInv

LEMMA TrailStep ==
  ASSUME Frames, Unrecorded, Next
  PROVE  [Trail!Next]_(Trail!trailVars)
<1> USE DEF Trail!trailVars
<1>1. ASSUME NEW c \in Callers, CaptureBefore(c) \/ PerformNothing(c) \/ Rollback(c)
      PROVE  UNCHANGED Trail!trailVars
  <2>1. effect' = effect
    BY <1>1 DEF CaptureBefore, PerformNothing, Rollback, cluster
  <2> QED
    BY <1>1, <2>1, WithinCall
<1>2. ASSUME NEW c \in Callers, PerformEffect(c)
      PROVE  Trail!Next
  <2>1. attempt[c] \in UnderWay /\ effect[attempt[c]] = "none"
    BY <1>2, BusyAttempt DEF PerformEffect, Busy, Frames, Fresh
  <2>2. \E e \in {"change", "delete"} : effect' = [effect EXCEPT ![attempt[c]] = e]
    BY <1>2 DEF PerformEffect
  <2>3. Trail!Act(attempt[c])
    BY <1>2, <2>1, <2>2, WithinCall DEF Trail!Act
  <2> QED
    BY <2>1, <2>3 DEF Trail!Next
<1>3. ASSUME NEW c \in Callers, Record(c)
      PROVE  Trail!Next
  <2>1. Busy(c) /\ attempt[c] \in UnderWay /\ record[attempt[c]] = "none"
    BY <1>3, BusyAttempt DEF Record, Busy, Frames, Unrecorded
  <2>2. UnderWay' = UnderWay \ {attempt[c]}
    BY <1>3, <2>1, EndCloses DEF Record
  <2>3. Trail!Conclude(attempt[c])
    BY <1>3, <2>1, <2>2 DEF Record, Trail!Conclude, cluster
  <2> QED
    BY <2>1, <2>3 DEF Trail!Next
<1>4. ASSUME NEW c \in Callers, Raise(c)
      PROVE  Trail!Next
  <2>1. Busy(c) /\ attempt[c] \in UnderWay
    BY <1>4, BusyAttempt DEF Raise, Raises, Busy, Frames
  <2>2. UnderWay' = UnderWay \ {attempt[c]}
    BY <1>4, <2>1, EndCloses DEF Raise
  <2>3. Trail!Lose({attempt[c]})
    BY <1>4, <2>1, <2>2 DEF Raise, Trail!Lose, cluster
  <2> QED
    BY <2>1, <2>3 DEF Trail!Next
<1>5. CASE Crash
  <2>1. Trail!Lose(UnderWay)
    BY <1>5, CrashCloses DEF Crash, Trail!Lose, cluster
  <2> QED
    BY <2>1 DEF Trail!Next
<1>6. ASSUME NEW c \in Callers, NEW permitted \in BOOLEAN, NEW force \in BOOLEAN,
             Reject(c, permitted, force)
      PROVE  Trail!Next
  <2>1. begun' = begun + 1 /\ begun' \in Attempts
    BY <1>6, ExecutorAssumption DEF Reject, Enter, Attempts, Frames, TypeOK
  <2>2. UnderWay' = UnderWay
    BY <1>6, SameUnderWay DEF Reject, frames
  <2>3. Trail!Refuse
    BY <1>6, <2>1, <2>2 DEF Reject, Trail!Refuse, Trail!HandOver, cluster
  <2> QED
    BY <2>3 DEF Trail!Next
<1>7. ASSUME NEW c \in Callers, NEW permitted \in BOOLEAN, NEW force \in BOOLEAN,
             NEW k \in Kinds, Admit(c, k, permitted, force)
      PROVE  Trail!Next
  <2>1. begun' = begun + 1 /\ begun' \in Attempts
    BY <1>7, ExecutorAssumption DEF Admit, Enter, Attempts, Frames, TypeOK
  <2>2. UnderWay' = UnderWay \cup {begun'}
    BY <1>7, <2>1, AdmitOpens
  <2>3. Trail!TakeOn
    BY <1>7, <2>1, <2>2 DEF Admit, Trail!TakeOn, Trail!HandOver, cluster
  <2> QED
    BY <2>3 DEF Trail!Next
<1>8. ASSUME NEW m \in BOOLEAN, SetMode(m)
      PROVE  UNCHANGED Trail!trailVars
  <2>1. UnderWay' = UnderWay
    BY <1>8, SameUnderWay DEF SetMode, frames
  <2> QED
    BY <1>8, <2>1 DEF SetMode, cluster
<1> QED
  BY <1>1, <1>2, <1>3, <1>4, <1>5, <1>6, <1>7, <1>8 DEF Next, Call, Step

\* The executor implements the audit trail: however calls are interleaved, cut
\* short or refused, an attempt has one effect at most, while it is open, and
\* one audit event at most, which ends it.
THEOREM Trailing == Spec => RefinesTrail
<1>1. Init => Trail!Init
  <2> SUFFICES ASSUME Init
               PROVE  Trail!Init
    OBVIOUS
  <2>1. UnderWay = {}
    BY DEF Init, UnderWay
  <2> QED
    BY <2>1 DEF Init, Trail!Init
<1>2. TrailInv /\ [Next]_vars => [Trail!Next]_(Trail!trailVars)
  <2>1. TrailInv /\ Next => [Trail!Next]_(Trail!trailVars)
    BY TrailStep DEF TrailInv, IInv
  <2>2. UNCHANGED vars => UNCHANGED Trail!trailVars
    BY DEF vars, frames, cluster, Trail!trailVars, UnderWay
  <2> QED
    BY <2>1, <2>2
<1> QED
  BY <1>1, <1>2, TrailInvHolds, PTL DEF Spec, RefinesTrail, Trail!Spec
=============================================================================
