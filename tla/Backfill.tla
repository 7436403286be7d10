------------------------------ MODULE Backfill ------------------------------
(***************************************************************************)
(* The backfill thread: once a day it takes a session and runs the miners  *)
(* on it, one after the other. The evaluations of the last days are read   *)
(* page by page, newest first, while Stargate writes new ones; nothing     *)
(* orders those of one moment. Objectives are set for the clusters; the    *)
(* destroy failures of a report are classified if none of them has been    *)
(* before. Miners swallow exceptions at several levels and nobody rolls    *)
(* back, so after a statement that fails the session refuses everything    *)
(* until the day's end closes it.                                          *)
(***************************************************************************)
EXTENDS Integers, FiniteSets, Sequences

CONSTANTS
  BatchSize,   \* batch_size
  MaxBatches,  \* max_batches
  Enough,      \* should_run: more classifications than this are enough
  Clusters,    \* cluster_name in mv_cluster_summary
  Labs,        \* top_failing_labs with destroy failures in the report
  MaxRows,     \* bound: evaluations with outcome fail
  MaxMoment,   \* bound: times that evaluated_at tells apart
  MaxDays      \* bound: days

ASSUME BackfillAssumption ==
  /\ BatchSize \in Nat \ {0} /\ MaxBatches \in Nat \ {0}
  /\ Enough \in Nat /\ MaxRows \in Nat /\ MaxDays \in Nat
  /\ MaxMoment \in Nat \ {0}
  /\ IsFiniteSet(Clusters) /\ IsFiniteSet(Labs)

Moments == 1 .. MaxMoment

VARIABLES
  \* The databases and the objectives kept in memory.
  evaluated_at, \* of each evaluation, in the order in which they are written
  total,      \* count of glx_classifications, as far as should_run tells them apart
  objective,  \* _objectives: "none", or with its audit event committed or not
  destroyed,  \* how often a lab has been classified as aap-destroy/<lab>
  \* The thread.
  pc,
  poisoned,   \* the session refuses every statement
  cutoff,     \* the moment from which on evaluations are read
  page,       \* batch_num
  todo,       \* the rows of the batch not gone through
  calibrated, \* the clusters gone through today
  labs,       \* the labs not gone through
  \* History.
  days,
  known,      \* how many evaluations there were when the day began
  mined,      \* the rows the day has gone through, each with its batch
  exhausted,  \* the day's mining ended because a page was empty
  missed      \* labs whose classification failed, or was cut off by a crash

stored == <<evaluated_at, total, objective, destroyed>>
mining == <<cutoff, page, todo, known, mined, exhausted>>
vars == <<stored, pc, poisoned, mining, calibrated, labs, days, missed>>

Init ==
  /\ evaluated_at \in UNION {[1 .. n -> Moments] : n \in 0 .. MaxRows}
  /\ total = 0
  /\ objective = [c \in Clusters |-> "none"]
  /\ destroyed = [l \in Labs |-> 0]
  /\ pc = "waiting" /\ poisoned = FALSE
  /\ cutoff = 1 /\ page = 0 /\ todo = {}
  /\ calibrated = {} /\ labs = {}
  /\ days = 0 /\ known = Len(evaluated_at)
  /\ mined = {}
  /\ exhausted = FALSE /\ missed = {}

\* Stargate writes an evaluation: of now, of a moment that others have, or late.
Arrive ==
  /\ Len(evaluated_at) < MaxRows
  /\ \E t \in Moments : evaluated_at' = Append(evaluated_at, t)
  /\ UNCHANGED <<total, objective, destroyed, pc, poisoned, mining, calibrated,
                 labs, days, missed>>

\* A row of glx_classifications is committed.
Classified == total' = IF total > Enough THEN total ELSE total + 1

(***************************************************************************)
(* EvaluationMiner.                                                        *)
(***************************************************************************)
\* The day's session and cutoff; should_run and the count of the evaluations.
\* If should_run's statement fails, the day is over before it began; if the
\* count's does, the miner returns and leaves its session to the others.
Wake ==
  /\ pc = "waiting"
  /\ days < MaxDays
  /\ days' = days + 1
  /\ cutoff' \in cutoff .. MaxMoment + 1
  /\ page' = 0 /\ todo' = {} /\ calibrated' = {}
  /\ known' = Len(evaluated_at)
  /\ mined' = {}
  /\ exhausted' = FALSE
  /\ \/ total > Enough /\ pc' = "summary" /\ UNCHANGED poisoned
     \/ total <= Enough /\ pc' = "fetch" /\ UNCHANGED poisoned
     \/ total <= Enough /\ pc' = "summary" /\ poisoned' = TRUE
     \/ UNCHANGED <<pc, poisoned>>
  /\ UNCHANGED <<stored, labs, missed>>

\* Mutant: the pages overlap.
OffsetOverlapping == page * (BatchSize - 1)

\* Mutant: the first page is left out.
OffsetAhead == (page + 1) * BatchSize

Offset == page * BatchSize

\* The evaluations after the cutoff that are of moment t or newer.
From(t) == {r \in DOMAIN evaluated_at : evaluated_at[r] >= t /\ evaluated_at[r] >= cutoff}

\* How many of n rows a LIMIT takes.
Limit(n) == IF n < 0 THEN 0 ELSE IF n > BatchSize THEN BatchSize ELSE n

\* What LIMIT and OFFSET may take. The rows of moment t or newer come first, in
\* whatever order, so a page has those of them that the offset leaves; which ones
\* of a moment on its edge is for each statement to choose anew.
Pages ==
  {rows \in SUBSET From(cutoff) :
     \A t \in Moments :
       Cardinality(rows \cap From(t)) = Limit(Cardinality(From(t)) - Offset)}

FetchPage ==
  /\ pc = "fetch" /\ page < MaxBatches
  /\ ~ poisoned
  /\ todo' \in Pages \ {{}}
  /\ pc' = "rows"
  /\ UNCHANGED <<stored, poisoned, cutoff, page, known, mined, exhausted,
                 calibrated, labs, days, missed>>

FetchNothing ==
  /\ pc = "fetch" /\ page < MaxBatches
  /\ ~ poisoned
  /\ {} \in Pages
  /\ exhausted' = TRUE
  /\ pc' = "summary"
  /\ UNCHANGED <<stored, poisoned, cutoff, page, todo, known, mined,
                 calibrated, labs, days, missed>>

\* Mutant: a batch that fails is tried again.
FetchRaisesAgain ==
  /\ pc = "fetch" /\ page < MaxBatches
  /\ poisoned' = TRUE
  /\ UNCHANGED <<stored, pc, mining, calibrated, labs, days, missed>>

\* The statement fails, now or because an earlier one did: the next batch.
FetchRaises ==
  /\ pc = "fetch" /\ page < MaxBatches
  /\ poisoned' = TRUE
  /\ page' = page + 1
  /\ UNCHANGED <<stored, pc, cutoff, todo, known, mined, exhausted, calibrated,
                 labs, days, missed>>

LastBatch ==
  /\ pc = "fetch" /\ page = MaxBatches
  /\ pc' = "summary"
  /\ UNCHANGED <<stored, poisoned, mining, calibrated, labs, days, missed>>

\* A row is classified and committed; or raises without harm to the session; or
\* its statement fails. What it raises is swallowed, and the next row follows.
MineRow ==
  /\ pc = "rows" /\ todo # {}
  /\ \E r \in todo :
       /\ \A q \in todo : evaluated_at[q] <= evaluated_at[r]
       /\ todo' = todo \ {r}
       /\ mined' = mined \cup {<<r, page>>}
  /\ \/ ~ poisoned /\ Classified /\ UNCHANGED poisoned
     \/ poisoned' \in {poisoned, TRUE} /\ UNCHANGED total
  /\ UNCHANGED <<evaluated_at, objective, destroyed, pc, cutoff, page, known,
                 exhausted, calibrated, labs, days, missed>>

\* The commit at the end of a batch, and its failure, lead to the next batch.
CommitBatch ==
  /\ pc = "rows" /\ todo = {}
  /\ page' = page + 1
  /\ pc' = "fetch"
  /\ poisoned' \in {poisoned, TRUE}
  /\ UNCHANGED <<stored, cutoff, todo, known, mined, exhausted, calibrated,
                 labs, days, missed>>

(***************************************************************************)
(* LabSummaryMiner and ClusterSummaryMiner.                                *)
(***************************************************************************)
\* The intelligence record of the labs has no reader here.
SummariseLabs ==
  /\ pc = "summary"
  /\ pc' = "clusters"
  /\ poisoned' \in {poisoned, TRUE}
  /\ UNCHANGED <<stored, mining, calibrated, labs, days, missed>>

\* set_objective assigns the objective before it stores its audit event.
SetObjective(c) ==
  /\ pc = "clusters"
  /\ ~ poisoned
  /\ c \notin calibrated
  /\ objective' = [objective EXCEPT ![c] = "unaudited"]
  /\ calibrated' = calibrated \cup {c}
  /\ pc' = "audit"
  /\ UNCHANGED <<evaluated_at, total, destroyed, poisoned, mining, labs, days, missed>>

LastSet == {c \in calibrated : objective[c] = "unaudited"}

AuditObjective ==
  /\ pc = "audit"
  /\ objective' = [c \in Clusters |->
                     IF c \in LastSet THEN "audited" ELSE objective[c]]
  /\ pc' = "clusters"
  /\ UNCHANGED <<evaluated_at, total, destroyed, poisoned, mining, calibrated, labs,
                 days, missed>>

\* Mutant: the miner goes on with the next cluster.
AuditRaisesGoesOn ==
  /\ pc = "audit"
  /\ pc' = "clusters"
  /\ UNCHANGED <<stored, poisoned, mining, calibrated, labs, days, missed>>

\* What set_objective raises ends the miner.
AuditRaises ==
  /\ pc = "audit"
  /\ poisoned' = TRUE
  /\ pc' = "reclaim"
  /\ UNCHANGED <<stored, mining, calibrated, labs, days, missed>>

\* There are no more rows, or their statement has failed.
ClustersDone ==
  /\ pc = "clusters"
  /\ pc' = "reclaim"
  /\ poisoned' \in {poisoned, TRUE}
  /\ UNCHANGED <<stored, mining, calibrated, labs, days, missed>>

(***************************************************************************)
(* ReclamationMiner and the end of the day.                                *)
(***************************************************************************)
\* Mutant: the session is kept for the next day.
CloseKeeps == UNCHANGED poisoned

Close == poisoned' = FALSE

\* Mutant: the failures are classified every day.
ShouldReclaimDaily == TRUE

\* Nothing of the report has been classified.
ShouldReclaim == \A l \in Labs : destroyed[l] = 0

\* There is nothing to do, or no report, or should_run's statement fails.
SkipReclaim ==
  /\ pc = "reclaim"
  /\ pc' = "waiting"
  /\ Close
  /\ UNCHANGED <<stored, mining, calibrated, labs, days, missed>>

StartReclaim ==
  /\ pc = "reclaim"
  /\ ~ poisoned
  /\ ShouldReclaim
  /\ labs' = Labs
  /\ missed' = {}
  /\ pc' = "destroys"
  /\ UNCHANGED <<stored, poisoned, mining, calibrated, days>>

ClassifyDestroy(l) ==
  /\ pc = "destroys"
  /\ l \in labs
  /\ ~ poisoned
  /\ destroyed' = [destroyed EXCEPT ![l] = @ + 1]
  /\ Classified
  /\ labs' = labs \ {l}
  /\ UNCHANGED <<evaluated_at, objective, pc, poisoned, mining, calibrated, days, missed>>

DestroyRaises(l) ==
  /\ pc = "destroys"
  /\ l \in labs
  /\ poisoned' \in {poisoned, TRUE}
  /\ labs' = labs \ {l}
  /\ missed' = missed \cup {l}
  /\ UNCHANGED <<stored, pc, mining, calibrated, days>>

EndDay ==
  /\ pc = "destroys" /\ labs = {}
  /\ pc' = "waiting"
  /\ Close
  /\ UNCHANGED <<stored, mining, calibrated, labs, days, missed>>

\* The process ends and starts again: what it had in memory is gone.
Crash ==
  /\ pc # "waiting" \/ \E c \in Clusters : objective[c] # "none"
  /\ pc' = "waiting" /\ poisoned' = FALSE
  /\ objective' = [c \in Clusters |-> "none"]
  /\ labs' = {} /\ missed' = missed \cup labs
  /\ calibrated' = {} /\ todo' = {} /\ exhausted' = FALSE
  /\ UNCHANGED <<evaluated_at, total, destroyed, cutoff, page, known, mined, days>>

-----------------------------------------------------------------------------
Step ==
  \/ FetchPage \/ FetchNothing \/ FetchRaises \/ LastBatch
  \/ MineRow \/ CommitBatch
  \/ SummariseLabs \/ (\E c \in Clusters : SetObjective(c))
  \/ AuditObjective \/ AuditRaises \/ ClustersDone
  \/ SkipReclaim \/ StartReclaim
  \/ (\E l \in Labs : ClassifyDestroy(l) \/ DestroyRaises(l))
  \/ EndDay

Next == Wake \/ Step \/ Arrive \/ Crash

Spec == Init /\ [][Next]_vars

\* The database answers or fails, and the pauses between batches end.
FairSpec == Spec /\ WF_vars(Step)

-----------------------------------------------------------------------------
Labels == {"waiting", "fetch", "rows", "summary", "clusters", "audit",
           "reclaim", "destroys"}

\* Every variable has its type, and a day begins with a session that works.
TypeOK ==
  /\ evaluated_at \in Seq(Moments) /\ Len(evaluated_at) <= MaxRows
  /\ total \in 0 .. Enough + 1
  /\ objective \in [Clusters -> {"none", "audited", "unaudited"}]
  /\ destroyed \in [Labs -> Nat]
  /\ pc \in Labels
  /\ poisoned \in BOOLEAN
  /\ cutoff \in 1 .. MaxMoment + 1
  /\ page \in 0 .. MaxBatches
  /\ todo \subseteq From(cutoff)
  /\ calibrated \subseteq Clusters
  /\ labs \subseteq Labs
  /\ days \in 0 .. MaxDays
  /\ known \in 0 .. Len(evaluated_at)
  /\ mined \subseteq From(cutoff) \X (0 .. MaxBatches - 1)
  /\ exhausted \in BOOLEAN
  /\ missed \subseteq Labs
  /\ pc = "waiting" => ~ poisoned

(***************************************************************************)
(* Paging by offset, while evaluations of any moment arrive and shift the  *)
(* pages, leaves out only what a tie hides: when a day's mining comes to   *)
(* an empty page it has gone through rows of each moment as often as there *)
(* were rows of that moment when it began. One that was alone in its       *)
(* moment has been gone through; where one is left out, another of its     *)
(* moment has been gone through in its place.                              *)
(***************************************************************************)
SkipsExplained ==
  exhausted =>
    \A t \in cutoff .. MaxMoment :
      Cardinality({r \in 1 .. known : evaluated_at[r] = t})
        <= Cardinality({m \in mined : evaluated_at[m[1]] = t})

(***************************************************************************)
(* The shift and the ties repeat rows, each in the place of another: from  *)
(* any moment on no more rows are gone through, the repeated ones counted, *)
(* than there are. So what the day repeats it has not found, or not yet:   *)
(* it is a row that arrived or one that a tie hides.                       *)
(***************************************************************************)
RepeatsExplained ==
  \A t \in Moments :
    Cardinality({m \in mined : evaluated_at[m[1]] >= t}) <= Cardinality(From(t))

(***************************************************************************)
(* A destroy failure is classified once, whatever fails; since one that is *)
(* classified keeps the miner from running again, those that are not are   *)
(* the ones whose classification failed or was cut off.                    *)
(***************************************************************************)
ReclaimExplained ==
  /\ \A l \in Labs : destroyed[l] <= 1
  /\ (\E l \in Labs : destroyed[l] = 1) =>
       \A l \in Labs : destroyed[l] = 1 \/ l \in missed \cup labs

(***************************************************************************)
(* An objective takes effect before its audit event is stored. A day       *)
(* leaves at most one objective without its audit event, for the failure   *)
(* to store it ends the miner.                                             *)
(***************************************************************************)
OneUnaudited == Cardinality(LastSet) <= 1

\* Whatever fails and however often, the thread comes back to its wait.
DayEnds == []<>(pc = "waiting")
=============================================================================
