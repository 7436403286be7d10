--------------------------- MODULE EventPipeline ---------------------------
(***************************************************************************)
(* The governance pipeline: threads that take one Stargate evaluation (or  *)
(* DeepField finding) through classification, hypothesis generation,       *)
(* routing, planning and auto-validation, all on one SQLAlchemy session,   *)
(* the HTTP entry that runs hypothesis generation alone, and the operator  *)
(* who judges a hypothesis by hand.                                        *)
(*                                                                         *)
(* What the model keeps is the transaction discipline. A repository call   *)
(* flushes a row into the session's open transaction (tx); only            *)
(* db.commit() makes tx visible to the other threads (db). Each engine     *)
(* commits for itself and then publishes, nobody rolls back, and nearly    *)
(* every exception is swallowed, so what one step leaves in tx is          *)
(* committed by whichever later step of the same session commits first, or *)
(* lost when the session closes. A failed flush makes SQLAlchemy refuse    *)
(* everything on the session until it is closed (poisoned).                *)
(***************************************************************************)
EXTENDS Integers, FiniteSets

CONSTANTS
  Workers,      \* Kafka consumer threads and HTTP worker threads
  Keys,         \* what the duplicate check looks at: cluster and failure_class
  Anonymous,    \* the keys whose cluster or failure_class is empty
  ClusterOf,    \* the cluster_name of every key
  NoCluster,    \* the empty cluster_name
  Constraints,  \* how many constraints apply to the evidence
  BatchMax,     \* bound: hypotheses parsed out of one LLM answer
  RuleVerdicts, \* validation_outcome as validate_hypothesis concludes
  Verdicts,     \* validation_outcome as the operator may set it
  Pending,      \* validation_outcome IS NULL
  QueueLimit,   \* pending hypotheses auto-validation looks at (20 in the code)
  MaxRuns,      \* bound: events and generation requests handled
  Unset         \* the key and the owner of a run that has not begun

ASSUME PipelineAssumption ==
  /\ Anonymous \subseteq Keys
  /\ \A k \in Keys : ClusterOf[k] = NoCluster => k \in Anonymous
  /\ RuleVerdicts \subseteq Verdicts /\ Pending \notin Verdicts
  /\ Constraints \in Nat \ {0}
  /\ BatchMax \in Nat \ {0}
  /\ QueueLimit \in Nat \ {0}
  /\ MaxRuns \in Nat \ {0}
  /\ Unset \notin Keys /\ Unset \notin Workers
  /\ IsFiniteSet(Workers)

Runs == 1 .. MaxRuns

(***************************************************************************)
(* Rows. A run writes at most one audit row per engine and, for each, the  *)
(* rows that carry its event_id as their audit_record_id.                  *)
(***************************************************************************)
AuditRow(r, e)     == [run |-> r, engine |-> e, kind |-> "audit", n |-> 0]
GatedRow(r)        == [run |-> r, engine |-> "hypothesis", kind |-> "gated", n |-> 0]
ResultRow(r, e, i) == [run |-> r, engine |-> e, kind |-> "result", n |-> i]

HypothesesOf(r, k)      == {ResultRow(r, "hypothesis", i) : i \in 1 .. k}
ClassificationsOf(r, k) == {ResultRow(r, "classification", i) : i \in 1 .. k}

ClassificationRows(r, k) == {AuditRow(r, "classification")} \cup ClassificationsOf(r, k)
EngineRows(r, e)         == {AuditRow(r, e), ResultRow(r, e, 1)}

Hypotheses == UNION {HypothesesOf(r, BatchMax) : r \in Runs}

RowsOf(r) ==
  {AuditRow(r, e) : e \in {"classification", "hypothesis", "routing", "planning"}}
    \cup {GatedRow(r)} \cup HypothesesOf(r, BatchMax)
    \cup ClassificationsOf(r, Constraints)
    \cup {ResultRow(r, e, 1) : e \in {"routing", "planning"}}

Row == UNION {RowsOf(r) : r \in Runs}

\* audit_record_id; an audit event stands for itself.
AuditOf(x) == IF x.kind = "result" THEN AuditRow(x.run, x.engine) ELSE x

NoVerdicts == [x \in Hypotheses |-> Pending]

VARIABLES
  nextRun,   \* the next run's number
  key,       \* the evidence a run is about
  owner,     \* the thread that handles a run
  batch,     \* how many hypotheses a run's answer held, once persisted
  born,      \* created_at of a run's hypotheses: their rank in creation
  unchecked, \* the runs whose duplicate check could not read the database
  db,        \* committed rows
  outcome,   \* validation_outcome of every hypothesis row
  cited,     \* audit rows whose id a finished response carried
  pc,        \* where each thread is
  run,       \* the run a thread is at
  isFailure, \* process_stargate_event's is_failure
  alone,     \* generation was requested by itself, not by an event
  tx,        \* rows flushed and not committed, by session
  ruled,     \* verdicts flushed and not committed, by session
  poisoned,  \* the session refuses to work until it is closed
  queue,     \* the pending hypotheses auto-validation has read
  reply      \* audit rows the response being built carries

history == <<nextRun, key, owner>>
answers == <<batch, born, unchecked>>
tables  == <<db, outcome>>
session == <<tx, ruled, poisoned>>
request == <<run, isFailure, alone>>
vars == <<history, answers, tables, cited, pc, request, session, queue, reply>>

-----------------------------------------------------------------------------
Init ==
  /\ nextRun = 1
  /\ key = [r \in Runs |-> Unset]
  /\ owner = [r \in Runs |-> Unset]
  /\ batch = [r \in Runs |-> 0]
  /\ born = [r \in Runs |-> 0]
  /\ unchecked = {}
  /\ db = {}
  /\ outcome = NoVerdicts
  /\ cited = {}
  /\ pc = [w \in Workers |-> "idle"]
  /\ run = [w \in Workers |-> 0]
  /\ isFailure = [w \in Workers |-> FALSE]
  /\ alone = [w \in Workers |-> FALSE]
  /\ tx = [w \in Workers |-> {}]
  /\ ruled = [w \in Workers |-> NoVerdicts]
  /\ poisoned = [w \in Workers |-> FALSE]
  /\ queue = [w \in Workers |-> {}]
  /\ reply = [w \in Workers |-> {}]

(***************************************************************************)
(* The session: flush, commit, and what a thread does next.                *)
(***************************************************************************)
Goto(w, label) == pc' = [pc EXCEPT ![w] = label]

Flush(w, rows) ==
  /\ tx' = [tx EXCEPT ![w] = @ \cup rows]
  /\ UNCHANGED <<tables, ruled, poisoned>>

CommitVerdicts(w, rows, verdicts) ==
  /\ db' = db \cup tx[w] \cup rows
  /\ outcome' = [x \in Hypotheses |->
                   IF verdicts[x] # Pending THEN verdicts[x] ELSE outcome[x]]
  /\ tx' = [tx EXCEPT ![w] = {}]
  /\ ruled' = [ruled EXCEPT ![w] = NoVerdicts]
  /\ UNCHANGED poisoned

\* db.commit() takes whatever the session has flushed, this step's or not.
Commit(w, rows) == CommitVerdicts(w, rows, ruled[w])

Working(w, label) == pc[w] = label /\ ~ poisoned[w]

(***************************************************************************)
(* Entry points.                                                           *)
(***************************************************************************)
Begin(w, k, failing, generation) ==
  /\ nextRun \in Runs
  /\ nextRun' = nextRun + 1
  /\ key' = [key EXCEPT ![nextRun] = k]
  /\ owner' = [owner EXCEPT ![nextRun] = w]
  /\ run' = [run EXCEPT ![w] = nextRun]
  /\ isFailure' = [isFailure EXCEPT ![w] = failing]
  /\ alone' = [alone EXCEPT ![w] = generation]
  /\ Goto(w, IF generation THEN "dedup" ELSE "classify")
  /\ UNCHANGED <<answers, tables, cited, session, queue, reply>>

\* POST /integration/events, and the evaluation and finding consumers.
ReceiveEvent(w, k, failing) ==
  pc[w] = "idle" /\ Begin(w, k, failing, FALSE)

\* POST /hypotheses/generate.
RequestGeneration(w, k) ==
  pc[w] = "idle" /\ Begin(w, k, TRUE, TRUE)

\* POST /integration/events/batch: the next event, on the same session.
NextInBatch(w, k, failing) ==
  pc[w] = "end" /\ ~ alone[w] /\ Begin(w, k, failing, FALSE)

(***************************************************************************)
(* classify_evidence.                                                      *)
(***************************************************************************)
AfterClassification(w) == IF isFailure[w] THEN "dedup" ELSE "queue"

\* The stage has no constraints in the database yet: they are loaded from their
\* files, and the commit of the loading takes the audit event with it.
LoadConstraints(w) ==
  /\ Working(w, "classify")
  /\ Commit(w, {AuditRow(run[w], "classification")})
  /\ UNCHANGED <<history, answers, cited, pc, request, queue, reply>>

ClassifyCommit(w) ==
  /\ Working(w, "classify")
  /\ Commit(w, ClassificationRows(run[w], Constraints))
  /\ Goto(w, "announce_classification")
  /\ UNCHANGED <<history, answers, cited, request, queue, reply>>

\* A constraint raises (text compared with a number, a breaker race): the rows
\* before it stay flushed, and process_stargate_event goes on.
ClassifyRaises(w) ==
  /\ Working(w, "classify")
  /\ \E k \in 0 .. Constraints - 1 :
       Flush(w, ClassificationRows(run[w], k))
  /\ Goto(w, AfterClassification(w))
  /\ UNCHANGED <<history, answers, cited, request, queue, reply>>

(***************************************************************************)
(* generate_hypotheses.                                                    *)
(***************************************************************************)
AfterGeneration(w) == IF alone[w] THEN "end" ELSE "route"

Named(w) == key[run[w]] \notin Anonymous

\* Mutant: the duplicate check counts pending hypotheses only.
HasRecentPending(w) ==
  \E x \in db \cap Hypotheses : key[x.run] = key[run[w]] /\ outcome[x] = Pending

\* Every behaviour of the model fits in the check's window of one hour.
HasRecentHypothesis(w) ==
  \E x \in db \cap Hypotheses : key[x.run] = key[run[w]]

SkipDuplicate(w) ==
  /\ Working(w, "dedup")
  /\ Named(w) /\ HasRecentHypothesis(w)
  /\ Goto(w, AfterGeneration(w))
  /\ UNCHANGED <<history, answers, tables, cited, request, session, queue, reply>>

\* HYPOTHESIS_ENABLED is off; POST /hypotheses/generate does not ask.
GenerationDisabled(w) ==
  /\ Working(w, "dedup")
  /\ ~ alone[w]
  /\ Goto(w, "route")
  /\ UNCHANGED <<history, answers, tables, cited, request, session, queue, reply>>

\* Mutant: the audit row carries the id of the run to come.
GeneratingAhead(w) ==
  /\ Working(w, "dedup")
  /\ Flush(w, {AuditRow(nextRun, "hypothesis")})
  /\ Goto(w, "llm")
  /\ UNCHANGED <<history, batch, born, cited, request, queue, reply>>

Generating(w) ==
  /\ Working(w, "dedup")
  /\ Flush(w, {AuditRow(run[w], "hypothesis")})
  /\ Goto(w, "llm")
  /\ UNCHANGED <<history, batch, born, cited, request, queue, reply>>

StartGeneration(w) ==
  /\ Generating(w)
  /\ ~ (Named(w) /\ HasRecentHypothesis(w))
  /\ UNCHANGED unchecked

\* No connection for the query (the pool has timed out): _has_recent_hypothesis
\* swallows it and says no, and the insert finds a connection.
StartUnchecked(w) ==
  /\ Generating(w)
  /\ Named(w)
  /\ unchecked' = unchecked \cup {run[w]}

\* The response of POST /hypotheses/generate carries the audit row's id.
Cite(w) ==
  reply' = [reply EXCEPT ![w] =
              IF alone[w] THEN {AuditRow(run[w], "hypothesis")} ELSE {}]

\* The call failed or the breaker is open: return, committing nothing.
LlmUnavailable(w) ==
  /\ Working(w, "llm")
  /\ Cite(w)
  /\ Goto(w, AfterGeneration(w))
  /\ UNCHANGED <<history, answers, tables, cited, request, session, queue>>

\* Mutant: the gated branch does not return.
LlmGatedFallsThrough(w) ==
  /\ Working(w, "llm")
  /\ Commit(w, {GatedRow(run[w])})
  /\ UNCHANGED <<history, answers, cited, pc, request, queue, reply>>

\* The answer's stability is below the threshold.
LlmGated(w) ==
  /\ Working(w, "llm")
  /\ Commit(w, {GatedRow(run[w])})
  /\ Cite(w)
  /\ Goto(w, "announce_breach")
  /\ UNCHANGED <<history, answers, cited, request, queue>>

\* Mutant: the hypotheses are published before they are committed.
LlmAnsweredUncommitted(w) ==
  /\ Working(w, "llm")
  /\ \E k \in 0 .. BatchMax :
       /\ Flush(w, HypothesesOf(run[w], k))
       /\ batch' = [batch EXCEPT ![run[w]] = k]
  /\ born' = [born EXCEPT ![run[w]] = Cardinality({r \in Runs : born[r] > 0}) + 1]
  /\ Cite(w)
  /\ Goto(w, "announce_hypotheses")
  /\ UNCHANGED <<history, unchecked, cited, request, queue>>

\* The answer is stable; it may hold nothing that parses.
LlmAnswered(w) ==
  /\ Working(w, "llm")
  /\ \E k \in 0 .. BatchMax :
       /\ Commit(w, HypothesesOf(run[w], k))
       /\ batch' = [batch EXCEPT ![run[w]] = k]
  /\ born' = [born EXCEPT ![run[w]] = Cardinality({r \in Runs : born[r] > 0}) + 1]
  /\ Cite(w)
  /\ Goto(w, "announce_hypotheses")
  /\ UNCHANGED <<history, unchecked, cited, request, queue>>

(***************************************************************************)
(* DeepfieldRouter.route and MPCController.plan, as the pipeline sees them. *)
(***************************************************************************)
RouteCommit(w) ==
  /\ Working(w, "route")
  /\ Commit(w, EngineRows(run[w], "routing"))
  /\ Goto(w, "announce_routing")
  /\ UNCHANGED <<history, answers, cited, request, queue, reply>>

\* Disabled, planned within the hour, or too little history.
PlanSkipped(w) ==
  /\ Working(w, "plan")
  /\ Goto(w, "queue")
  /\ UNCHANGED <<history, answers, tables, cited, request, session, queue, reply>>

\* optimize meets an answer that is not a list of objects.
PlanRaises(w) ==
  /\ Working(w, "plan")
  /\ Flush(w, {AuditRow(run[w], "planning")})
  /\ Goto(w, "queue")
  /\ UNCHANGED <<history, answers, cited, request, queue, reply>>

PlanCommit(w) ==
  /\ Working(w, "plan")
  /\ Commit(w, EngineRows(run[w], "planning"))
  /\ Goto(w, "announce_planning")
  /\ UNCHANGED <<history, answers, cited, request, queue, reply>>

(***************************************************************************)
(* Publishing follows the commit, and touches neither session nor tables:  *)
(* all there is to an event is that it goes out, and what it is about.     *)
(***************************************************************************)
Announcing == {"announce_classification", "announce_breach", "announce_hypotheses",
               "announce_routing", "announce_planning"}

Announced(w) ==
  LET r == run[w] IN
  CASE pc[w] = "announce_classification" -> ClassificationsOf(r, Constraints)
    [] pc[w] = "announce_breach"         -> {GatedRow(r)}
    [] pc[w] = "announce_hypotheses"     -> HypothesesOf(r, batch[r])
    [] pc[w] = "announce_routing"        -> {ResultRow(r, "routing", 1)}
    [] pc[w] = "announce_planning"       -> {ResultRow(r, "planning", 1)}

AfterAnnouncing(w) ==
  CASE pc[w] = "announce_classification" -> AfterClassification(w)
    [] pc[w] = "announce_breach"         -> AfterGeneration(w)
    [] pc[w] = "announce_hypotheses"     -> AfterGeneration(w)
    [] pc[w] = "announce_routing"        -> "plan"
    [] pc[w] = "announce_planning"       -> "queue"

\* The rows that the events going out are about.
Outgoing == UNION {Announced(w) : w \in {v \in Workers : pc[v] \in Announcing}}

Announce(w) ==
  /\ pc[w] \in Announcing
  /\ Goto(w, AfterAnnouncing(w))
  /\ UNCHANGED <<history, answers, tables, cited, request, session, queue, reply>>

(***************************************************************************)
(* _auto_validate_hypotheses, and the operator's POST /{id}/validate.      *)
(***************************************************************************)
PendingFor(w) ==
  {x \in db \cap Hypotheses : outcome[x] = Pending /\ ruled[w][x] = Pending}

Newer(x, y) ==
  \/ born[x.run] > born[y.run]
  \/ x.run = y.run /\ x.n > y.n

\* get_hypothesis_queue(limit): the newest pending rows, of every cluster.
HypothesisQueue(w) ==
  {x \in PendingFor(w) : Cardinality({y \in PendingFor(w) : Newer(y, x)}) < QueueLimit}

SameCluster(w, x) == ClusterOf[key[x.run]] = ClusterOf[key[run[w]]]

NoClusterToValidate(w) ==
  /\ Working(w, "queue")
  /\ ClusterOf[key[run[w]]] = NoCluster
  /\ Goto(w, "end")
  /\ UNCHANGED <<history, answers, tables, cited, request, session, queue, reply>>

ReadQueue(w) ==
  /\ Working(w, "queue")
  /\ ClusterOf[key[run[w]]] # NoCluster
  /\ queue' = [queue EXCEPT ![w] = {x \in HypothesisQueue(w) : SameCluster(w, x)}]
  /\ Goto(w, "verdict")
  /\ UNCHANGED <<history, answers, tables, cited, request, session, reply>>

\* A row another session has updated and not committed stays locked for it.
Locked(w, x) == \E v \in Workers \ {w} : ruled[v][x] # Pending

\* The rows are updated by id, whatever became of them since they were read;
\* an inconclusive verdict updates nothing.
Judging(w, judged, verdict) ==
  [x \in Hypotheses |-> IF x \in judged THEN verdict[x] ELSE ruled[w][x]]

AutoValidate(w) ==
  /\ Working(w, "verdict")
  /\ \E judged \in SUBSET queue[w] :
       /\ \A x \in judged : ~ Locked(w, x)
       /\ \E verdict \in [judged -> RuleVerdicts] :
            CommitVerdicts(w, {}, Judging(w, judged, verdict))
  /\ queue' = [queue EXCEPT ![w] = {}]
  /\ Goto(w, "end")
  /\ UNCHANGED <<history, answers, cited, request, reply>>

\* A condition whose field is not a name raises: the hypotheses judged before
\* it stay flushed, for the next event of a batch to commit.
AutoValidateRaises(w) ==
  /\ Working(w, "verdict")
  /\ \E judged \in SUBSET queue[w] :
       /\ judged # queue[w]
       /\ \A x \in judged : ~ Locked(w, x)
       /\ \E verdict \in [judged -> RuleVerdicts] :
            ruled' = [ruled EXCEPT ![w] = Judging(w, judged, verdict)]
  /\ queue' = [queue EXCEPT ![w] = {}]
  /\ Goto(w, "end")
  /\ UNCHANGED <<history, answers, tables, cited, request, tx, poisoned, reply>>

OperatorValidates(x, verdict) ==
  /\ x \in db \cap Hypotheses
  /\ \A w \in Workers : ruled[w][x] = Pending
  /\ outcome' = [outcome EXCEPT ![x] = verdict]
  /\ UNCHANGED <<history, answers, db, cited, pc, request, session, queue, reply>>

(***************************************************************************)
(* Failures, the end of a request, and a crash of the process.             *)
(***************************************************************************)
DbSteps == {"classify", "dedup", "llm", "route", "plan", "queue", "verdict"}

\* Mutant: an exception handler rolls back and the step goes on.
DbFailureRollsBack(w) ==
  /\ pc[w] \in DbSteps
  /\ tx' = [tx EXCEPT ![w] = {}]
  /\ ruled' = [ruled EXCEPT ![w] = NoVerdicts]
  /\ UNCHANGED <<history, answers, tables, cited, pc, request, poisoned, queue, reply>>

\* Mutant: an exception handler tries the same step again.
DbFailureRetries(w) ==
  /\ pc[w] \in DbSteps
  /\ tx' = [tx EXCEPT ![w] = {}]
  /\ ruled' = [ruled EXCEPT ![w] = NoVerdicts]
  /\ poisoned' = [poisoned EXCEPT ![w] = TRUE]
  /\ UNCHANGED <<history, answers, tables, cited, pc, request, queue, reply>>

\* A statement fails: the transaction is rolled back, every later step of the
\* event is refused by the session, and each refusal is swallowed. An event
\* that begins on a poisoned session (in a batch) fails in the same way.
DbFailure(w) ==
  /\ pc[w] \in DbSteps
  /\ tx' = [tx EXCEPT ![w] = {}]
  /\ ruled' = [ruled EXCEPT ![w] = NoVerdicts]
  /\ poisoned' = [poisoned EXCEPT ![w] = TRUE]
  /\ queue' = [queue EXCEPT ![w] = {}]
  /\ Goto(w, "end")
  /\ UNCHANGED <<history, answers, tables, cited, request, reply>>

\* The response goes out and get_db (or the consumer) closes the session.
Finish(w) ==
  /\ pc[w] = "end"
  /\ cited' = cited \cup reply[w]
  /\ reply' = [reply EXCEPT ![w] = {}]
  /\ tx' = [tx EXCEPT ![w] = {}]
  /\ ruled' = [ruled EXCEPT ![w] = NoVerdicts]
  /\ poisoned' = [poisoned EXCEPT ![w] = FALSE]
  /\ run' = [run EXCEPT ![w] = 0]
  /\ isFailure' = [isFailure EXCEPT ![w] = FALSE]
  /\ alone' = [alone EXCEPT ![w] = FALSE]
  /\ Goto(w, "idle")
  /\ UNCHANGED <<history, answers, tables, queue>>

Crash ==
  /\ pc' = [w \in Workers |-> "idle"]
  /\ run' = [w \in Workers |-> 0]
  /\ isFailure' = [w \in Workers |-> FALSE]
  /\ alone' = [w \in Workers |-> FALSE]
  /\ tx' = [w \in Workers |-> {}]
  /\ ruled' = [w \in Workers |-> NoVerdicts]
  /\ poisoned' = [w \in Workers |-> FALSE]
  /\ queue' = [w \in Workers |-> {}]
  /\ reply' = [w \in Workers |-> {}]
  /\ UNCHANGED <<history, answers, tables, cited>>

-----------------------------------------------------------------------------
\* What a thread does on its own, once a request has reached it.
Step(w) ==
  \/ LoadConstraints(w) \/ ClassifyCommit(w) \/ ClassifyRaises(w)
  \/ SkipDuplicate(w) \/ GenerationDisabled(w) \/ StartGeneration(w) \/ StartUnchecked(w)
  \/ LlmUnavailable(w) \/ LlmGated(w) \/ LlmAnswered(w)
  \/ RouteCommit(w)
  \/ PlanSkipped(w) \/ PlanRaises(w) \/ PlanCommit(w)
  \/ Announce(w)
  \/ NoClusterToValidate(w) \/ ReadQueue(w) \/ AutoValidate(w) \/ AutoValidateRaises(w)
  \/ DbFailure(w) \/ Finish(w)

Arrival(w, k) ==
  \/ \E failing \in BOOLEAN : ReceiveEvent(w, k, failing) \/ NextInBatch(w, k, failing)
  \/ RequestGeneration(w, k)

Operator == \E x \in Hypotheses, verdict \in Verdicts : OperatorValidates(x, verdict)

Next ==
  \/ \E w \in Workers : Step(w)
  \/ \E w \in Workers, k \in Keys : Arrival(w, k)
  \/ Operator
  \/ Crash

Spec == Init /\ [][Next]_vars

\* A thread that has work goes on with it: the LLM and the database answer or
\* fail, and either way the call returns.
FairSpec == Spec /\ \A w \in Workers : WF_vars(Step(w))

-----------------------------------------------------------------------------
Labels == {"idle", "end"} \cup DbSteps \cup Announcing

\* Every variable has its type; rows are rows some engine writes, and what is
\* judged by auto-validation are hypotheses.
TypeOK ==
  /\ nextRun \in 1 .. MaxRuns + 1
  /\ key \in [Runs -> Keys \cup {Unset}]
  /\ owner \in [Runs -> Workers \cup {Unset}]
  /\ batch \in [Runs -> 0 .. BatchMax]
  /\ born \in [Runs -> Nat]
  /\ unchecked \subseteq Runs
  /\ db \subseteq Row /\ cited \subseteq Row
  /\ outcome \in [Hypotheses -> {Pending} \cup Verdicts]
  /\ pc \in [Workers -> Labels]
  /\ run \in [Workers -> Runs \cup {0}]
  /\ isFailure \in [Workers -> BOOLEAN] /\ alone \in [Workers -> BOOLEAN]
  /\ tx \in [Workers -> SUBSET Row] /\ reply \in [Workers -> SUBSET Row]
  /\ ruled \in [Workers -> [Hypotheses -> {Pending} \cup RuleVerdicts]]
  /\ poisoned \in [Workers -> BOOLEAN]
  /\ queue \in [Workers -> SUBSET Hypotheses]

(***************************************************************************)
(* Whatever the threads swallow, leave flushed, commit for one another or  *)
(* lose, the tables keep the promises of module Ledger: no row without its *)
(* audit event, no half of an answer, no event about an invisible row, no  *)
(* verdict taken back.                                                     *)
(***************************************************************************)
GovernanceLedger ==
  INSTANCE Ledger WITH
    answer <- [x \in Hypotheses |-> HypothesesOf(x.run, batch[x.run])],
    published <- Outgoing

RefinesLedger == GovernanceLedger!Spec

(***************************************************************************)
(* The check-then-act of generate_hypotheses lets two threads duplicate    *)
(* one another's hypotheses, but a thread never duplicates its own, unless *)
(* its check could not read the database: so within the window at most one *)
(* answer per thread concerns the same cluster and failure class.          *)
(***************************************************************************)
HasAnswer(r) == db \cap HypothesesOf(r, BatchMax) # {}

NoSelfDuplicate ==
  \A r, s \in Runs \ unchecked :
    r # s /\ HasAnswer(r) /\ HasAnswer(s) /\ key[r] = key[s] /\ key[r] \notin Anonymous
      => owner[r] # owner[s]

\* A generation recorded as suspended for instability leaves no hypothesis,
\* whatever else its session commits later.
GateExcludes == \A r \in Runs : GatedRow(r) \in db => ~ HasAnswer(r)

\* A thread gets back to its topic or socket with nothing left in its session,
\* whatever fails on the way.
EventsEnd ==
  \A w \in Workers :
    pc[w] # "idle" ~>
      pc[w] = "idle" /\ tx[w] = {} /\ ruled[w] = NoVerdicts /\ ~ poisoned[w]

\* PERSISTENCE.md 3.1: every significant operation leaves its audit event. A
\* response that carries an audit_record_id names a row that exists.
CitedAuditsExist == cited \subseteq db
=============================================================================
