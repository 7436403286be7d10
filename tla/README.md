# A verification of GeoLux in TLA+

GeoLux governs what an LLM says about clusters: Stargate evaluations and
DeepField findings come in, are classified against constraints, have an LLM
generate hypotheses about their failures, are routed, planned for and used to
judge earlier hypotheses, and everything leaves audit events in PostgreSQL and
events on Kafka. The program is Python: FastAPI handlers on a thread pool, one
daemon thread per consumed topic, some timer loops; synchronous SQLAlchemy
sessions; a circuit breaker, caches and limits in module-level objects without
locks.

What is verified here is the part where those threads, transactions and failures
meet. The modules are translated from the code under `src/`; paths below are
relative to it. `PROJECT.json` maps every definition to the lines it stands for.

## 1. The system

### 1.1 Components

| component | state | operations | correct when |
|---|---|---|---|
| LLM circuit breaker (`api/stability/wrapper.py`) | `_failures`, `_opened_at`; one object per process, no lock | `is_open` (closes itself when the cooldown is over), `record_success`, `record_failure` | opens when the threshold is reached, bounds the failures of an outage, lets a call through again |
| stability-aware LLM client (`api/stability/wrapper.py`, `measure.py`) | none of its own; writes stability records | `call`: breaker, completion, samples, score, record | always returns its dict; a failure to store the record does not reach the caller |
| event pipeline (`api/routers/integration.py`) | a session per request, `_mpc_last_planned` | `receive_event`, `receive_events_batch`, `process_stargate_event`, `_auto_validate_hypotheses` | what it commits is whole and audited whatever fails in between; it ends with a clean session |
| hypothesis engine (`engine/hypothesis.py`) | rows of `glx_hypotheses` | generate (duplicate check, LLM, gate, store, publish), validate, manual verdict | no repetition, gated generations leave nothing, verdicts are not taken back |
| classification engine (`engine/classification.py`, `constraints/loader.py`) | rows of `glx_classifications`, constraints | classify, load constraints | a result for every constraint, or none visible; the overall result follows the constraints |
| governance ledger (`db/`) | all tables | insert + flush, commit, close | references resolve, answers are whole |
| MPC controller (`engine/mpc.py`) | `_consecutive_instabilities`, rows of `glx_mpc_cycles` | activation gate, predict, optimise, adjust horizon, suspend | suspends after three instabilities; the pipeline plans a cluster about hourly |
| DeepField router (`engine/deepfield.py`) | rows of `glx_deepfield_routing` | route by the LLM, by override, by fallback | every decision names a healthy target and its reason |
| publishers (`events/publishers.py`) | the producer's buffer | publish per engine | an event is about rows that exist |
| Kafka consumers (`events/consumers.py`) | `_running`, one consumer per topic, one group for all | start, consume, stop | what it loses or repeats has a reason, and the thread goes on after a bad message |
| replay engine (`engine/replay.py`) | archive, offset, results, `_running`, `_paused` | load, start, pause, resume, stop | each row is emitted once, in order, and pause stops it |
| action executor (`engine/action_executor.py`, `k8s_client.py`) | the cluster, through `oc`; audit events | `execute`: gates, capture, action, rollback, capture, record | no effect without its record; a rollback reverses nothing but its own attempt's time |
| backfill (`api/app.py`, `engine/miners.py`, `reclamation_miner.py`) | one thread, a session a day | evaluations page by page, labs, clusters, destroy failures | leaves out and repeats only what ties and arrivals account for, comes to its end whatever fails |
| objectives (`engine/objectives.py`) | `_objectives`, audit events | `set_objective` | an objective in force has its audit event |
| enrichment (`engine/evidence_enricher.py`) | the evidence of an event, in place | count the other systems' audit events | takes no verdict back |
| runtime settings (`api/routers/_shared.py`, `stability.py`, `health.py`) | mode, `STABILITY_THRESHOLD`, the table made of it at import | the operator's switches | what is decided by a setting agrees about it |
| NanoObs, retention, launchpad, event bus, metrics, views, frontend | see `PROJECT.json` and section 6 | | |

### 1.2 Interactions

`receive_event` runs `process_stargate_event` on the request's session, which
calls in order `classify_evidence`, then for a failure `generate_hypotheses`,
`DeepfieldRouter.route` and `MPCController.plan`, then
`_auto_validate_hypotheses`. All engines share the session. Each commits for
itself and publishes to Kafka after its commit; nearly every exception is caught
and logged by the pipeline, and nobody rolls back. So what an engine leaves
flushed is committed by a later one, or lost when the session closes; and after a
failed statement the session refuses everything until it is closed. The consumers
do the same with a session per message, the batch endpoint with a session per
batch. Every LLM call goes through the one breaker. The operator judges hypotheses
by hand on another session. Two topics feed the pipeline, so two consumer threads
and any number of HTTP threads are in it at once.

The backfill thread is a further client of the database: it classifies what
Stargate has written and sets objectives, on a session of its own for the day.
The operator's switches (mode, threshold) are module-level values that the engines
read when they come to it. The action executor is the only part that acts on a
cluster; nothing in production hands it the actions that the MPC controller
recommends, and section 3.1 says what would become of them.

### 1.3 What is hard

* commits that take rows of another step with them, and rows left behind by a
  step that failed halfway or returned early;
* check-then-act around LLM calls that take seconds (duplicates) and on
  module-level dictionaries (planning limit);
* reads that are stale when used: the breaker's two reads of `_opened_at`, the
  hypotheses judged by id after they were read as pending;
* counters kept in objects that live for one request (suspension);
* failure of one step of several, a poisoned session, a crash between a commit and
  its event, a restart that forgets the limits.

`hazards` in `PROJECT.json` has the list with lines, the properties that cover
each one, and why some are not covered yet.

## 2. The modules

| module | role |
|---|---|
| `CircuitBreaker`, `MCCircuitBreaker`, `CircuitBreaker_proofs` | the breaker and the call that drives it, by any number of threads |
| `Ledger` | the abstract specification of the database and the topics: what their readers may rely on |
| `EventPipeline`, `MCEventPipeline`, `EventPipeline_proofs` | the pipeline, the transactions of its engines, the operator, failures and crashes; implements `Ledger` |
| `MPCController`, `MCMPCController`, `MPCController_proofs` | the hourly limit, the activation gate, the cycle and its suspension |
| `ReplayEngine`, `MCReplayEngine`, `ReplayEngine_proofs` | the replay threads and the callers that pause, resume, stop and start |
| `AuditTrail` | the abstract specification of `execute`: what a reader of the audit events may conclude from them |
| `ActionExecutor`, `MCActionExecutor`, `ActionExecutor_proofs` | attempts to act on a cluster, by any number of callers, with a failing `oc`, crashes and switches of the mode; implements `AuditTrail` |
| `Backfill`, `MCBackfill`, `Backfill_proofs` | the days of the backfill thread, the rows that arrive meanwhile, the objectives |
| `Measure`, `Decisions`, `Evidence` | pure operators: the stability score; tier, horizon and action; verdicts on constraints and hypotheses, and what an answer parses to |
| `Judgement`, `MCJudgement`, `Judgement_proofs` | what these make of one event, from its criteria to its plan |
| `KafkaConsumers`, `MCKafkaConsumers`, `KafkaConsumers_proofs` | a topic's polling thread, its offsets, and a process that is stopped, killed and started |

### 2.1 CircuitBreaker

A thread is at `idle`, `expiry` (has read `_opened_at` and the clock), `llm`
(in the completion), `report` (has recorded its success, still inside the try),
`stamp` (has counted a failure that reaches the threshold, has read the clock,
has not assigned `_opened_at`) or `raised`. These are the points where CPython
can switch threads with consequences: `record_success` is two assignments with no
call between them and is one step, `record_failure` calls `time()` between its
two and is `Fail` and `Stamp`, `is_open` reads `_opened_at` twice around
`time()` and is `AttemptOpen` followed by `Refuse`, `Expire` or `CheckRaises`.

Time is kept as ages (of the stamp, and of a switched-out thread's clock reading),
so no clock bounds the behaviours. `Lag` says how many ticks a thread may stay
switched out with a clock reading in hand; an age beyond `Cooldown + Lag + 1`
says nothing new and stays.

Left out: `reset`, called by tests only. What the answer's score is, is in
`Measure`.

### 2.2 Ledger and EventPipeline

`Ledger` has one action, `Commit`, and one promise about publishing. It
says: rows are only added; a committed row's `audit_record_id` is a committed
audit event; the hypotheses of one answer appear together; a verdict is given to a
visible hypothesis and never goes back to pending; an event is about visible rows.

`EventPipeline` has per thread a session (`tx` flushed rows, `ruled` flushed
verdicts, `poisoned`) and in common the tables (`db`, `outcome`). A *run* is one
event or one generation request; a row is identified by the run, the engine and a
number, so what a row says is abstracted away and who wrote it is not.

| code | actions |
|---|---|
| `receive_event`, consumers | `ReceiveEvent`, `Finish` |
| `POST /hypotheses/generate` | `RequestGeneration`, `Finish` |
| `receive_events_batch` | `NextInBatch` |
| `classify_evidence`, `sync_constraints_to_db` | `LoadConstraints`, `ClassifyCommit`, `ClassifyRaises` |
| `generate_hypotheses` | `SkipDuplicate`, `GenerationDisabled`, `StartGeneration`, `StartUnchecked`, `LlmUnavailable`, `LlmGated`, `LlmAnswered` |
| `DeepfieldRouter.route` | `RouteCommit` |
| planning as the pipeline sees it | `PlanSkipped`, `PlanRaises`, `PlanCommit` |
| `publish_*` | `Announce` |
| `_auto_validate_hypotheses` | `NoClusterToValidate`, `ReadQueue`, `AutoValidate`, `AutoValidateRaises` |
| `POST /hypotheses/{id}/validate` | `OperatorValidates` |
| a failing statement; the process dies | `DbFailure`; `Crash` |

An action is one transaction's worth of calls: several inserts and the commit that
follows them are one step, since nothing they do is visible to another session
before the commit. The read of the queue and its update are two steps, as is the
duplicate check and the insert of the answer, since other sessions commit in
between. PostgreSQL's lock on an updated row is `Locked`.

Abstractions: the duplicate check's window of one hour is as long as the whole
behaviour; which conditions hold of the evidence, and so which hypotheses get which
verdict, is a choice (`RuleVerdicts`); whether an answer is stable is a
choice; stability records are not rows of the model (they have no reader among
the properties), but the failure of their flush is `DbFailure` at `llm`;
the further audit event of a suspended cycle goes with the event of its planning.
What these choices depend on is `Judgement`'s subject: the one module has the
transactions, the other the values.

### 2.3 MPCController

`EventArrives` to `Stamp` are `_should_plan_mpc`: read the clock, read the
dictionary, write it, with other threads in between. `GateClosed`/`GateOpen` are
the activation gate, asked once by the pipeline and again by `plan`;
`RequestPlan` is `POST /mpc/plan`, which has no limit. `Predict` to the record
are one cycle on a controller that is made for the request, so `instabilities` is
per thread and is cleared when the thread leaves. `streak` is the number of unstable
cycles a cluster has had in a row, what the documents count. `Restart` clears
memory. Which scores and horizons come out of a cycle is in `Decisions`.

### 2.4 ReplayEngine

One thread per `start`, all of one engine looking at the same `_running` and
`_paused`. A thread looks at both at `top` and `held` (the wait while paused), and has a
wait of its own at its pause point; between its last look and the next it sleeps,
appends its result and publishes (`emit`). `halted` and `late` are history
variables: whether an order to pause or stop is in force and who has emitted since.
The contents of `_results` and the recording of archives are left out. The endpoints
make an engine per request: `RequestStart` starts a fresh one, in any mode (that the
endpoint refuses in all modes but `replay`, scenarios.py:55, is left out, which allows
more starts and no fewer); `POST /replay/pause` pauses one that nobody else holds, which changes no replay and so is
no step.

### 2.5 KafkaConsumers

Each topic has a thread and a consumer. They share `_running`, which is set once and
cleared once in a process, and the consumer group (one `group.id`, consumers.py:77), so
that a consumer which joins or leaves has the partitions of all topics assigned anew. One
topic is modelled, with one partition, and `Rebalance` is what the others do to it. The thread is at `subscribing`, `polling`, `handling` (what the handler
does is `EventPipeline`) or `dead`. That the handler raised, or that the text was
no JSON, is caught around it and changes nothing here, so each of these is
`Handled`; a value that cannot be decoded is `PollGarbled` and ends the thread.
`Start` and `Stop` are the application's startup and shutdown with the manager's
methods; `End` may follow a `Stop` or not, and is a kill if not.

The broker's log and the client library are external, modelled as the code
configures them: handing a message out stores the offset after it (`HandOut`), a
timer commits what is stored (`AutoCommit`), so does closing, and a group without a
commit starts at the end of the log. A rebalance commits what is stored when the partition
is revoked, and sets the position anew when it is assigned: to the committed offset,
or to the log's end as long as there is none, so that what was published since the last
assignment is passed over. `Rebalance` may come at any time while the consumer is open, which
includes the polls at which the library serves it. `passed`, `interrupted` and `unrecorded` are
history variables: the messages that are lost or repeated, by reason. Left out:
several replicas, a handler that is slower than the
library's poll interval, a commit that fails, a broker that is away for longer than the
session timeout, and a start after a stop in one
process, which no code does.

### 2.6 AuditTrail and ActionExecutor

A caller is at `capturing` (the gates have let it in), `executing` (the namespace is
captured, as far as it answered), `failed` (there is something to write back) or
`done`. `Reject` and `Admit` are the gates, of which only the mode can change between
two calls; `CaptureBefore`, `PerformNothing`, `PerformEffect`, `Rollback` and
`Record` are the calls of `execute` in their order, `Raise` its exceptions, and
`SetMode` and `Crash` come in between. `oc` and the cluster are external: a
call that is given up may have had its effect, so success and effect are chosen
apart. An attempt's change is a change of its own, identified with the attempt;
capturing is remembering which changes are in force, writing back is putting those
and no others in force, of any part of the deployments if `oc` fails halfway. The
event published after the commit has no reader and is left out. History: what was
attempted, had an effect, succeeded, wrote back, was cut short and overlapped.

`AuditTrail` knows attempts and nothing of gates, captures, rollbacks or callers. It says:
an action is refused at once and never acts, or is taken on; what is taken on acts once at
most and before its audit event; the audit event ends it and is not replaced; and an attempt
that ends without one is lost, and does nothing later. `ActionExecutor` maps
to it with what its callers have under way as the open attempts and what was cut short as the
lost ones.

### 2.7 Backfill

One day goes from `fetch` and `rows` (`EvaluationMiner`) through `summary`,
`clusters` and `audit` (`ClusterSummaryMiner` with `set_objective`) to `reclaim` and
`destroys` (`ReclamationMiner`), all on one session, and back to `waiting`, where it
is closed. An evaluation is known by its place in the order of writing, and has a moment,
`evaluated_at`; several may have the same, and `Arrive` adds one of any moment at any time (Stargate
writes the table, and nothing says that it writes in order). A page is LIMIT and OFFSET over
`ORDER BY evaluated_at DESC` (miners.py:73), which does not order rows of one moment:
`Pages` has every page that some order of the ties gives, and each statement chooses
among them anew. `cutoff` is the moment the day reads from. A statement
that fails sets `poisoned`; from then on what follows fails too, is swallowed at
its level and leads on, as the code has it. `Crash` forgets the objectives, which are in
memory. `total` and `destroyed` are the counts that the miners' `should_run` ask for.

### 2.8 Measure, Decisions, Evidence and Judgement

`Measure` is the stability score of an answer by the only method that any caller asks
for, the mean of its tokens' best logprobs, and its four states. `Decisions` is `RuleBasedClassify`, `ClassifyWorkload`,
`ApplyFallback` and `Route` (the router), `AdjustHorizon`, `Candidate` and `Selected`
(the planner) and `Execution` (what the executor makes of an action). `Evidence` is
the evaluation of constraints and of testable conditions and the parsing of an
answer. These have no state: `Judgement` uses them in the order in which the
pipeline does, on one event. `Criterion` completes the evidence,
`Classify` judges it, `Skip`, `StartGeneration` and `Generate` or
`GenerateUnanswered` are the generation with its enrichment, its gate and its answer,
`RouteWorkload` and `Plan` the rest; `SetThreshold` is the operator. The
engines' HTTP endpoints take arguments that the pipeline does not (an override, a
horizon, an objective), and the actions take those too.

`Generate` has an answer with a form and items. What `_parse_hypotheses` catches leaves no
hypotheses; what it does not, `_call_llm_for_hypotheses` catches and reports as an LLM that is
not there (hypothesis.py:223): a content of None, `"hypotheses"` that cannot be gone
through, and a confidence that `float` refuses with another exception than ValueError (null, a
list, an object, an integer too large), if no word that is no number comes before it.
`ParseRaises` is that, and `parsed` is then `Unavailable`. `Execution` goes as far as the
rollback: an action that fails in a namespace that was captured has the captured deployments
written back (action_executor.py:80).

Abstractions: a value is a number of a few or one of a few texts; which text
contains or matches which is a constant (`Found`); scores and thresholds are
ten-thousandths, since the code rounds scores to four decimals, and logprobs are multiples
of a 2000th, which is one of the score, so that the arithmetic is on integers: a mean is
rounded as the code does it, a half upwards where Python takes what binary floating point
makes of it; a workload is its four features.
A boolean is 0 or 1, as Python compares it. The exception that evaluating a constraint
may raise is a value, `"raises"`, and what catches it is modelled (`Classification`
leaves no result, `CheckCondition` says inconclusive).

## 3. What is checked

All runs use `-workers 2` and end within five minutes.

| run | shows | instance |
|---|---|---|
| `breaker` | `OpensWhenDue`, `OutageContained`, `Recovers` | 3 threads, threshold 2, cooldown 1, lag 1 |
| `breaker_raises` | *violated*: a call may raise out of `is_open` | the same |
| `pipeline` | `NoSelfDuplicate`, `GateExcludes`, `RefinesLedger` | 2 threads, 2 runs, 1 key, 2 constraints, one hypothesis per answer |
| `pipeline_session` | `RefinesLedger`, `EventsEnd` on a session several events share | 1 thread, 2 runs, 2 keys of which one names no cluster, two hypotheses per answer |
| `pipeline_audit` | *violated*: every audit id a response carries exists | 1 thread |
| `mpc` | `PlanningsSpaced` | 2 threads, 1 cluster, cooldown 4, lag 1, threshold 2 |
| `mpc_suspension` | *violated*: the third unstable cycle in a row is suspended | 1 thread, threshold 3 as in the code |
| `replay` | `HaltHolds`, `Settles` | 1 engine, 3 starts, 3 events, a pause point in the middle or none |
| `consumers` | `LossExplained`, `RepeatExplained`, `Delivered` | 4 messages, 3 ends of the process |
| `executor` | `EffectsRecorded`, `Standing`, `SwitchHolds`, `RefinesTrail` | 2 callers, symmetric, 2 attempts |
| `backfill` | `SkipsExplained`, `RepeatsExplained`, `ReclaimExplained`, `OneUnaudited`, `DayEnds` | 3 evaluations of 2 moments, pages of 2, 3 pages, 2 days, 2 clusters, 2 labs |
| `judgement` | `PassEarned`, `ValidatedIsPass`, `GateAgrees`, `ParseExplained`, `RouteExplained`, `PlanExplained`, `RecommendationsNotTaken`, `ResultStands`, `VerdictStands` | 4 fields, 3 stages, 9 hypotheses, answers of up to 3 tokens and 2 items |

**Properties.** `OpensWhenDue`: a breaker whose count has reached the threshold is
open or about to be stamped. `OutageContained`: the failures counted stay below
the threshold plus the number of threads, though threads count, clear and stamp
without a lock. `Recovers`: again and again the breaker is closed or its cooldown
is over. `NoSelfDuplicate`: the duplicate check does not keep two threads from
generating for the same failure, but keeps a thread from repeating itself,
unless the check could not read the database. `GateExcludes`: a generation recorded as suspended has no
hypotheses, whatever is committed later. `RefinesLedger`: section 2.2.
`EventsEnd`: a thread returns to its topic or socket with nothing left in its
session. `PlanningsSpaced`: the hourly limit is not one planning an hour (two
threads may both pass it, and the slower stores the older time), but the plannings
of one thread are a cooldown apart, less the lag. `HaltHolds`: once a pause or stop has
returned, each thread of the engine emits at most the event it was at. `Settles`: again and
again the threads of an engine have all ended, or it is running and paused. `LossExplained`: auto-commit is not at-least-once, but what
the group is past without having been handled is the message that was in the handler
when a process ended (one for each end), what was there or came before the group's first
commit, when its partition was assigned, or not UTF-8. `RepeatExplained`: a message is handled again only if a kill came between its handler
and its commit, never after an orderly shutdown. `Delivered`: a bad message does not
hold up those behind it while the thread lives.

`EffectsRecorded`: the record of an execution is committed after its effect, with
calls in between that may raise; an effect without a record is one whose process ended, whose
database failed or whose second capture was given up, and no other. `Standing`: a rollback
writes all deployments of the namespace, and still it is only an attempt that overlaps
with it whose change it can undo or revive. `SwitchHolds`: the mode is asked once, so after a
switch away from live a caller finishes the action it is at, and that is all.
`RefinesTrail`: whatever else goes on, the trail is one that section 2.6 describes; a refused
action that fell through its gate, or a second record, would not be.

`SkipsExplained`: pages shift while rows arrive, and rows of one `evaluated_at` may change
places between two statements, so a row can be left out although nothing failed and nothing
arrived. But a day that comes to an empty page has gone through rows of each moment as often as
there were rows of it when the day began: a row that shares its moment with no other is not left
out. `RepeatsExplained`: from any moment on, no more rows are gone through, repeated ones
counted, than there are, so a row is repeated in the place of one that arrived or that a
tie hides. `ReclaimExplained`: one
classified destroy failure keeps the miner from running again, so a failure that was
never classified raised, or was cut off by a crash, on the one day it ran; none is classified
twice. `OneUnaudited`: an objective is in force before its audit event is stored; a
day leaves one such objective at most. `DayEnds`: on a session that refuses everything
the thread still comes to the end of its day.

`PassEarned`: nothing passes by default, except a stage without constraints.
`ResultStands` and `VerdictStands`: further evidence (a late criterion, the enrichment
that writes into the event's own evidence) takes no result and no verdict back; a composite
counts a missing field as failed, so it needs to require the fields it reads.
`ValidatedIsPass`: thresholds are evaluated twice in the code, with different ideas of a
missing field and of a text, and agree where both can. `GateAgrees`: gate and recorded state
come from two thresholds, of which one can change at run time; they disagree about an
answer only where these differ. `ParseExplained`: an answer is taken whole or not at
all, and which of its flaws make it an answer without hypotheses and which an LLM that is not there. `RouteExplained`: no available substrate, no routing, unless by override; and a
tier lower than the chosen one is nano, with nothing at or above the chosen one available.
`PlanExplained`: the horizon is the one asked for or one less. `RecommendationsNotTaken`:
section 3.1.

**Bounds and why they are enough.** The breaker compares with its threshold and its
cooldown only, so 2 and 1 distinguish below, at and above; three threads allow a
straggler that fails late, one that stamps and one that is checking for expiry;
the count itself is not bounded. In the pipeline a violation needs two answers for
the same key (two runs), two sessions that see each other's commits (two
threads, symmetric, and no property under symmetry is a liveness property), a
constraint that fails after another has been stored (`Constraints` 2) and a
hypothesis beyond the queue (`QueueLimit` 1 with two hypotheses). What one session
carries from an event to the next needs only one thread but answers of two hypotheses
(half an answer, part of a queue judged), and is `pipeline_session`. `MinRecords` is 10
in the code; what matters is below or not, so it is 1. Engines of replays share nothing, so one is enough; three starts make three
threads that share its attributes. A consumer's three ends make a
loss, a repetition and a start after both; four messages are one for each of these
and one that ends the thread. Two attempts at
an action can follow each other or overlap, and every property of the executor is about
one attempt or a pair; a third is beyond TLC's five minutes. Three evaluations
fill a page and a half, so a day can end on an empty page or the last allowed one, an arrival
moves a row across the edge of a page, and of two moments two rows at least tie, across that
edge or within a page; four rows of three moments (without clusters and labs) have
been checked too. The second day finds what the first has left. `judgement` has a constraint of every type, with and
without its required fields, and a value below, at and above every comparison; thresholds on
both sides of the table's; every combination of available substrates; two items, so that the
first that cannot be read has something before or after it. Its VIEW leaves out only what no
later step and no property of the state depends on (the evidence while routing, the
answer while planning). The proofs of section 4 are
for all values of these.

**Deadlock** is not checked on the pipeline's runs and on `consumers`, `executor` and
`backfill`, since the bounds on requests (`MaxRuns`), messages, ends, attempts and days let the
system stop, and on `judgement`, where an event is done with at some time; it is checked on
all others.

**Fairness.** Weak fairness on what a thread inside a call does next
(`Continue`, `Step`), since sleeps end, litellm has a timeout and the database answers or
fails, the pauses between batches end (`Backfill`), and on the passing of time. Nobody has to send an event, no event of a
failure or crash is forced, and no choice among outcomes is fair.

### 3.1 Where the code and its documents disagree

* `breaker_raises` — `is_open` (wrapper.py:62, 65) reads `_opened_at`, then `time()`,
  then `_opened_at` again. A success or an expiry in another thread in between sets
  it to `None`, the subtraction raises, and `call` evaluates `is_open` outside its
  `try`. The docstring says `call` returns a dict. The window is small, and the
  callers of `call` catch what they get but one: a generation reports an LLM that is not
  there (hypothesis.py:223). The evaluation of a semantic constraint catches only
  `ImportError` (classification.py:318), so that `POST /classify` answers 500; in the
  pipeline the event is left without a classification.
* `pipeline_audit` — when the LLM is unavailable `generate_hypotheses` returns without
  committing the started event; in the pipeline a later engine's commit saves
  it, on the endpoint nothing does, and the response names an audit event that
  is gone. PERSISTENCE.md says every significant operation leaves its events.
* `mpc_suspension` — the counter of consecutive instabilities is an attribute of an
  object that plans once, so suspension after three never happens.

Met while modelling, without a run of their own:

* Auto-validation reads pending hypotheses and later updates them by id
  (integration.py:264): a verdict that the operator commits in between is replaced.
  `Ledger` allows it, since a verdict stays a verdict.
* `POST /scenarios/replay/pause` pauses an engine it has just made; the replay goes on,
  and nothing keeps the engine that runs it. The README calls it "Pause scenario
  replay", the docstring "Pause the current replay."
* "Execute MPC-recommended actions", says action_executor.py:3. Nothing calls the
  executor with them, and `RecommendationsNotTaken` says that it would carry none of them out: the
  planner writes `score` and no deployment, the executor reads `confidence` or
  `optimization_score` and `deployment`, and rejects them. Forced, a scaling or a remediation
  fails for want of its deployment or target, and the failure is rolled back: the captured
  deployments of the namespace are applied again, the one thing that a recommendation could do to
  a cluster.
* "Rate limit MPC planning to once per 5 minutes per cluster" is the docstring of
  `_should_plan_mpc` (integration.py:47); the cooldown above it is an hour
  (`_MPC_COOLDOWN = 3600`). `PlanningsSpaced` is about whatever it is.
* The answers that the LLM gives in a form the parser does not expect are in part
  reported as `unavailable`, as if there had been none: `ParseExplained` says which.
* "Escalate to next tier when classification is unstable" (deepfield.py:205): with
  the substrate above down, the fallback then takes a workload to nano although the
  substrate of its own tier is there (the comment at `RouteExplained`).
* docs/SBE.md's table of horizons keeps 3 for the scores 0.85, 0.90 and 0.88; the code
  extends to 4. In production neither happens, since `predict` gives one score.
* `PUT /stability/thresholds` changes the gate of the hypotheses. The recorded state
  and `GET /stability/thresholds` use a table made at import, the planner and the router a value
  from the environment: `GateAgrees` says what follows.
* Of the four stability states `stable_fail` never occurs: no caller says that an
  outcome was wrong. `unstable_fail` is only what a failed call records.
* The enrichment counts audit events of Stargate and Launchpad, which no production
  code writes; those of DeepField have no payload to tell of.
* loader.py:77 says a constraint that is gone is marked deprecated; nothing marks it. A new
  version updates neither type nor name nor stage, and is only looked for when a stage
  has no constraints at all.
* The retention loop calls `run` with an argument that it does not take (app.py:114): it
  raises every day, and the error is logged.

## 4. What is proved

`tlapm` checks these for every value of the constants that satisfies the modules'
assumptions: `BreakerAssumption` (finitely many threads, a positive threshold),
`PipelineAssumption` (positive bounds, finitely many threads, a nameless cluster makes a key
anonymous, markers that are not values), `PlanningAssumption`, `ReplayAssumption`, `ConsumerAssumption`,
`ExecutorAssumption`, `BackfillAssumption` (bounds, finitely many clusters and labs),
`EvidenceAssumption` (null, absent, texts and booleans are told apart),
`DecisionsAssumption` (thresholds are between 0 and 1, the default horizon is within the maximum),
`JudgementAssumption` and `FieldsAssumption` (stages, fields and
texts that are mentioned exist), `AnswersAssumption` (an answer is a list of
tokens, each with finitely many logprobs) and `RepliesAssumption` (its items have a confidence
of one of the three kinds, and the marker of no answer is no set of hypotheses).

| theorem | argument |
|---|---|
| `CircuitBreaker_proofs!Typing`, `Bounds`, `Opening`, `Containment` | Neither property is inductive. `ClosedBound`: a closed breaker has counted below the threshold, plus one for each thread about to stamp. `OpenBound`: an open one at most `Threshold - 1` plus the threads. Each step moves one thread, so a lemma (`AtMoves`) says how the number of threads at a set of labels changes when one moves, and the rest is arithmetic. |
| `EventPipeline_proofs!Invariance` | The conjunction below is inductive. |
| `EventPipeline_proofs!Typing`, `NoRepetition`, `Gating` | parts of it |
| `EventPipeline_proofs!Refinement` | `Init` implies the ledger's, and each step, under the invariant on both sides, is a `Commit` that publishes about visible rows or leaves the ledger alone |
| `MPCController_proofs!Typing`, `Spacing` | `Remembered`: the dictionary's time for a cluster is never much older than the latest stamp of any thread, the lag being all a slower thread can set it back by. |
| `KafkaConsumers_proofs!Typing`, `Losses`, `Repetitions` | `Storing`: what is to be committed is the position, so a commit never moves the group past what was handed out. `Covered`: whatever the consumer is past is accounted for, before any commit says so. `Reassigned`: so a rebalance leaves the position where it is, or nothing was committed and it goes to the log's end. `Repeating`: a handled message ahead of the consumer, or of the group when there is none, was left uncommitted by a kill. |
| `ReplayEngine_proofs!Typing`, `Halting` | `Obeyed`: while an order is in force one attribute says so, and a thread that has emitted since is before its next look. `Within`: a thread about to emit is at an event of the archive. |
| `ActionExecutor_proofs!Typing`, `Recording`, `Stability`, `Switching` | `Frames`: an attempt belongs to one caller, overlaps those of all others under way, and has had no effect before its action and no outcome before its end. `InForce`: what is in force is the effect of an attempt that changed something. `Seen`: what a caller has captured, and would write back, is what stands, except for the changes of attempts it overlaps; hence `Standing`. `Lateness`: a caller that has had a late effect is past its action, or is forced. |
| `ActionExecutor_proofs!Trailing` | `Init` implies the trail's, and each step is one of the trail's or leaves it alone: `Reject` is a `Refuse`, `Admit` a `TakeOn`, an action an `Act` and never a second one, since its caller moves on, captures and rollbacks nothing, `Record` a `Conclude`, exceptions and the crash a `Lose`. `Unrecorded`: what is under way has no audit event yet, which `Frames` says of effects and not of records. |
| `Backfill_proofs!Typing`, `Paging`, `Repetitions` | Ties change which rows a page has, never how many of each moment (`PageFrom`, `PageAt`), so the proofs count. `Taken` is what the day has read, the batch at hand included; a row that comes twice counts twice, for `Batched` has no row twice in a batch. `Above`: from any moment on, what is read is neither more than there is nor more than the pages hold. `Covered`: down to the depth of the pages read on a session that works, each moment is read as often as it has rows, those that arrived since left aside. |
| `Backfill_proofs!Objectives`, `Reclamation` | `Unaudited`: at most one of today's objectives is without its event, and none while the miner goes on to the next. `Reclaiming`: a lab is still to do and not yet classified, has been classified once or has been missed. |
| `Judgement_proofs!Typing`, `PassesEarned`, `Gating`, `Parsing`, `Routing`, `Planning`, `NotTaken` | The conjunction of them with `Kept` (the evidence has the event's outcome unless a criterion has replaced it) and `Fresh` (what no step has come to yet is as it was at first) is inductive; one lemma for each action. |
| `EventPipeline_proofs!Ownership` | The invariant with `Own`: what is flushed in a session is of runs that its thread owns, since a session is never handed on. |
| `EventPipeline_proofs!Bounded` | `NoSelfDuplicate` makes the owner of an answer an injection from the answers of a key to the threads. |
| `CircuitBreaker_proofs!HoldEnds`, `HoldBound` | `HoldRank` is the time left of the hold and a cooldown more for every straggler: an open breaker admits nobody, so the threads still in a call only become fewer, and a late stamp pays for the age it resets with the straggler it was. |
| `EventPipeline_proofs!EventsRun` | The labels of a run are passed in one direction, and constraints are loaded once. |
| `KafkaConsumers_proofs!WaitRuns`, `WaitBound` | A message that waits is ahead of the position, which only an end of the process sets back; a rebalance that moves it accounts for what it moves past. |
| `ReplayEngine_proofs!ThreadsRun`, `ThreadBound` | The offset of a thread is its own and grows by one; pausing and resuming moves no label. |
| `Backfill_proofs!DayRuns`, `DayBound` | What the configured batches have left, then the clusters and labs that are still to do. That the pages are counted and not read to their end is what makes arrivals harmless. |
| `Judgement_proofs!Deciding` | `Score`: a mean lies between the least and the greatest of its terms, and so does the integer it is rounded to if they are integers (`Rounding`); so it is below the gate only if one of them is, and between 0 and 1. |
| `Judgement_proofs!Results`, `Verdicts`, `Agreeing` | Lemmas about the operators of `Evidence`, for every evidence, constraint and condition: `Evaluate` and `CheckCondition` do not change where the field has not. |

The pipeline's invariant has a part for each thing that a swallowed error could break:
`Handled` (a run is handled by the thread that owns it), `Unborn` and
`Unanswered` (runs to come, and runs before their answer, have no
hypotheses), `Waiting` (what waits in a session is neither a hypothesis nor the record
of a gated generation, and waits with its audit event), `Audited` (a thread waiting for the LLM has its
started event in its session), `Referenced` (a committed row's audit event is committed), `Stored`
(committed hypotheses are the whole answer), `GatedEmpty`, `Judgeable` (what is queued or
judged is committed), `Visible` (what is being announced is committed), `Unrepeated` (a
thread waiting for the LLM has no answer of its own for the same key) and `NoRepeat`
(which `NoSelfDuplicate` follows from). `Waiting` is the heart of it: since only plain
rows with their audit events are ever left in a session, it does not matter which later step
commits them.

Each of the liveness properties has a half that needs no fairness, and that half is
proved: a rank of natural numbers that every step of the thread lowers, that
nothing anybody else does raises, and that the constants bound. So an event ends within 13
steps of its thread (`EventsEnd`), message `o` is handled within `2 * o + 3`
(`Delivered`), a replay thread within `4 * Length + 5` (`Settles`), a day within `DayLength`
(`DayEnds`), and an open breaker holds calls off for a cooldown for each thread and one more at
most (`Recovers`). The bounds say more than the properties: neither another thread nor a
failure can make any of these wait longer. What is left to TLC is that a thread that can
take a step takes it.

The score of an answer is a sum over a list, a recursive function. What is needed of it is
proved by induction over the numbers up to the length of the list, as a fact about sets of
numbers: a nonempty set of numbers has a least one (`LeastNat`), so a set that holds 0 and the
successors of its members holds all (`UpTo`). The library's induction theorem would
need an operator for a parameter, which no prover here instantiates.

Only model-checked: the liveness properties themselves (`Recovers`, `EventsEnd`, `Settles`,
`Delivered`, `DayEnds`), since fairness and ENABLED are beyond this prover, and the violated
properties. No module has a RECURSIVE operator.

## 5. Plan

The core is modelled. In the order of importance, what could follow:

1. The queue's cut at the 20 newest pending hypotheses of all clusters
   (integration.py:250), which can starve a cluster, and the gate's matching of ids
   that contain one another (mpc.py:282): both need several clusters in
   `EventPipeline` and `MPCController`.
2. Sessions that return early with a flushed event: a schema mismatch
   (classification.py:52), a refused override (deepfield.py:74).
3. The connection pool, 30 connections held by transactions that stay open during LLM
   calls, as a resource with waiting instead of a statement that fails.
4. The hour's planning, spent before the activation gate is asked (integration.py:178).
5. The summit and catalog miners, and several replicas of the consumers.

And of proofs: that the trail of `AuditTrail` itself has what its readers need (an effect
whose attempt is neither open nor lost has its audit event), as a theorem of that module; and
the ranks of the planner's cycle (`MPCController`), for which no run has a liveness property.

## 6. What is not modelled, and why

* NanoObs, the event bus and the nanoagents, and the action executor's callers have no production
  code that builds them. The executor is modelled because it acts on clusters;
  the others are not. (NanoObs' drift detection ignores the threshold it is
  asked about; the deduplication suppresses ten times its window.)
* `check_all_falsified` is called by nothing.
* Two ways to score an answer, by logit entropy and by perplexity, are asked for by
  nobody. The confidence of a classification's result is arithmetic on constants.
* Prompts, summaries and other texts: only what is decided by them is kept.
* The connection pool's limit is seen only as a failing statement.
* The producer's buffer drops events without the program noticing: the topics promise
  nothing a property could hold the code to.
* Launchpad, metrics, views, the governance endpoints and the frontend read and
  report. Authentication is a stateless check. Scenarios are test data.
* Retention is called with arguments it does not take, and its loop swallows the
  error: there is no behaviour to explore.
* The update of constraints by version is not reached once a stage has constraints;
  the versions of an objective have one writer and no reader.
