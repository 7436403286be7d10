------------------------ MODULE EventPipeline_proofs ------------------------
(***************************************************************************)
(* Proofs about the pipeline, for any number of threads, keys, constraints *)
(* and hypotheses per answer, and any number of events.                    *)
(***************************************************************************)
EXTENDS EventPipeline, FiniteSetTheorems, TLAPS

(***************************************************************************)
(* The inductive invariant.                                                *)
(***************************************************************************)
\* A thread that is not idle handles a run of its own.
Handled ==
  \A w \in Workers : pc[w] # "idle" =>
    run[w] \in Runs /\ run[w] < nextRun /\ owner[run[w]] = w

\* Nothing has been stored of a run's hypothesis generation.
Fresh(r) == batch[r] = 0 /\ GatedRow(r) \notin db

Unborn == \A r \in Runs : r >= nextRun => Fresh(r)

Unanswered ==
  \A w \in Workers :
    pc[w] \in {"classify", "announce_classification", "dedup", "llm"} => Fresh(run[w])

\* Neither a hypothesis nor the record of a gated generation.
Plain(x) == x \notin Hypotheses /\ \A r \in Runs : x # GatedRow(r)

\* What waits in a session is plain, and waits with its audit event.
Waiting == \A w \in Workers : \A x \in tx[w] : Plain(x) /\ AuditOf(x) \in tx[w]

\* A thread that waits for the LLM has its audit event in its session: it is
\* the one its hypotheses will name.
Audited ==
  \A w \in Workers :
    pc[w] = "llm" /\ ~ poisoned[w] => AuditRow(run[w], "hypothesis") \in tx[w]

Referenced == \A x \in db : AuditOf(x) \in db

\* The hypotheses stored of a run are the first of its answer: all of them.
Stored == \A x \in Hypotheses : x \in db <=> x.n <= batch[x.run]

GatedEmpty == \A r \in Runs : GatedRow(r) \in db => batch[r] = 0

\* What is judged, or has a verdict waiting for a commit, is stored.
Judgeable ==
  \A w \in Workers :
    queue[w] \subseteq db /\ \A x \in Hypotheses : ruled[w][x] # Pending => x \in db

Visible == \A w \in Workers : pc[w] \in Announcing => Announced(w) \subseteq db

\* A thread that waits for the LLM has no answer yet to what it asks.
Unrepeated ==
  \A w \in Workers :
    pc[w] = "llm" /\ run[w] \notin unchecked /\ key[run[w]] \notin Anonymous =>
      \A r \in Runs : owner[r] = w /\ key[r] = key[run[w]] => batch[r] = 0

NoRepeat ==
  \A r, s \in Runs \ unchecked :
    r # s /\ batch[r] # 0 /\ batch[s] # 0 /\ key[r] = key[s] /\ key[r] \notin Anonymous
      => owner[r] # owner[s]

IInv ==
  /\ TypeOK /\ Handled /\ Unborn /\ Unanswered
  /\ Waiting /\ Audited /\ Referenced /\ Stored /\ GatedEmpty
  /\ Judgeable /\ Visible /\ Unrepeated /\ NoRepeat

-----------------------------------------------------------------------------
(***************************************************************************)
(* Rows.                                                                   *)
(***************************************************************************)
Engines == {"classification", "hypothesis", "routing", "planning"}

LEMMA RunsAreNumbers == Runs \subseteq Nat /\ Runs \subseteq 1 .. MaxRuns + 1
BY PipelineAssumption DEF Runs

LEMMA HypothesisRows ==
  \A x \in Hypotheses :
    /\ x.run \in Runs /\ x.n \in 1 .. BatchMax
    /\ x.kind = "result" /\ x = ResultRow(x.run, "hypothesis", x.n)
    /\ x \in Row
    /\ AuditOf(x) = AuditRow(x.run, "hypothesis")
<1> SUFFICES ASSUME NEW r \in Runs, NEW i \in 1 .. BatchMax,
                    NEW x, x = ResultRow(r, "hypothesis", i)
             PROVE  /\ x.run \in Runs /\ x.n \in 1 .. BatchMax
                    /\ x.kind = "result" /\ x = ResultRow(x.run, "hypothesis", x.n)
                    /\ x \in Row
                    /\ AuditOf(x) = AuditRow(x.run, "hypothesis")
  BY DEF Hypotheses, HypothesesOf
<1>1. x \in Row
  BY DEF Row, RowsOf, HypothesesOf
<1> QED
  BY <1>1 DEF ResultRow, AuditOf

LEMMA HypothesesOfARun ==
  ASSUME NEW r \in Runs, NEW k \in 0 .. BatchMax
  PROVE  /\ HypothesesOf(r, k) \subseteq Hypotheses
         /\ \A x \in Hypotheses : x \in HypothesesOf(r, k) <=> x.run = r /\ x.n <= k
<1>1. HypothesesOf(r, k) \subseteq Hypotheses
  BY PipelineAssumption DEF HypothesesOf, Hypotheses
<1>2. ASSUME NEW x \in HypothesesOf(r, k)
      PROVE  x.run = r /\ x.n <= k
  BY <1>2, PipelineAssumption DEF HypothesesOf, ResultRow
<1>3. ASSUME NEW x \in Hypotheses, x.run = r, x.n <= k
      PROVE  x \in HypothesesOf(r, k)
  <2>1. x.n \in 1 .. k /\ x = ResultRow(r, "hypothesis", x.n)
    BY <1>3, HypothesisRows, PipelineAssumption
  <2> QED
    BY <2>1 DEF HypothesesOf
<1> QED
  BY <1>1, <1>2, <1>3

LEMMA GatedRows ==
  ASSUME NEW r \in Runs
  PROVE  /\ GatedRow(r) \in Row /\ GatedRow(r) \notin Hypotheses
         /\ AuditOf(GatedRow(r)) = GatedRow(r)
         /\ \A s \in Runs : GatedRow(s) = GatedRow(r) => s = r
<1>1. GatedRow(r) \in Row
  BY DEF Row, RowsOf
<1>2. GatedRow(r) \notin Hypotheses
  BY HypothesisRows DEF GatedRow
<1> QED
  BY <1>1, <1>2 DEF GatedRow, AuditOf

\* Rows that a step may leave in its session.
Keepable(rows) == rows \subseteq Row /\ \A x \in rows : Plain(x) /\ AuditOf(x) \in rows

LEMMA AuditRows ==
  ASSUME NEW r \in Runs, NEW e \in Engines
  PROVE  /\ AuditRow(r, e) \in Row /\ Plain(AuditRow(r, e))
         /\ AuditOf(AuditRow(r, e)) = AuditRow(r, e)
<1>1. AuditRow(r, e) \in Row
  BY DEF Row, RowsOf, Engines
<1>2. AuditRow(r, e) \notin Hypotheses
  BY HypothesisRows DEF AuditRow
<1>3. \A s \in Runs : AuditRow(r, e) # GatedRow(s)
  BY DEF AuditRow, GatedRow
<1> QED
  BY <1>1, <1>2, <1>3 DEF Plain, AuditRow, AuditOf

LEMMA AuditKeepable ==
  ASSUME NEW r \in Runs, NEW e \in Engines
  PROVE  Keepable({AuditRow(r, e)})
BY AuditRows DEF Keepable

LEMMA ResultPlain ==
  ASSUME NEW r, NEW e \in Engines \ {"hypothesis"}, NEW i
  PROVE  Plain(ResultRow(r, e, i)) /\ AuditOf(ResultRow(r, e, i)) = AuditRow(r, e)
<1>1. ResultRow(r, e, i) \notin Hypotheses
  BY HypothesisRows DEF ResultRow
<1>2. \A s \in Runs : ResultRow(r, e, i) # GatedRow(s)
  BY DEF ResultRow, GatedRow
<1> QED
  BY <1>1, <1>2 DEF Plain, ResultRow, AuditOf

LEMMA ClassificationKeepable ==
  ASSUME NEW r \in Runs, NEW k \in 0 .. Constraints
  PROVE  Keepable(ClassificationRows(r, k))
<1>1. ClassificationsOf(r, k) \subseteq Row
  BY PipelineAssumption DEF ClassificationsOf, Row, RowsOf
<1>2. \A x \in ClassificationsOf(r, k) :
        Plain(x) /\ AuditOf(x) = AuditRow(r, "classification")
  BY ResultPlain DEF ClassificationsOf, Engines
<1>3. /\ AuditRow(r, "classification") \in Row /\ Plain(AuditRow(r, "classification"))
      /\ AuditOf(AuditRow(r, "classification")) = AuditRow(r, "classification")
  BY AuditRows DEF Engines
<1> QED
  BY <1>1, <1>2, <1>3 DEF Keepable, ClassificationRows

LEMMA EngineKeepable ==
  ASSUME NEW r \in Runs, NEW e \in {"routing", "planning"}
  PROVE  Keepable(EngineRows(r, e))
<1>1. ResultRow(r, e, 1) \in Row
  BY DEF Row, RowsOf
<1>2. Plain(ResultRow(r, e, 1)) /\ AuditOf(ResultRow(r, e, 1)) = AuditRow(r, e)
  BY ResultPlain DEF Engines
<1>3. /\ AuditRow(r, e) \in Row /\ Plain(AuditRow(r, e))
      /\ AuditOf(AuditRow(r, e)) = AuditRow(r, e)
  BY AuditRows DEF Engines
<1> QED
  BY <1>1, <1>2, <1>3 DEF Keepable, EngineRows

-----------------------------------------------------------------------------
(***************************************************************************)
(* Types.                                                                  *)
(***************************************************************************)
LEMMA BornCount == Cardinality({r \in Runs : born[r] > 0}) \in Nat
<1>1. IsFiniteSet(Runs)
  BY PipelineAssumption, FS_Interval DEF Runs
<1> QED
  BY <1>1, FS_Subset, FS_CardinalityType

LEMMA NoVerdictsType == NoVerdicts \in [Hypotheses -> {Pending} \cup RuleVerdicts]
BY DEF NoVerdicts

LEMMA InitTyping == Init => TypeOK
<1> SUFFICES ASSUME Init
             PROVE  TypeOK
  OBVIOUS
<1>1. /\ nextRun \in 1 .. MaxRuns + 1
      /\ batch \in [Runs -> 0 .. BatchMax]
  BY PipelineAssumption DEF Init
<1>2. ruled \in [Workers -> [Hypotheses -> {Pending} \cup RuleVerdicts]]
  BY NoVerdictsType DEF Init
<1>3. outcome \in [Hypotheses -> {Pending} \cup Verdicts]
  BY DEF Init, NoVerdicts
<1> QED
  BY <1>1, <1>2, <1>3 DEF Init, TypeOK, Labels

\* A commit of well-formed rows and verdicts.
LEMMA CommitTypes ==
  ASSUME TypeOK, NEW w \in Workers, NEW rows \in SUBSET Row,
         NEW verdicts \in [Hypotheses -> {Pending} \cup RuleVerdicts],
         CommitVerdicts(w, rows, verdicts)
  PROVE  /\ db' \subseteq Row
         /\ outcome' \in [Hypotheses -> {Pending} \cup Verdicts]
         /\ tx' \in [Workers -> SUBSET Row]
         /\ ruled' \in [Workers -> [Hypotheses -> {Pending} \cup RuleVerdicts]]
         /\ poisoned' \in [Workers -> BOOLEAN]
<1>1. db' \subseteq Row /\ tx' \in [Workers -> SUBSET Row]
  BY DEF CommitVerdicts, TypeOK
<1>2. outcome' \in [Hypotheses -> {Pending} \cup Verdicts]
  BY PipelineAssumption DEF CommitVerdicts, TypeOK
<1>3. ruled' \in [Workers -> [Hypotheses -> {Pending} \cup RuleVerdicts]]
  BY NoVerdictsType DEF CommitVerdicts, TypeOK
<1> QED
  BY <1>1, <1>2, <1>3 DEF CommitVerdicts, TypeOK

LEMMA FlushTypes ==
  ASSUME TypeOK, NEW w \in Workers, NEW rows \in SUBSET Row, Flush(w, rows)
  PROVE  /\ db' \subseteq Row
         /\ outcome' \in [Hypotheses -> {Pending} \cup Verdicts]
         /\ tx' \in [Workers -> SUBSET Row]
         /\ ruled' \in [Workers -> [Hypotheses -> {Pending} \cup RuleVerdicts]]
         /\ poisoned' \in [Workers -> BOOLEAN]
BY DEF Flush, tables, TypeOK

LEMMA GotoType ==
  ASSUME TypeOK, NEW w \in Workers, NEW l \in Labels, Goto(w, l)
  PROVE  pc' \in [Workers -> Labels] /\ pc'[w] = l /\ \A v \in Workers \ {w} : pc'[v] = pc[v]
BY DEF Goto, TypeOK

LEMMA LabelsAhead ==
  ASSUME NEW w
  PROVE  AfterClassification(w) \in Labels /\ AfterGeneration(w) \in Labels
BY DEF AfterClassification, AfterGeneration, Labels, DbSteps

LEMMA LabelAfterAnnouncing ==
  ASSUME NEW w, pc[w] \in Announcing
  PROVE  AfterAnnouncing(w) \in {"dedup", "queue", "end", "route", "plan"}
<1>1. CASE pc[w] = "announce_classification"
  BY <1>1 DEF AfterAnnouncing, AfterClassification
<1>2. CASE pc[w] = "announce_breach"
  BY <1>2 DEF AfterAnnouncing, AfterGeneration
<1>3. CASE pc[w] = "announce_hypotheses"
  BY <1>3 DEF AfterAnnouncing, AfterGeneration
<1>4. CASE pc[w] = "announce_routing"
  BY <1>4 DEF AfterAnnouncing
<1>5. CASE pc[w] = "announce_planning"
  BY <1>5 DEF AfterAnnouncing
<1> QED
  BY <1>1, <1>2, <1>3, <1>4, <1>5 DEF Announcing

LEMMA JudgingType ==
  ASSUME TypeOK, NEW w \in Workers, NEW judged \in SUBSET queue[w],
         NEW verdict \in [judged -> RuleVerdicts]
  PROVE  Judging(w, judged, verdict) \in [Hypotheses -> {Pending} \cup RuleVerdicts]
BY DEF TypeOK, Judging

LEMMA StepTyping == ASSUME TypeOK, Handled, NEW w \in Workers, Step(w) PROVE TypeOK'
<1>1. run[w] \in Runs /\ pc[w] # "idle"
  <2>1. pc[w] # "idle"
    BY DEF Step, Working, Generating, LoadConstraints, ClassifyCommit, ClassifyRaises,
       SkipDuplicate, GenerationDisabled, StartGeneration, StartUnchecked, LlmUnavailable,
       LlmGated, LlmAnswered, RouteCommit, PlanSkipped, PlanRaises, PlanCommit, Announce,
       Announcing, NoClusterToValidate, ReadQueue, AutoValidate, AutoValidateRaises,
       DbFailure, DbSteps, Finish
  <2> QED
    BY <2>1 DEF Handled
<1>2. ruled[w] \in [Hypotheses -> {Pending} \cup RuleVerdicts]
  BY DEF TypeOK
<1>3. CASE ClassifyCommit(w)
  <2>1. ClassificationRows(run[w], Constraints) \in SUBSET Row
    BY <1>1, ClassificationKeepable, PipelineAssumption DEF Keepable
  <2>2. pc' \in [Workers -> Labels]
    BY <1>3, GotoType DEF ClassifyCommit, Labels, Announcing
  <2> QED
    BY <1>2, <1>3, <2>1, <2>2, CommitTypes
    DEF ClassifyCommit, Commit, TypeOK, history, answers, request
<1>4. CASE LoadConstraints(w)
  <2>1. {AuditRow(run[w], "classification")} \in SUBSET Row
    BY <1>1, AuditRows DEF Engines
  <2> QED
    BY <1>2, <1>4, <2>1, CommitTypes DEF LoadConstraints, Commit, TypeOK, history, answers,
       request
<1>5. CASE ClassifyRaises(w)
  <2>1. PICK k \in 0 .. Constraints - 1 : Flush(w, ClassificationRows(run[w], k))
    BY <1>5 DEF ClassifyRaises
  <2>2. ClassificationRows(run[w], k) \in SUBSET Row
    BY <1>1, ClassificationKeepable, PipelineAssumption DEF Keepable
  <2>3. pc' \in [Workers -> Labels]
    BY <1>5, GotoType, LabelsAhead DEF ClassifyRaises
  <2> QED
    BY <1>5, <2>1, <2>2, <2>3, FlushTypes DEF ClassifyRaises, TypeOK, history, answers, request
<1>6. CASE SkipDuplicate(w) \/ GenerationDisabled(w) \/ PlanSkipped(w) \/ NoClusterToValidate(w)
  <2>1. pc' \in [Workers -> Labels]
    BY <1>6, GotoType, LabelsAhead DEF SkipDuplicate, GenerationDisabled, PlanSkipped,
       NoClusterToValidate, Labels, DbSteps
  <2> QED
    BY <1>6, <2>1 DEF SkipDuplicate, GenerationDisabled, PlanSkipped, NoClusterToValidate,
       TypeOK, history, answers, tables, request, session
<1>7. CASE StartGeneration(w) \/ StartUnchecked(w)
  <2>1. Generating(w)
    BY <1>7 DEF StartGeneration, StartUnchecked
  <2>2. {AuditRow(run[w], "hypothesis")} \in SUBSET Row
    BY <1>1, AuditRows DEF Engines
  <2>3. pc' \in [Workers -> Labels]
    BY <2>1, GotoType DEF Generating, Labels, DbSteps
  <2>4. unchecked' \subseteq Runs
    BY <1>1, <1>7 DEF StartGeneration, StartUnchecked, TypeOK
  <2> QED
    BY <2>1, <2>2, <2>3, <2>4, FlushTypes DEF Generating, TypeOK, history, request
<1>8. Cite(w) => reply' \in [Workers -> SUBSET Row]
  <2>1. {AuditRow(run[w], "hypothesis")} \in SUBSET Row
    BY <1>1, AuditRows DEF Engines
  <2> QED
    BY <2>1 DEF Cite, TypeOK
<1>9. CASE LlmUnavailable(w)
  <2>1. pc' \in [Workers -> Labels]
    BY <1>9, GotoType, LabelsAhead DEF LlmUnavailable
  <2> QED
    BY <1>8, <1>9, <2>1 DEF LlmUnavailable, TypeOK, history, answers, tables, request, session
<1>10. CASE LlmGated(w)
  <2>1. {GatedRow(run[w])} \in SUBSET Row
    BY <1>1, GatedRows
  <2>2. pc' \in [Workers -> Labels]
    BY <1>10, GotoType DEF LlmGated, Labels, Announcing
  <2> QED
    BY <1>2, <1>8, <1>10, <2>1, <2>2, CommitTypes
    DEF LlmGated, Commit, TypeOK, history, answers, request
<1>11. CASE LlmAnswered(w)
  <2>1. PICK k \in 0 .. BatchMax :
          Commit(w, HypothesesOf(run[w], k)) /\ batch' = [batch EXCEPT ![run[w]] = k]
    BY <1>11 DEF LlmAnswered
  <2>2. HypothesesOf(run[w], k) \in SUBSET Row
    BY <1>1, HypothesesOfARun, HypothesisRows
  <2>3. pc' \in [Workers -> Labels]
    BY <1>11, GotoType DEF LlmAnswered, Labels, Announcing
  <2>4. batch' \in [Runs -> 0 .. BatchMax]
    BY <2>1 DEF TypeOK
  <2>5. born' \in [Runs -> Nat]
    <3> DEFINE count == Cardinality({r \in Runs : born[r] > 0})
    <3>1. born' = [born EXCEPT ![run[w]] = count + 1] /\ born \in [Runs -> Nat]
      BY <1>11 DEF LlmAnswered, TypeOK
    <3>2. count + 1 \in Nat
      BY BornCount
    <3> HIDE DEF count
    <3> QED
      BY <3>1, <3>2
  <2> QED
    BY <1>2, <1>8, <1>11, <2>1, <2>2, <2>3, <2>4, <2>5, CommitTypes
    DEF LlmAnswered, Commit, TypeOK, history, request
<1>12. CASE RouteCommit(w)
  <2>1. EngineRows(run[w], "routing") \in SUBSET Row
    BY <1>1, EngineKeepable DEF Keepable
  <2>2. pc' \in [Workers -> Labels]
    BY <1>12, GotoType DEF RouteCommit, Labels, Announcing
  <2> QED
    BY <1>2, <1>12, <2>1, <2>2, CommitTypes
    DEF RouteCommit, Commit, TypeOK, history, answers, request
<1>13. CASE PlanRaises(w)
  <2>1. {AuditRow(run[w], "planning")} \in SUBSET Row
    BY <1>1, AuditRows DEF Engines
  <2>2. pc' \in [Workers -> Labels]
    BY <1>13, GotoType DEF PlanRaises, Labels, DbSteps
  <2> QED
    BY <1>13, <2>1, <2>2, FlushTypes DEF PlanRaises, TypeOK, history, answers, request
<1>14. CASE PlanCommit(w)
  <2>1. EngineRows(run[w], "planning") \in SUBSET Row
    BY <1>1, EngineKeepable DEF Keepable
  <2>2. pc' \in [Workers -> Labels]
    BY <1>14, GotoType DEF PlanCommit, Labels, Announcing
  <2> QED
    BY <1>2, <1>14, <2>1, <2>2, CommitTypes
    DEF PlanCommit, Commit, TypeOK, history, answers, request
<1>15. CASE Announce(w)
  <2>1. AfterAnnouncing(w) \in Labels
    BY <1>15, LabelAfterAnnouncing DEF Announce, Labels, DbSteps
  <2>2. pc' \in [Workers -> Labels]
    BY <1>15, <2>1, GotoType DEF Announce
  <2> QED
    BY <1>15, <2>2 DEF Announce, TypeOK, history, answers, tables, request, session
<1>16. CASE ReadQueue(w)
  <2>1. pc' \in [Workers -> Labels]
    BY <1>16, GotoType DEF ReadQueue, Labels, DbSteps
  <2>2. queue' \in [Workers -> SUBSET Hypotheses]
    BY <1>16 DEF ReadQueue, TypeOK, HypothesisQueue, PendingFor
  <2> QED
    BY <1>16, <2>1, <2>2 DEF ReadQueue, TypeOK, history, answers, tables, request, session
<1>17. CASE AutoValidate(w)
  <2>1. PICK judged \in SUBSET queue[w] :
          \E verdict \in [judged -> RuleVerdicts] :
            CommitVerdicts(w, {}, Judging(w, judged, verdict))
    BY <1>17 DEF AutoValidate
  <2>2. pc' \in [Workers -> Labels]
    BY <1>17, GotoType DEF AutoValidate, Labels
  <2>3. queue' \in [Workers -> SUBSET Hypotheses]
    BY <1>17 DEF AutoValidate, TypeOK
  <2> QED
    BY <1>17, <2>1, <2>2, <2>3, JudgingType, CommitTypes
    DEF AutoValidate, TypeOK, history, answers, request
<1>18. CASE AutoValidateRaises(w)
  <2>1. PICK judged \in SUBSET queue[w] :
          \E verdict \in [judged -> RuleVerdicts] :
            ruled' = [ruled EXCEPT ![w] = Judging(w, judged, verdict)]
    BY <1>18 DEF AutoValidateRaises
  <2>2. pc' \in [Workers -> Labels]
    BY <1>18, GotoType DEF AutoValidateRaises, Labels
  <2>3. queue' \in [Workers -> SUBSET Hypotheses]
    BY <1>18 DEF AutoValidateRaises, TypeOK
  <2>4. PICK verdict \in [judged -> RuleVerdicts] :
          ruled' = [ruled EXCEPT ![w] = Judging(w, judged, verdict)]
    BY <2>1
  <2>5. ruled' \in [Workers -> [Hypotheses -> {Pending} \cup RuleVerdicts]]
    BY <2>4, JudgingType DEF TypeOK
  <2> QED
    BY <1>18, <2>2, <2>3, <2>5 DEF AutoValidateRaises, TypeOK, history, answers, tables, request
<1>19. CASE DbFailure(w) \/ Finish(w)
  <2>1. pc' \in [Workers -> Labels]
    BY <1>19, GotoType DEF DbFailure, Finish, Labels
  <2>2. ruled' \in [Workers -> [Hypotheses -> {Pending} \cup RuleVerdicts]]
    BY <1>19, NoVerdictsType DEF DbFailure, Finish, TypeOK
  <2>3. tx' \in [Workers -> SUBSET Row] /\ queue' \in [Workers -> SUBSET Hypotheses]
    BY <1>19 DEF DbFailure, Finish, TypeOK
  <2>4. run' \in [Workers -> Runs \cup {0}]
    BY <1>19 DEF DbFailure, Finish, TypeOK, request
  <2>5. cited' \subseteq Row /\ reply' \in [Workers -> SUBSET Row]
    BY <1>19 DEF DbFailure, Finish, TypeOK
  <2>6. /\ isFailure' \in [Workers -> BOOLEAN] /\ alone' \in [Workers -> BOOLEAN]
        /\ poisoned' \in [Workers -> BOOLEAN]
    BY <1>19 DEF DbFailure, Finish, TypeOK, request
  <2>7. UNCHANGED <<history, answers, tables>>
    BY <1>19 DEF DbFailure, Finish
  <2> QED
    BY <2>1, <2>2, <2>3, <2>4, <2>5, <2>6, <2>7 DEF TypeOK, history, answers, tables
<1> QED
  BY <1>3, <1>4, <1>5, <1>6, <1>7, <1>9, <1>10, <1>11, <1>12, <1>13, <1>14, <1>15, <1>16,
     <1>17, <1>18, <1>19 DEF Step

\* What every arrival does: a thread without a request gets the next run.
LEMMA ArrivalBegins ==
  ASSUME NEW w \in Workers, NEW k \in Keys, Arrival(w, k)
  PROVE  /\ pc[w] \in {"idle", "end"}
         /\ \E failing \in BOOLEAN, generation \in BOOLEAN : Begin(w, k, failing, generation)
BY DEF Arrival, ReceiveEvent, NextInBatch, RequestGeneration

LEMMA BeginTyping ==
  ASSUME TypeOK, NEW w \in Workers, NEW k \in Keys,
         NEW failing \in BOOLEAN, NEW generation \in BOOLEAN, Begin(w, k, failing, generation)
  PROVE  TypeOK'
<1>1. nextRun' \in 1 .. MaxRuns + 1
  BY PipelineAssumption DEF Begin, Runs
<1>2. /\ key' \in [Runs -> Keys \cup {Unset}]
      /\ owner' \in [Runs -> Workers \cup {Unset}]
  BY DEF Begin, TypeOK
<1>3. pc' \in [Workers -> Labels]
  BY GotoType DEF Begin, Labels, DbSteps
<1>4. /\ run' \in [Workers -> Runs \cup {0}]
      /\ isFailure' \in [Workers -> BOOLEAN] /\ alone' \in [Workers -> BOOLEAN]
  BY DEF Begin, TypeOK
<1> QED
  BY <1>1, <1>2, <1>3, <1>4 DEF Begin, TypeOK, answers, tables, session

LEMMA NextTyping == ASSUME TypeOK, Handled, [Next]_vars PROVE TypeOK'
<1>1. ASSUME NEW w \in Workers, Step(w)
      PROVE  TypeOK'
  BY <1>1, StepTyping
<1>2. ASSUME NEW w \in Workers, NEW k \in Keys, Arrival(w, k)
      PROVE  TypeOK'
  BY <1>2, ArrivalBegins, BeginTyping
<1>3. CASE Operator
  <2>1. PICK x \in Hypotheses, verdict \in Verdicts : OperatorValidates(x, verdict)
    BY <1>3 DEF Operator
  <2>2. outcome' \in [Hypotheses -> {Pending} \cup Verdicts]
    BY <2>1 DEF OperatorValidates, TypeOK
  <2> QED
    BY <2>1, <2>2 DEF OperatorValidates, TypeOK, history, answers, request, session
<1>4. CASE Crash
  <2>1. ruled' \in [Workers -> [Hypotheses -> {Pending} \cup RuleVerdicts]]
    BY <1>4, NoVerdictsType DEF Crash
  <2>2. pc' \in [Workers -> Labels]
    BY <1>4 DEF Crash, Labels
  <2> QED
    BY <1>4, <2>1, <2>2 DEF Crash, TypeOK, history, answers, tables
<1>5. CASE UNCHANGED vars
  BY <1>5 DEF vars, TypeOK, history, answers, tables, session, request
<1> QED
  BY <1>1, <1>2, <1>3, <1>4, <1>5 DEF Next

-----------------------------------------------------------------------------
(***************************************************************************)
(* Frames: what a step of one thread leaves alone.                         *)
(***************************************************************************)
\* The other threads, their requests and their sessions.
OthersStay(w) ==
  \A v \in Workers \ {w} :
    /\ pc'[v] = pc[v] /\ run'[v] = run[v]
    /\ tx'[v] = tx[v] /\ ruled'[v] = ruled[v] /\ poisoned'[v] = poisoned[v]
    /\ queue'[v] = queue[v]

LEMMA SessionFrame ==
  ASSUME TypeOK, NEW w \in Workers, NEW rows, NEW verdicts,
         Flush(w, rows) \/ CommitVerdicts(w, rows, verdicts)
  PROVE  /\ \A v \in Workers \ {w} : tx'[v] = tx[v] /\ ruled'[v] = ruled[v]
         /\ poisoned' = poisoned
         /\ db \subseteq db'
BY DEF Flush, CommitVerdicts, tables, TypeOK

\* A thread takes a step of its own: on its request, from label to label.
LEMMA StepFrame ==
  ASSUME TypeOK, NEW w \in Workers, Step(w)
  PROVE  /\ OthersStay(w)
         /\ UNCHANGED history
         /\ db \subseteq db'
         /\ pc[w] # "idle"
         /\ pc'[w] = "idle" \/ run'[w] = run[w]
<1>1. CASE \/ LoadConstraints(w) \/ ClassifyCommit(w) \/ RouteCommit(w) \/ PlanCommit(w)
           \/ LlmGated(w)
  <2>1. PICK rows : Commit(w, rows)
    BY <1>1 DEF LoadConstraints, ClassifyCommit, RouteCommit, PlanCommit, LlmGated
  <2>2. /\ \A v \in Workers \ {w} : tx'[v] = tx[v] /\ ruled'[v] = ruled[v]
        /\ poisoned' = poisoned /\ db \subseteq db'
    BY <2>1, SessionFrame DEF Commit
  <2> QED
    BY <1>1, <2>2 DEF LoadConstraints, ClassifyCommit, RouteCommit, PlanCommit, LlmGated,
       Working, Goto, OthersStay, TypeOK, request
<1>2. CASE LlmAnswered(w)
  <2>1. PICK rows : Commit(w, rows)
    BY <1>2 DEF LlmAnswered
  <2>2. /\ \A v \in Workers \ {w} : tx'[v] = tx[v] /\ ruled'[v] = ruled[v]
        /\ poisoned' = poisoned /\ db \subseteq db'
    BY <2>1, SessionFrame DEF Commit
  <2> QED
    BY <1>2, <2>2 DEF LlmAnswered, Working, Goto, OthersStay, TypeOK, request
<1>3. CASE ClassifyRaises(w) \/ StartGeneration(w) \/ StartUnchecked(w) \/ PlanRaises(w)
  <2>1. PICK rows : Flush(w, rows)
    BY <1>3 DEF ClassifyRaises, StartGeneration, StartUnchecked, Generating, PlanRaises
  <2>2. /\ \A v \in Workers \ {w} : tx'[v] = tx[v] /\ ruled'[v] = ruled[v]
        /\ poisoned' = poisoned /\ db \subseteq db'
    BY <2>1, SessionFrame
  <2> QED
    BY <1>3, <2>2 DEF ClassifyRaises, StartGeneration, StartUnchecked, Generating, PlanRaises,
       Working, Goto, OthersStay, TypeOK, request
<1>4. CASE \/ SkipDuplicate(w) \/ GenerationDisabled(w) \/ LlmUnavailable(w) \/ PlanSkipped(w)
           \/ NoClusterToValidate(w)
  BY <1>4 DEF SkipDuplicate, GenerationDisabled, LlmUnavailable, PlanSkipped,
     NoClusterToValidate, Working, Goto, OthersStay, TypeOK, tables, session, request
<1>5. CASE Announce(w)
  BY <1>5 DEF Announce, Announcing, Goto, OthersStay, TypeOK, tables, session, request
<1>6. CASE ReadQueue(w)
  BY <1>6 DEF ReadQueue, Working, Goto, OthersStay, TypeOK, tables, session, request
<1>7. CASE AutoValidate(w)
  <2>1. PICK verdicts : CommitVerdicts(w, {}, verdicts)
    BY <1>7 DEF AutoValidate
  <2>2. /\ \A v \in Workers \ {w} : tx'[v] = tx[v] /\ ruled'[v] = ruled[v]
        /\ poisoned' = poisoned /\ db \subseteq db'
    BY <2>1, SessionFrame
  <2> QED
    BY <1>7, <2>2 DEF AutoValidate, Working, Goto, OthersStay, TypeOK, request
<1>8. CASE AutoValidateRaises(w)
  <2>1. PICK verdicts : ruled' = [ruled EXCEPT ![w] = verdicts]
    BY <1>8 DEF AutoValidateRaises
  <2>2. \A v \in Workers \ {w} : ruled'[v] = ruled[v]
    BY <2>1 DEF TypeOK
  <2> QED
    BY <1>8, <2>2 DEF AutoValidateRaises, Working, Goto, OthersStay, TypeOK, tables, request
<1>9. CASE DbFailure(w) \/ Finish(w)
  BY <1>9 DEF DbFailure, DbSteps, Finish, Goto, OthersStay, TypeOK, tables, request
<1> QED
  BY <1>1, <1>2, <1>3, <1>4, <1>5, <1>6, <1>7, <1>8, <1>9 DEF Step

\* What a step stores of hypotheses and gated generations: a gated record, all
\* the hypotheses of an answer, or nothing.
SameHypotheses == \A x \in Hypotheses : x \in db' <=> x \in db
SameGated      == \A r \in Runs : GatedRow(r) \in db' <=> GatedRow(r) \in db

StoresNothing == UNCHANGED batch /\ SameHypotheses /\ SameGated

StoresGated(w) ==
  /\ pc[w] = "llm" /\ pc'[w] = "announce_breach"
  /\ UNCHANGED batch /\ SameHypotheses
  /\ \A r \in Runs : GatedRow(r) \in db' <=> GatedRow(r) \in db \/ r = run[w]

StoresAnswer(w, k) ==
  /\ pc[w] = "llm" /\ ~ poisoned[w] /\ pc'[w] = "announce_hypotheses"
  /\ batch' = [batch EXCEPT ![run[w]] = k]
  /\ \A x \in Hypotheses : x \in db' <=> x \in db \/ x \in HypothesesOf(run[w], k)
  /\ SameGated

LEMMA CommitPlain ==
  ASSUME Waiting, NEW w \in Workers, NEW rows, \A x \in rows : Plain(x),
         NEW verdicts, CommitVerdicts(w, rows, verdicts)
  PROVE  SameHypotheses /\ SameGated
BY DEF Waiting, CommitVerdicts, Plain, SameHypotheses, SameGated

LEMMA StepStores ==
  ASSUME TypeOK, Handled, Waiting, NEW w \in Workers, Step(w)
  PROVE  \/ StoresNothing
         \/ StoresGated(w)
         \/ \E k \in 0 .. BatchMax : StoresAnswer(w, k)
<1>1. run[w] \in Runs
  BY StepFrame DEF Handled
<1>2. CASE ClassifyCommit(w)
  <2>1. \A x \in ClassificationRows(run[w], Constraints) : Plain(x)
    BY <1>1, ClassificationKeepable, PipelineAssumption DEF Keepable
  <2> QED
    BY <1>2, <2>1, CommitPlain DEF ClassifyCommit, Commit, StoresNothing, answers
<1>3. CASE LoadConstraints(w)
  <2>1. \A x \in {AuditRow(run[w], "classification")} : Plain(x)
    BY <1>1, AuditRows DEF Engines
  <2> QED
    BY <1>3, <2>1, CommitPlain DEF LoadConstraints, Commit, StoresNothing, answers
<1>4. CASE RouteCommit(w) \/ PlanCommit(w)
  <2>1. \A e \in {"routing", "planning"} : \A x \in EngineRows(run[w], e) : Plain(x)
    BY <1>1, EngineKeepable DEF Keepable
  <2> QED
    BY <1>4, <2>1, CommitPlain DEF RouteCommit, PlanCommit, Commit, StoresNothing, answers
<1>5. CASE LlmGated(w)
  <2>1. db' = db \cup tx[w] \cup {GatedRow(run[w])} /\ UNCHANGED batch
    BY <1>5 DEF LlmGated, Commit, CommitVerdicts, answers
  <2>2. \A x \in tx[w] : Plain(x)
    BY DEF Waiting
  <2>3. SameHypotheses
    BY <1>1, <2>1, <2>2, GatedRows DEF Plain, SameHypotheses
  <2>4. \A r \in Runs : GatedRow(r) \in db' <=> GatedRow(r) \in db \/ r = run[w]
    BY <1>1, <2>1, <2>2, GatedRows DEF Plain
  <2>5. pc[w] = "llm" /\ pc'[w] = "announce_breach"
    BY <1>5 DEF LlmGated, Working, Goto, TypeOK
  <2> QED
    BY <2>1, <2>3, <2>4, <2>5 DEF StoresGated
<1>6. CASE LlmAnswered(w)
  <2>1. PICK k \in 0 .. BatchMax :
          Commit(w, HypothesesOf(run[w], k)) /\ batch' = [batch EXCEPT ![run[w]] = k]
    BY <1>6 DEF LlmAnswered
  <2>2. db' = db \cup tx[w] \cup HypothesesOf(run[w], k)
    BY <2>1 DEF Commit, CommitVerdicts
  <2>3. \A x \in tx[w] : Plain(x)
    BY DEF Waiting
  <2>4. \A x \in Hypotheses : x \in db' <=> x \in db \/ x \in HypothesesOf(run[w], k)
    BY <2>2, <2>3 DEF Plain
  <2>5. SameGated
    BY <1>1, <2>2, <2>3, GatedRows, HypothesesOfARun DEF Plain, SameGated
  <2>6. pc[w] = "llm" /\ ~ poisoned[w] /\ pc'[w] = "announce_hypotheses"
    BY <1>6 DEF LlmAnswered, Working, Goto, TypeOK
  <2> QED
    BY <2>1, <2>4, <2>5, <2>6 DEF StoresAnswer
<1>7. CASE ClassifyRaises(w) \/ StartGeneration(w) \/ StartUnchecked(w) \/ PlanRaises(w)
  BY <1>7 DEF ClassifyRaises, StartGeneration, StartUnchecked, Generating, PlanRaises, Flush,
     tables, answers, StoresNothing, SameHypotheses, SameGated
<1>8. CASE AutoValidate(w)
  BY <1>8, CommitPlain DEF AutoValidate, answers, StoresNothing
<1>9. CASE \/ SkipDuplicate(w) \/ GenerationDisabled(w) \/ LlmUnavailable(w) \/ PlanSkipped(w)
           \/ NoClusterToValidate(w)
           \/ Announce(w) \/ ReadQueue(w) \/ AutoValidateRaises(w) \/ DbFailure(w) \/ Finish(w)
  BY <1>9 DEF SkipDuplicate, GenerationDisabled, LlmUnavailable, PlanSkipped,
     NoClusterToValidate, Announce, ReadQueue, AutoValidateRaises, DbFailure, Finish, tables,
     answers, StoresNothing, SameHypotheses, SameGated
<1> QED
  BY <1>2, <1>3, <1>4, <1>5, <1>6, <1>7, <1>8, <1>9 DEF Step

-----------------------------------------------------------------------------
(***************************************************************************)
(* The invariant is inductive: what a step of a thread preserves.          *)
(***************************************************************************)
LEMMA Quarters ==
  ASSUME TypeOK, Handled, NEW w \in Workers, Step(w),
         NEW v \in Workers \ {w}, pc[v] # "idle"
  PROVE  run[v] # run[w]
BY StepFrame DEF Handled

LEMMA StepKeepsOtherAnswers ==
  ASSUME TypeOK, Handled, Waiting, NEW w \in Workers, Step(w),
         NEW r \in Runs, r # run[w]
  PROVE  /\ batch'[r] = batch[r]
         /\ GatedRow(r) \in db' <=> GatedRow(r) \in db
<1>1. CASE StoresNothing
  BY <1>1 DEF StoresNothing, SameGated
<1>2. CASE StoresGated(w)
  BY <1>2 DEF StoresGated
<1>3. CASE \E k \in 0 .. BatchMax : StoresAnswer(w, k)
  BY <1>3 DEF StoresAnswer, SameGated, TypeOK
<1> QED
  BY <1>1, <1>2, <1>3, StepStores

LEMMA StepUnchecked ==
  ASSUME NEW w \in Workers, Step(w)
  PROVE  unchecked \subseteq unchecked'
BY DEF Step, LoadConstraints, ClassifyCommit, ClassifyRaises, SkipDuplicate,
   GenerationDisabled, StartGeneration, StartUnchecked, LlmUnavailable, LlmGated, LlmAnswered,
   RouteCommit, PlanSkipped, PlanRaises, PlanCommit, Announce, NoClusterToValidate, ReadQueue,
   AutoValidate, AutoValidateRaises, DbFailure, Finish, answers

LEMMA StepHandled ==
  ASSUME TypeOK, Handled, NEW w \in Workers, Step(w) PROVE Handled'
<1>1. ASSUME NEW v \in Workers, pc'[v] # "idle"
      PROVE  run'[v] \in Runs /\ run'[v] < nextRun /\ owner[run'[v]] = v
  BY <1>1, StepFrame DEF Handled, OthersStay
<1> QED
  BY <1>1, StepFrame DEF Handled, history

LEMMA StepUnborn ==
  ASSUME TypeOK, Handled, Unborn, Waiting, NEW w \in Workers, Step(w) PROVE Unborn'
<1>1. run[w] < nextRun /\ nextRun' = nextRun
  BY StepFrame DEF Handled, history
<1>2. nextRun \in Nat /\ run[w] \in Nat
  <2>1. run[w] \in Runs
    BY StepFrame DEF Handled
  <2>2. nextRun \in Nat
    BY PipelineAssumption DEF TypeOK
  <2> QED
    BY <2>1, <2>2, RunsAreNumbers
<1>3. ASSUME NEW r \in Runs, r >= nextRun
      PROVE  Fresh(r)'
  <2>1. r # run[w]
    BY <1>1, <1>2, <1>3, RunsAreNumbers
  <2> QED
    BY <1>3, <2>1, StepKeepsOtherAnswers DEF Unborn, Fresh
<1> QED
  BY <1>1, <1>3 DEF Unborn

\* The labels before anything of a generation is stored.
Before == {"classify", "announce_classification", "dedup", "llm"}

LEMMA StepSources ==
  ASSUME TypeOK, NEW w \in Workers, Step(w), pc'[w] \in Before
  PROVE  pc[w] \in Before /\ pc[w] # "llm"
<1>1. CASE \/ LoadConstraints(w) \/ ClassifyCommit(w) \/ ClassifyRaises(w)
           \/ StartGeneration(w) \/ StartUnchecked(w)
  BY <1>1 DEF LoadConstraints, ClassifyCommit, ClassifyRaises, StartGeneration,
     StartUnchecked, Generating, Working, Before
<1>2. CASE SkipDuplicate(w) \/ GenerationDisabled(w) \/ LlmUnavailable(w)
  BY <1>2 DEF SkipDuplicate, GenerationDisabled, LlmUnavailable, AfterGeneration, Goto,
     TypeOK, Before
<1>3. CASE LlmGated(w) \/ LlmAnswered(w) \/ RouteCommit(w)
  BY <1>3 DEF LlmGated, LlmAnswered, RouteCommit, Goto, TypeOK, Before
<1>4. CASE PlanSkipped(w) \/ PlanRaises(w) \/ PlanCommit(w) \/ NoClusterToValidate(w)
  BY <1>4 DEF PlanSkipped, PlanRaises, PlanCommit, NoClusterToValidate, Goto, TypeOK, Before
<1>5. CASE ReadQueue(w) \/ AutoValidate(w) \/ AutoValidateRaises(w)
  BY <1>5 DEF ReadQueue, AutoValidate, AutoValidateRaises, Goto, TypeOK, Before
<1>6. CASE DbFailure(w) \/ Finish(w)
  BY <1>6 DEF DbFailure, Finish, Goto, TypeOK, Before
<1>7. CASE Announce(w)
  <2>1. pc'[w] = AfterAnnouncing(w)
    BY <1>7 DEF Announce, Goto, TypeOK
  <2>2. CASE pc[w] = "announce_classification"
    BY <2>2 DEF Before
  <2>3. CASE pc[w] = "announce_breach"
    BY <2>1, <2>3 DEF AfterAnnouncing, AfterGeneration, Before
  <2>4. CASE pc[w] = "announce_hypotheses"
    BY <2>1, <2>4 DEF AfterAnnouncing, AfterGeneration, Before
  <2>5. CASE pc[w] = "announce_routing" \/ pc[w] = "announce_planning"
    BY <2>1, <2>5 DEF AfterAnnouncing, Before
  <2> QED
    BY <1>7, <2>2, <2>3, <2>4, <2>5 DEF Announce, Announcing
<1> QED
  BY <1>1, <1>2, <1>3, <1>4, <1>5, <1>6, <1>7 DEF Step

LEMMA StepUnanswered ==
  ASSUME TypeOK, Handled, Unanswered, Waiting, NEW w \in Workers, Step(w)
  PROVE  Unanswered'
<1> SUFFICES ASSUME NEW v \in Workers, pc'[v] \in Before
             PROVE  Fresh(run[v])'
  BY DEF Unanswered, Before
<1>1. CASE v # w
  <2>1. pc'[v] = pc[v] /\ run'[v] = run[v] /\ pc[v] # "idle" /\ pc[v] \in Before
    BY <1>1, StepFrame DEF OthersStay, Before
  <2>2. run[v] \in Runs /\ run[v] # run[w]
    BY <1>1, <2>1, Quarters DEF Handled
  <2>3. batch'[run[v]] = batch[run[v]] /\ (GatedRow(run[v]) \in db' <=> GatedRow(run[v]) \in db)
    BY <2>2, StepKeepsOtherAnswers
  <2>4. Fresh(run[v])
    BY <2>1 DEF Unanswered, Before
  <2> QED
    BY <2>1, <2>3, <2>4 DEF Fresh
<1>2. CASE v = w
  <2>1. pc[w] \in Before /\ pc[w] # "llm" /\ run[w] \in Runs /\ run'[w] = run[w]
    BY <1>2, StepSources, StepFrame DEF Before, Handled
  <2>2. StoresNothing
    BY <2>1, StepStores DEF StoresGated, StoresAnswer
  <2> QED
    BY <1>2, <2>1, <2>2 DEF Unanswered, Before, Fresh, StoresNothing, SameGated
<1> QED
  BY <1>1, <1>2

\* A session that keeps what it held, takes in rows that may wait, or is empty.
LEMMA WaitingAfter ==
  ASSUME TypeOK, Waiting, NEW w \in Workers, NEW rows, Keepable(rows),
         \A v \in Workers \ {w} : tx'[v] = tx[v],
         tx'[w] \in {tx[w], tx[w] \cup rows, {}}
  PROVE  Waiting'
<1> SUFFICES ASSUME NEW v \in Workers, NEW x \in tx'[v]
             PROVE  Plain(x) /\ AuditOf(x) \in tx'[v]
  BY DEF Waiting, Plain
<1>1. CASE v # w
  BY <1>1 DEF Waiting
<1>2. CASE v = w
  BY <1>2 DEF Waiting, Keepable
<1> QED
  BY <1>1, <1>2

LEMMA StepWaiting ==
  ASSUME TypeOK, Handled, Waiting, NEW w \in Workers, Step(w)
  PROVE  Waiting'
<1>1. run[w] \in Runs /\ \A v \in Workers \ {w} : tx'[v] = tx[v]
  BY StepFrame DEF Handled, OthersStay
<1>2. ASSUME NEW rows, Keepable(rows), tx'[w] \in {tx[w], tx[w] \cup rows, {}}
      PROVE  Waiting'
  BY <1>1, <1>2, WaitingAfter
<1>3. Keepable({})
  BY DEF Keepable
<1>4. CASE ClassifyRaises(w)
  <2>1. PICK k \in 0 .. Constraints - 1 : Flush(w, ClassificationRows(run[w], k))
    BY <1>4 DEF ClassifyRaises
  <2>2. tx'[w] = tx[w] \cup ClassificationRows(run[w], k)
    BY <2>1 DEF Flush, TypeOK
  <2>3. Keepable(ClassificationRows(run[w], k))
    BY <1>1, ClassificationKeepable, PipelineAssumption
  <2> QED
    BY <1>2, <2>2, <2>3
<1>5. CASE StartGeneration(w) \/ StartUnchecked(w)
  <2>1. tx'[w] = tx[w] \cup {AuditRow(run[w], "hypothesis")}
    BY <1>5 DEF StartGeneration, StartUnchecked, Generating, Flush, TypeOK
  <2>2. Keepable({AuditRow(run[w], "hypothesis")})
    BY <1>1, AuditKeepable DEF Engines
  <2> QED
    BY <1>2, <2>1, <2>2
<1>6. CASE PlanRaises(w)
  <2>1. tx'[w] = tx[w] \cup {AuditRow(run[w], "planning")}
    BY <1>6 DEF PlanRaises, Flush, TypeOK
  <2>2. Keepable({AuditRow(run[w], "planning")})
    BY <1>1, AuditKeepable DEF Engines
  <2> QED
    BY <1>2, <2>1, <2>2
<1>7. CASE \/ LoadConstraints(w) \/ ClassifyCommit(w) \/ LlmGated(w) \/ LlmAnswered(w)
           \/ RouteCommit(w)
           \/ PlanCommit(w) \/ AutoValidate(w) \/ DbFailure(w) \/ Finish(w)
  <2>1. tx'[w] = {}
    BY <1>7 DEF LoadConstraints, ClassifyCommit, LlmGated, LlmAnswered, RouteCommit,
       PlanCommit, AutoValidate, DbFailure, Finish, Commit, CommitVerdicts, TypeOK
  <2> QED
    BY <1>2, <1>3, <2>1
<1>8. CASE \/ SkipDuplicate(w) \/ GenerationDisabled(w) \/ LlmUnavailable(w) \/ PlanSkipped(w)
           \/ Announce(w)
           \/ NoClusterToValidate(w) \/ ReadQueue(w) \/ AutoValidateRaises(w)
  <2>1. tx'[w] = tx[w]
    BY <1>8 DEF SkipDuplicate, GenerationDisabled, LlmUnavailable, PlanSkipped, Announce,
       NoClusterToValidate, ReadQueue, AutoValidateRaises, session
  <2> QED
    BY <1>2, <1>3, <2>1
<1> QED
  BY <1>4, <1>5, <1>6, <1>7, <1>8 DEF Step

\* The only way to the LLM is past the duplicate check.
LEMMA StepToLlm ==
  ASSUME TypeOK, NEW w \in Workers, Step(w), pc'[w] = "llm"
  PROVE  StartGeneration(w) \/ StartUnchecked(w)
<1>1. CASE \/ LoadConstraints(w) \/ ClassifyCommit(w) \/ ClassifyRaises(w) \/ SkipDuplicate(w)
           \/ GenerationDisabled(w) \/ LlmUnavailable(w)
  BY <1>1 DEF Working, LoadConstraints, ClassifyCommit, ClassifyRaises, SkipDuplicate,
     GenerationDisabled, LlmUnavailable, Goto, TypeOK, AfterClassification, AfterGeneration
<1>2. CASE LlmGated(w) \/ LlmAnswered(w) \/ RouteCommit(w)
  BY <1>2 DEF LlmGated, LlmAnswered, RouteCommit, Goto, TypeOK
<1>3. CASE PlanSkipped(w) \/ PlanRaises(w) \/ PlanCommit(w) \/ NoClusterToValidate(w)
  BY <1>3 DEF PlanSkipped, PlanRaises, PlanCommit, NoClusterToValidate, Goto, TypeOK
<1>4. CASE ReadQueue(w) \/ AutoValidate(w) \/ AutoValidateRaises(w)
  BY <1>4 DEF ReadQueue, AutoValidate, AutoValidateRaises, Goto, TypeOK
<1>5. CASE DbFailure(w) \/ Finish(w)
  BY <1>5 DEF DbFailure, Finish, Goto, TypeOK
<1>6. CASE Announce(w)
  <2>1. pc'[w] = AfterAnnouncing(w) /\ pc[w] \in Announcing
    BY <1>6 DEF Announce, Goto, TypeOK
  <2> QED
    BY <2>1, LabelAfterAnnouncing
<1> QED
  BY <1>1, <1>2, <1>3, <1>4, <1>5, <1>6 DEF Step

LEMMA StepAudited ==
  ASSUME TypeOK, Handled, Audited, NEW w \in Workers, Step(w)
  PROVE  Audited'
<1> SUFFICES ASSUME NEW v \in Workers, pc'[v] = "llm", ~ poisoned'[v]
             PROVE  AuditRow(run'[v], "hypothesis") \in tx'[v]
  BY DEF Audited
<1>1. CASE v # w
  <2>1. /\ pc'[v] = pc[v] /\ run'[v] = run[v]
        /\ tx'[v] = tx[v] /\ poisoned'[v] = poisoned[v]
    BY <1>1, StepFrame DEF OthersStay
  <2> QED
    BY <2>1 DEF Audited
<1>2. CASE v = w
  <2>1. Generating(w) /\ run'[w] = run[w]
    BY <1>2, StepToLlm, StepFrame DEF StartGeneration, StartUnchecked
  <2>2. tx'[w] = tx[w] \cup {AuditRow(run[w], "hypothesis")}
    BY <2>1 DEF Generating, Flush, TypeOK
  <2> QED
    BY <1>2, <2>1, <2>2
<1> QED
  BY <1>1, <1>2

\* A commit of rows whose audit events are stored, waiting or among them.
LEMMA CommitReferenced ==
  ASSUME Waiting, Referenced, NEW w \in Workers, NEW rows, NEW verdicts,
         CommitVerdicts(w, rows, verdicts),
         \A x \in rows : AuditOf(x) \in rows \/ AuditOf(x) \in tx[w]
  PROVE  Referenced'
<1>1. db' = db \cup tx[w] \cup rows
  BY DEF CommitVerdicts
<1>2. \A x \in db' : AuditOf(x) \in db'
  BY <1>1 DEF Waiting, Referenced
<1> QED
  BY <1>2 DEF Referenced

LEMMA StepReferenced ==
  ASSUME TypeOK, Handled, Waiting, Audited, Referenced, NEW w \in Workers, Step(w)
  PROVE  Referenced'
<1>1. run[w] \in Runs
  BY StepFrame DEF Handled
<1>2. CASE ClassifyCommit(w)
  <2>1. Keepable(ClassificationRows(run[w], Constraints))
    BY <1>1, ClassificationKeepable, PipelineAssumption
  <2> QED
    BY <1>2, <2>1, CommitReferenced DEF ClassifyCommit, Commit, Keepable
<1>3. CASE LoadConstraints(w)
  <2>1. Keepable({AuditRow(run[w], "classification")})
    BY <1>1, AuditKeepable DEF Engines
  <2> QED
    BY <1>3, <2>1, CommitReferenced DEF LoadConstraints, Commit, Keepable
<1>4. CASE RouteCommit(w) \/ PlanCommit(w)
  <2>1. \A e \in {"routing", "planning"} : Keepable(EngineRows(run[w], e))
    BY <1>1, EngineKeepable
  <2> QED
    BY <1>4, <2>1, CommitReferenced DEF RouteCommit, PlanCommit, Commit, Keepable
<1>5. CASE LlmGated(w)
  <2> DEFINE rows == {GatedRow(run[w])}
  <2>1. \A x \in rows : AuditOf(x) \in rows
    BY <1>1, GatedRows
  <2>2. CommitVerdicts(w, rows, ruled[w])
    BY <1>5 DEF LlmGated, Commit
  <2> HIDE DEF rows
  <2> QED
    BY <2>1, <2>2, CommitReferenced
<1>6. CASE LlmAnswered(w)
  <2>1. PICK k \in 0 .. BatchMax : Commit(w, HypothesesOf(run[w], k))
    BY <1>6 DEF LlmAnswered
  <2>2. \A x \in HypothesesOf(run[w], k) : AuditOf(x) = AuditRow(run[w], "hypothesis")
    BY <1>1, HypothesesOfARun, HypothesisRows
  <2>3. AuditRow(run[w], "hypothesis") \in tx[w]
    BY <1>6 DEF LlmAnswered, Working, Audited
  <2> QED
    BY <2>1, <2>2, <2>3, CommitReferenced DEF Commit
<1>7. CASE AutoValidate(w)
  BY <1>7, CommitReferenced DEF AutoValidate
<1>8. CASE \/ ClassifyRaises(w) \/ StartGeneration(w) \/ StartUnchecked(w) \/ PlanRaises(w)
           \/ SkipDuplicate(w) \/ GenerationDisabled(w) \/ LlmUnavailable(w) \/ PlanSkipped(w)
           \/ Announce(w)
           \/ NoClusterToValidate(w) \/ ReadQueue(w) \/ AutoValidateRaises(w)
           \/ DbFailure(w) \/ Finish(w)
  <2>1. db' = db
    BY <1>8 DEF ClassifyRaises, StartGeneration, StartUnchecked, Generating, PlanRaises,
       Flush, SkipDuplicate, GenerationDisabled, LlmUnavailable, PlanSkipped, Announce,
       NoClusterToValidate, ReadQueue, AutoValidateRaises, DbFailure, Finish, tables
  <2> QED
    BY <2>1 DEF Referenced
<1> QED
  BY <1>2, <1>3, <1>4, <1>5, <1>6, <1>7, <1>8 DEF Step

LEMMA StepStored ==
  ASSUME TypeOK, Handled, Waiting, Unanswered, Stored, NEW w \in Workers, Step(w)
  PROVE  Stored'
<1>1. run[w] \in Runs
  BY StepFrame DEF Handled
<1>2. CASE StoresNothing \/ StoresGated(w)
  BY <1>2 DEF StoresNothing, StoresGated, SameHypotheses, Stored
<1>3. ASSUME NEW k \in 0 .. BatchMax, StoresAnswer(w, k)
      PROVE  Stored'
  <2> SUFFICES ASSUME NEW x \in Hypotheses
               PROVE  x \in db' <=> x.n <= batch'[x.run]
    BY DEF Stored
  <2>1. x.run \in Runs /\ x.n \in Nat /\ x.n >= 1
    BY HypothesisRows, PipelineAssumption
  <2>2. x \in db' <=> x \in db \/ (x.run = run[w] /\ x.n <= k)
    BY <1>1, <1>3, HypothesesOfARun DEF StoresAnswer
  <2>3. CASE x.run # run[w]
    <3>1. batch'[x.run] = batch[x.run]
      BY <1>3, <2>1, <2>3 DEF StoresAnswer, TypeOK
    <3> QED
      BY <2>2, <2>3, <3>1 DEF Stored
  <2>4. CASE x.run = run[w]
    <3>1. batch'[x.run] = k
      BY <1>1, <1>3, <2>4 DEF StoresAnswer, TypeOK
    <3>2. batch[x.run] = 0
      BY <1>3, <2>4 DEF StoresAnswer, Unanswered, Fresh
    <3>3. x \notin db
      BY <2>1, <3>2 DEF Stored
    <3> QED
      BY <2>2, <2>4, <3>1, <3>3
  <2> QED
    BY <2>3, <2>4
<1> QED
  BY <1>2, <1>3, StepStores

LEMMA StepGatedEmpty ==
  ASSUME TypeOK, Handled, Waiting, Unanswered, GatedEmpty, NEW w \in Workers, Step(w)
  PROVE  GatedEmpty'
<1> SUFFICES ASSUME NEW r \in Runs, GatedRow(r) \in db'
             PROVE  batch'[r] = 0
  BY DEF GatedEmpty
<1>1. CASE r # run[w]
  BY <1>1, StepKeepsOtherAnswers DEF GatedEmpty
<1>2. CASE r = run[w]
  <2>1. CASE StoresNothing
    BY <2>1 DEF StoresNothing, SameGated, GatedEmpty
  <2>2. CASE StoresGated(w)
    BY <1>2, <2>2 DEF StoresGated, Unanswered, Fresh
  <2>3. ASSUME NEW k \in 0 .. BatchMax, StoresAnswer(w, k)
        PROVE  FALSE
    BY <1>2, <2>3 DEF StoresAnswer, SameGated, Unanswered, Fresh
  <2> QED
    BY <2>1, <2>2, <2>3, StepStores
<1> QED
  BY <1>1, <1>2

LEMMA StepJudgeable ==
  ASSUME TypeOK, Judgeable, NEW w \in Workers, Step(w)
  PROVE  Judgeable'
<1>1. /\ OthersStay(w) /\ db \subseteq db'
      /\ queue[w] \subseteq db /\ \A x \in Hypotheses : ruled[w][x] # Pending => x \in db
  BY StepFrame DEF Judgeable
<1>2. queue'[w] \subseteq db
  <2>1. CASE ReadQueue(w)
    BY <2>1 DEF ReadQueue, HypothesisQueue, PendingFor, TypeOK
  <2>2. CASE AutoValidate(w) \/ AutoValidateRaises(w) \/ DbFailure(w)
    BY <2>2 DEF AutoValidate, AutoValidateRaises, DbFailure, TypeOK
  <2>3. CASE ~ (ReadQueue(w) \/ AutoValidate(w) \/ AutoValidateRaises(w) \/ DbFailure(w))
    <3>1. queue' = queue
      BY <2>3 DEF Step, LoadConstraints, ClassifyCommit, ClassifyRaises, SkipDuplicate,
         GenerationDisabled, StartGeneration, StartUnchecked, Generating, LlmUnavailable,
         LlmGated, LlmAnswered, RouteCommit, PlanSkipped, PlanRaises, PlanCommit, Announce,
         NoClusterToValidate, Finish
    <3> QED
      BY <1>1, <3>1
  <2> QED
    BY <2>1, <2>2, <2>3
<1>3. ASSUME NEW x \in Hypotheses, ruled'[w][x] # Pending
      PROVE  x \in db
  <2>1. CASE AutoValidateRaises(w)
    <3>1. PICK judged \in SUBSET queue[w] :
            \E verdict \in [judged -> RuleVerdicts] :
              ruled' = [ruled EXCEPT ![w] = Judging(w, judged, verdict)]
      BY <2>1 DEF AutoValidateRaises
    <3>2. PICK verdict \in [judged -> RuleVerdicts] : ruled'[w] = Judging(w, judged, verdict)
      BY <3>1 DEF TypeOK
    <3>3. CASE x \in judged
      BY <1>1, <3>3
    <3>4. CASE x \notin judged
      BY <1>1, <1>3, <3>2, <3>4 DEF Judging
    <3> QED
      BY <3>3, <3>4
  <2>2. CASE \/ LoadConstraints(w) \/ ClassifyCommit(w) \/ LlmGated(w) \/ LlmAnswered(w)
             \/ RouteCommit(w)
             \/ PlanCommit(w) \/ AutoValidate(w) \/ DbFailure(w) \/ Finish(w)
    <3>1. ruled' = [ruled EXCEPT ![w] = NoVerdicts]
      BY <2>2 DEF LoadConstraints, ClassifyCommit, LlmGated, LlmAnswered, RouteCommit,
         PlanCommit, AutoValidate, DbFailure, Finish, Commit, CommitVerdicts
    <3>2. ruled'[w] = NoVerdicts
      BY <3>1 DEF TypeOK
    <3> QED
      BY <1>3, <3>2 DEF NoVerdicts
  <2>3. CASE \/ ClassifyRaises(w) \/ StartGeneration(w) \/ StartUnchecked(w) \/ PlanRaises(w)
             \/ SkipDuplicate(w) \/ GenerationDisabled(w) \/ LlmUnavailable(w)
             \/ PlanSkipped(w) \/ Announce(w)
             \/ NoClusterToValidate(w) \/ ReadQueue(w)
    <3>1. ruled' = ruled
      BY <2>3 DEF ClassifyRaises, StartGeneration, StartUnchecked, Generating, PlanRaises,
         Flush, SkipDuplicate, GenerationDisabled, LlmUnavailable, PlanSkipped, Announce,
         NoClusterToValidate, ReadQueue, session
    <3> QED
      BY <1>1, <1>3, <3>1
  <2> QED
    BY <2>1, <2>2, <2>3 DEF Step
<1>4. ASSUME NEW v \in Workers
      PROVE  queue'[v] \subseteq db' /\ \A x \in Hypotheses : ruled'[v][x] # Pending => x \in db'
  <2>1. CASE v = w
    BY <1>1, <1>2, <1>3, <2>1
  <2>2. CASE v # w
    BY <1>1, <2>2 DEF OthersStay, Judgeable
  <2> QED
    BY <2>1, <2>2
<1> QED
  BY <1>4 DEF Judgeable

\* What is announced depends on the thread, its run and its run's answer.
LEMMA AnnouncedByOthers ==
  ASSUME TypeOK, Handled, Waiting, Visible, NEW w \in Workers, Step(w),
         NEW v \in Workers \ {w}, pc'[v] \in Announcing
  PROVE  Announced(v)' \subseteq db'
<1>1. pc'[v] = pc[v] /\ run'[v] = run[v] /\ db \subseteq db'
  BY StepFrame DEF OthersStay
<1>2. pc[v] # "idle"
  BY <1>1 DEF Announcing
<1>3. batch'[run[v]] = batch[run[v]]
  BY <1>2, Quarters, StepKeepsOtherAnswers DEF Handled
<1>4. Announced(v)' = Announced(v)
  BY <1>1, <1>3 DEF Announced
<1> QED
  BY <1>1, <1>4 DEF Visible

LEMMA StepVisible ==
  ASSUME TypeOK, Handled, Waiting, Visible, NEW w \in Workers, Step(w)
  PROVE  Visible'
<1> SUFFICES ASSUME pc'[w] \in Announcing
             PROVE  Announced(w)' \subseteq db'
  BY AnnouncedByOthers DEF Visible
<1>1. run[w] \in Runs /\ run'[w] = run[w]
  BY StepFrame DEF Handled, Announcing
<1>2. CASE ClassifyCommit(w)
  <2>1. /\ pc'[w] = "announce_classification"
        /\ ClassificationRows(run[w], Constraints) \subseteq db'
    BY <1>2 DEF ClassifyCommit, Goto, Commit, CommitVerdicts, TypeOK
  <2> QED
    BY <1>1, <2>1 DEF Announced, ClassificationRows
<1>3. CASE LoadConstraints(w)
  BY <1>3 DEF LoadConstraints, Working, Announcing
<1>4. CASE LlmGated(w)
  <2>1. pc'[w] = "announce_breach" /\ {GatedRow(run[w])} \subseteq db'
    BY <1>4 DEF LlmGated, Goto, Commit, CommitVerdicts, TypeOK
  <2> QED
    BY <1>1, <2>1 DEF Announced
<1>5. CASE LlmAnswered(w)
  <2>1. PICK k \in 0 .. BatchMax :
          Commit(w, HypothesesOf(run[w], k)) /\ batch' = [batch EXCEPT ![run[w]] = k]
    BY <1>5 DEF LlmAnswered
  <2>2. pc'[w] = "announce_hypotheses" /\ batch'[run[w]] = k
    BY <1>1, <1>5, <2>1 DEF LlmAnswered, Goto, TypeOK
  <2>3. HypothesesOf(run[w], k) \subseteq db'
    BY <2>1 DEF Commit, CommitVerdicts
  <2> QED
    BY <1>1, <2>2, <2>3 DEF Announced
<1>6. CASE RouteCommit(w)
  <2>1. pc'[w] = "announce_routing" /\ EngineRows(run[w], "routing") \subseteq db'
    BY <1>6 DEF RouteCommit, Goto, Commit, CommitVerdicts, TypeOK
  <2> QED
    BY <1>1, <2>1 DEF Announced, EngineRows
<1>7. CASE PlanCommit(w)
  <2>1. pc'[w] = "announce_planning" /\ EngineRows(run[w], "planning") \subseteq db'
    BY <1>7 DEF PlanCommit, Goto, Commit, CommitVerdicts, TypeOK
  <2> QED
    BY <1>1, <2>1 DEF Announced, EngineRows
<1>8. CASE ClassifyRaises(w) \/ SkipDuplicate(w) \/ GenerationDisabled(w) \/ LlmUnavailable(w)
  BY <1>8 DEF ClassifyRaises, SkipDuplicate, GenerationDisabled, LlmUnavailable,
     AfterClassification, AfterGeneration, Goto, TypeOK, Announcing
<1>9. CASE StartGeneration(w) \/ StartUnchecked(w) \/ PlanSkipped(w) \/ PlanRaises(w)
  BY <1>9 DEF StartGeneration, StartUnchecked, Generating, PlanSkipped, PlanRaises,
     Goto, TypeOK, Announcing
<1>10. CASE Announce(w)
  <2>1. pc'[w] = AfterAnnouncing(w) /\ pc[w] \in Announcing
    BY <1>10 DEF Announce, Goto, TypeOK
  <2>2. pc'[w] \in {"dedup", "queue", "end", "route", "plan"}
    BY <2>1, LabelAfterAnnouncing
  <2> QED
    BY <2>2 DEF Announcing
<1>11. CASE \/ NoClusterToValidate(w) \/ ReadQueue(w) \/ AutoValidate(w)
            \/ AutoValidateRaises(w) \/ DbFailure(w) \/ Finish(w)
  BY <1>11 DEF NoClusterToValidate, ReadQueue, AutoValidate, AutoValidateRaises, DbFailure,
     Finish, Goto, TypeOK, Announcing
<1> QED
  BY <1>2, <1>3, <1>4, <1>5, <1>6, <1>7, <1>8, <1>9, <1>10, <1>11 DEF Step

\* A run that has an answer has a hypothesis stored.
LEMMA AnsweredIsStored ==
  ASSUME TypeOK, Stored, NEW r \in Runs, batch[r] # 0
  PROVE  \E x \in db \cap Hypotheses : x.run = r
<1> DEFINE x == ResultRow(r, "hypothesis", 1)
<1>1. x \in HypothesesOf(r, BatchMax)
  BY PipelineAssumption DEF HypothesesOf
<1>2. x \in Hypotheses /\ x.run = r /\ x.n = 1
  BY <1>1 DEF Hypotheses, ResultRow
<1>3. batch[r] \in Nat /\ batch[r] >= 1
  BY PipelineAssumption DEF TypeOK
<1>4. x \in db
  BY <1>2, <1>3 DEF Stored
<1> QED
  BY <1>2, <1>4

LEMMA StepUnrepeated ==
  ASSUME TypeOK, Handled, Waiting, Stored, Unrepeated, NEW w \in Workers, Step(w)
  PROVE  Unrepeated'
<1>1. UNCHANGED history /\ unchecked \subseteq unchecked'
  BY StepFrame, StepUnchecked
<1> SUFFICES ASSUME NEW v \in Workers, pc'[v] = "llm", run'[v] \notin unchecked',
                    key[run'[v]] \notin Anonymous,
                    NEW r \in Runs, owner[r] = v, key[r] = key[run'[v]]
             PROVE  batch'[r] = 0
  BY <1>1 DEF Unrepeated, history
<1>2. CASE v # w
  <2>1. pc[v] = "llm" /\ run'[v] = run[v] /\ owner[run[w]] = w
    BY <1>2, StepFrame DEF OthersStay, Handled
  <2>2. batch[r] = 0
    BY <1>1, <2>1 DEF Unrepeated
  <2> QED
    BY <1>2, <2>1, <2>2, StepKeepsOtherAnswers
<1>3. CASE v = w
  <2>1. StartGeneration(w) \/ StartUnchecked(w)
    BY <1>3, StepToLlm
  <2>2. run'[w] = run[w] /\ batch' = batch
    BY <1>3, <2>1, StepFrame DEF StartGeneration, StartUnchecked, Generating
  <2>3. StartGeneration(w)
    BY <1>3, <2>1, <2>2 DEF StartUnchecked
  <2>4. ~ HasRecentHypothesis(w)
    BY <1>3, <2>2, <2>3 DEF StartGeneration, Named
  <2>5. ASSUME batch[r] # 0
        PROVE  FALSE
    <3>1. PICK x \in db \cap Hypotheses : x.run = r
      BY <2>5, AnsweredIsStored
    <3> QED
      BY <1>3, <2>2, <2>4, <3>1 DEF HasRecentHypothesis
  <2> QED
    BY <2>2, <2>5
<1> QED
  BY <1>2, <1>3

LEMMA StepNoRepeat ==
  ASSUME TypeOK, Handled, Waiting, Unrepeated, NoRepeat, NEW w \in Workers, Step(w)
  PROVE  NoRepeat'
<1>1. UNCHANGED history /\ unchecked \subseteq unchecked' /\ owner[run[w]] = w /\ run[w] \in Runs
  BY StepFrame, StepUnchecked DEF Handled
<1>2. CASE StoresNothing \/ StoresGated(w)
  BY <1>1, <1>2 DEF StoresNothing, StoresGated, NoRepeat, history
<1>3. ASSUME NEW k \in 0 .. BatchMax, StoresAnswer(w, k)
      PROVE  NoRepeat'
  <2>1. ASSUME NEW s \in Runs \ unchecked, s # run[w], run[w] \notin unchecked,
               batch[s] # 0, key[s] = key[run[w]], key[s] \notin Anonymous
        PROVE  owner[s] # w
    BY <1>1, <1>3, <2>1 DEF StoresAnswer, Unrepeated
  <2>2. \A r \in Runs : r # run[w] => batch'[r] = batch[r]
    BY StepKeepsOtherAnswers
  <2> SUFFICES ASSUME NEW r \in Runs \ unchecked, NEW s \in Runs \ unchecked, r # s,
                      batch'[r] # 0, batch'[s] # 0, key[r] = key[s], key[r] \notin Anonymous
               PROVE  owner[r] # owner[s]
    BY <1>1 DEF NoRepeat, history
  <2>3. CASE r = run[w]
    BY <1>1, <2>1, <2>2, <2>3
  <2>4. CASE s = run[w]
    BY <1>1, <2>1, <2>2, <2>4
  <2>5. CASE r # run[w] /\ s # run[w]
    BY <2>2, <2>5 DEF NoRepeat
  <2> QED
    BY <2>3, <2>4, <2>5
<1> QED
  BY <1>2, <1>3, StepStores

LEMMA StepInvariant == ASSUME IInv, NEW w \in Workers, Step(w) PROVE IInv'
BY StepTyping, StepHandled, StepUnborn, StepUnanswered, StepWaiting, StepAudited,
   StepReferenced, StepStored, StepGatedEmpty, StepJudgeable, StepVisible, StepUnrepeated,
   StepNoRepeat DEF IInv

-----------------------------------------------------------------------------
(***************************************************************************)
(* The invariant is inductive: arrivals, the operator, and crashes.        *)
(***************************************************************************)
LEMMA BeginInvariant ==
  ASSUME IInv, NEW w \in Workers, pc[w] \in {"idle", "end"}, NEW k \in Keys,
         NEW failing \in BOOLEAN, NEW generation \in BOOLEAN, Begin(w, k, failing, generation)
  PROVE  IInv'
<1>1. TypeOK /\ TypeOK'
  BY BeginTyping DEF IInv
<1>2. UNCHANGED <<batch, born, unchecked, db, outcome, tx, ruled, poisoned, queue>>
  BY DEF Begin, answers, tables, session
<1>3. /\ nextRun \in Runs /\ nextRun' = nextRun + 1 /\ nextRun \in Nat
      /\ pc'[w] \in {"dedup", "classify"} /\ run'[w] = nextRun
      /\ owner'[nextRun] = w
  BY <1>1, RunsAreNumbers DEF Begin, Goto, TypeOK
<1>4. \A v \in Workers \ {w} : pc'[v] = pc[v] /\ run'[v] = run[v]
  BY <1>1 DEF Begin, Goto, TypeOK
<1>5. \A r \in Runs : r # nextRun => key'[r] = key[r] /\ owner'[r] = owner[r]
  BY <1>1 DEF Begin, TypeOK
<1>6. \A v \in Workers : pc[v] # "idle" =>
        run[v] \in Runs /\ run[v] # nextRun /\ run[v] < nextRun /\ owner[run[v]] = v
  BY <1>3, RunsAreNumbers DEF IInv, Handled
<1>7. Fresh(nextRun)
  BY <1>3 DEF IInv, Unborn
<1>8. Handled'
  <2>1. ASSUME NEW v \in Workers, pc'[v] # "idle"
        PROVE  run'[v] \in Runs /\ run'[v] < nextRun' /\ owner'[run'[v]] = v
    <3>1. CASE v = w
      BY <1>3, <3>1
    <3>2. CASE v # w
      <4>1. run'[v] = run[v] /\ run[v] \in Runs /\ run[v] # nextRun /\ run[v] < nextRun
        BY <1>4, <1>6, <2>1, <3>2
      <4>2. owner'[run[v]] = v
        BY <1>4, <1>5, <1>6, <2>1, <3>2
      <4>3. run[v] \in Nat
        BY <4>1, RunsAreNumbers
      <4>4. run[v] < nextRun'
        BY <1>3, <4>1, <4>3
      <4> QED
        BY <4>1, <4>2, <4>4
    <3> QED
      BY <3>1, <3>2
  <2> QED
    BY <2>1 DEF Handled
<1>9. Unborn'
  <2>1. \A r \in Runs : r >= nextRun' => r >= nextRun
    BY <1>3, RunsAreNumbers
  <2> QED
    BY <1>2, <2>1 DEF IInv, Unborn, Fresh
<1>10. Unanswered'
  <2> SUFFICES ASSUME NEW v \in Workers, pc'[v] \in Before
               PROVE  Fresh(run[v])'
    BY DEF Unanswered, Before
  <2>1. CASE v = w
    BY <1>2, <1>3, <1>7, <2>1 DEF Fresh
  <2>2. CASE v # w
    BY <1>2, <1>4, <2>2 DEF IInv, Unanswered, Before, Fresh
  <2> QED
    BY <2>1, <2>2
<1>11. Waiting' /\ Referenced' /\ Stored' /\ GatedEmpty' /\ Judgeable'
  BY <1>2 DEF IInv, Waiting, Plain, Referenced, Stored, GatedEmpty, Judgeable
<1>12. Audited'
  <2> SUFFICES ASSUME NEW v \in Workers, pc'[v] = "llm", ~ poisoned'[v]
               PROVE  AuditRow(run'[v], "hypothesis") \in tx'[v]
    BY DEF Audited
  <2>1. v # w
    BY <1>3
  <2> QED
    BY <1>2, <1>4, <2>1 DEF IInv, Audited
<1>13. Visible'
  <2> SUFFICES ASSUME NEW v \in Workers, pc'[v] \in Announcing
               PROVE  Announced(v)' \subseteq db'
    BY DEF Visible
  <2>1. v # w
    BY <1>3 DEF Announcing
  <2>2. pc'[v] = pc[v] /\ run'[v] = run[v]
    BY <1>4, <2>1
  <2>3. Announced(v)' = Announced(v)
    BY <1>2, <2>2 DEF Announced
  <2> QED
    BY <1>2, <2>2, <2>3 DEF IInv, Visible
<1>14. Unrepeated'
  <2> SUFFICES ASSUME NEW v \in Workers, pc'[v] = "llm", run'[v] \notin unchecked',
                      key'[run'[v]] \notin Anonymous,
                      NEW r \in Runs, owner'[r] = v, key'[r] = key'[run'[v]]
               PROVE  batch'[r] = 0
    BY DEF Unrepeated
  <2>1. v # w /\ r # nextRun
    BY <1>3
  <2>2. pc[v] = "llm" /\ run'[v] = run[v] /\ run[v] \in Runs /\ run[v] # nextRun
    BY <1>4, <1>6, <2>1
  <2>3. key'[r] = key[r] /\ owner'[r] = owner[r] /\ key'[run[v]] = key[run[v]]
    BY <1>5, <2>1, <2>2
  <2> QED
    BY <1>2, <2>2, <2>3 DEF IInv, Unrepeated
<1>15. NoRepeat'
  <2> SUFFICES ASSUME NEW r \in Runs \ unchecked, NEW s \in Runs \ unchecked, r # s,
                      batch[r] # 0, batch[s] # 0, key'[r] = key'[s], key'[r] \notin Anonymous
               PROVE  owner'[r] # owner'[s]
    BY <1>2 DEF NoRepeat
  <2>1. r # nextRun /\ s # nextRun
    BY <1>7 DEF Fresh
  <2> QED
    BY <1>5, <2>1 DEF IInv, NoRepeat
<1> QED
  BY <1>1, <1>8, <1>9, <1>10, <1>11, <1>12, <1>13, <1>14, <1>15 DEF IInv

\* A step beside the pipeline: it may change verdicts, and nothing else.
LEMMA AsideInvariant ==
  ASSUME IInv, TypeOK',
         UNCHANGED <<nextRun, key, owner, batch, born, unchecked, db, pc, run, tx, ruled,
                     poisoned, queue>>
  PROVE  IInv'
<1>1. Handled' /\ Unborn' /\ Unanswered'
  BY DEF IInv, Handled, Unborn, Unanswered, Fresh
<1>2. Waiting' /\ Audited' /\ Referenced' /\ Stored' /\ GatedEmpty' /\ Judgeable'
  BY DEF IInv, Waiting, Plain, Audited, Referenced, Stored, GatedEmpty, Judgeable
<1>3. Visible'
  <2>1. \A w \in Workers : Announced(w)' = Announced(w)
    BY DEF Announced
  <2> QED
    BY <2>1 DEF IInv, Visible
<1>4. Unrepeated' /\ NoRepeat'
  BY DEF IInv, Unrepeated, NoRepeat
<1> QED
  BY <1>1, <1>2, <1>3, <1>4 DEF IInv

LEMMA OperatorInvariant == ASSUME IInv, Operator PROVE IInv'
<1>1. TypeOK'
  BY NextTyping DEF IInv, Next
<1>2. PICK x \in Hypotheses, verdict \in Verdicts : OperatorValidates(x, verdict)
  BY DEF Operator
<1>3. UNCHANGED <<nextRun, key, owner, batch, born, unchecked, db, pc, run, tx, ruled, poisoned,
                  queue>>
  BY <1>2 DEF OperatorValidates, history, answers, request, session
<1> QED
  BY <1>1, <1>3, AsideInvariant

LEMMA CrashInvariant == ASSUME IInv, Crash PROVE IInv'
<1>1. TypeOK'
  BY NextTyping DEF IInv, Next
<1>2. UNCHANGED <<nextRun, key, owner, batch, born, unchecked, db, outcome>>
  BY DEF Crash, history, answers, tables
<1>3. Unborn' /\ Referenced' /\ Stored' /\ GatedEmpty' /\ NoRepeat'
  BY <1>2 DEF IInv, Unborn, Fresh, Referenced, Stored, GatedEmpty, NoRepeat
<1>4. \A w \in Workers :
        pc'[w] = "idle" /\ tx'[w] = {} /\ queue'[w] = {} /\ ruled'[w] = NoVerdicts
  BY DEF Crash
<1>5. Handled' /\ Unanswered' /\ Waiting' /\ Audited' /\ Visible' /\ Unrepeated'
  BY <1>4 DEF Handled, Unanswered, Waiting, Audited, Visible, Announcing, Unrepeated
<1>6. Judgeable'
  BY <1>4 DEF Judgeable, NoVerdicts
<1> QED
  BY <1>1, <1>3, <1>5, <1>6 DEF IInv

LEMMA StutterInvariant == ASSUME IInv, UNCHANGED vars PROVE IInv'
<1>1. TypeOK'
  BY NextTyping DEF IInv
<1>2. UNCHANGED <<nextRun, key, owner, batch, born, unchecked, db, pc, run, tx, ruled, poisoned,
                  queue>>
  BY DEF vars, history, answers, tables, session, request
<1> QED
  BY <1>1, <1>2, AsideInvariant

LEMMA NextInvariant == IInv /\ [Next]_vars => IInv'
<1> SUFFICES ASSUME IInv, [Next]_vars
             PROVE  IInv'
  OBVIOUS
<1>1. ASSUME NEW w \in Workers, Step(w)
      PROVE  IInv'
  BY <1>1, StepInvariant
<1>2. ASSUME NEW w \in Workers, NEW k \in Keys, Arrival(w, k)
      PROVE  IInv'
  BY <1>2, ArrivalBegins, BeginInvariant
<1> QED
  BY <1>1, <1>2, OperatorInvariant, CrashInvariant, StutterInvariant DEF Next

LEMMA InitInvariant == Init => IInv
<1> SUFFICES ASSUME Init
             PROVE  IInv
  OBVIOUS
<1>1. TypeOK
  BY InitTyping
<1>2. Handled /\ Unanswered /\ Audited /\ Visible /\ Unrepeated
  BY DEF Init, Handled, Unanswered, Audited, Visible, Announcing, Unrepeated
<1>3. Unborn /\ GatedEmpty /\ NoRepeat /\ Waiting /\ Referenced
  BY DEF Init, Unborn, Fresh, GatedEmpty, NoRepeat, Waiting, Referenced
<1>4. Stored
  <2>1. \A x \in Hypotheses : x.n \in Nat /\ x.n >= 1 /\ batch[x.run] = 0
    BY HypothesisRows, PipelineAssumption DEF Init
  <2> QED
    BY <2>1 DEF Init, Stored
<1>5. Judgeable
  BY DEF Init, Judgeable, NoVerdicts
<1> QED
  BY <1>1, <1>2, <1>3, <1>4, <1>5 DEF IInv

-----------------------------------------------------------------------------
(***************************************************************************)
(* What follows for every behaviour.                                       *)
(***************************************************************************)
\* The inductive invariant holds always: a session never holds a hypothesis or
\* the record of a gated generation, a run's hypotheses are stored together,
\* and what a thread announces, judges or cites to the LLM is where it belongs.
THEOREM Invariance == Spec => []IInv
BY InitInvariant, NextInvariant, PTL DEF Spec

\* Every variable of the pipeline keeps its type, for every number of threads,
\* keys, constraints, hypotheses per answer and requests.
THEOREM Typing == Spec => []TypeOK
<1>1. IInv => TypeOK
  BY DEF IInv
<1> QED
  BY <1>1, Invariance, PTL

LEMMA AnswerIsBatch ==
  ASSUME IInv, NEW r \in Runs
  PROVE  HasAnswer(r) => batch[r] # 0
<1> SUFFICES ASSUME NEW x \in db \cap HypothesesOf(r, BatchMax)
             PROVE  batch[r] # 0
  BY DEF HasAnswer
<1>1. x \in Hypotheses /\ x.run = r
  BY HypothesesOfARun, PipelineAssumption
<1>2. x.n \in Nat /\ x.n >= 1 /\ x.n <= batch[r]
  BY <1>1, HypothesisRows, PipelineAssumption DEF IInv, Stored
<1> QED
  BY <1>2

\* The duplicate check, a read long before the insert it guards, keeps every
\* thread from repeating itself.
THEOREM NoRepetition == Spec => []NoSelfDuplicate
<1>1. IInv => NoSelfDuplicate
  BY AnswerIsBatch DEF IInv, NoRepeat, NoSelfDuplicate
<1> QED
  BY <1>1, Invariance, PTL

\* A generation stored as gated never has hypotheses.
THEOREM Gating == Spec => []GateExcludes
<1>1. IInv => GateExcludes
  BY AnswerIsBatch DEF IInv, GatedEmpty, GateExcludes
<1> QED
  BY <1>1, Invariance, PTL

-----------------------------------------------------------------------------
(***************************************************************************)
(* The pipeline implements the ledger.                                     *)
(***************************************************************************)
AnswerOf == [x \in Hypotheses |-> HypothesesOf(x.run, batch[x.run])]

LEMMA InitRefines == Init => GovernanceLedger!Init
<1> SUFFICES ASSUME Init
             PROVE  GovernanceLedger!Init
  OBVIOUS
<1>1. AnswerOf = [x \in Hypotheses |-> {}]
  <2>1. \A x \in Hypotheses : HypothesesOf(x.run, batch[x.run]) = {}
    BY HypothesisRows DEF Init, HypothesesOf
  <2> QED
    BY <2>1 DEF AnswerOf
<1>2. Outgoing = {}
  BY DEF Init, Outgoing, Announcing
<1> QED
  BY <1>1, <1>2 DEF GovernanceLedger!Init, AnswerOf, Init, NoVerdicts

\* A stored hypothesis is one of its answer, and all of them are stored.
AnswersWhole == \A x \in db \cap Hypotheses : x \in AnswerOf[x] /\ AnswerOf[x] \subseteq db

LEMMA StoredIsWhole == IInv => AnswersWhole
<1> SUFFICES ASSUME IInv, NEW x \in db \cap Hypotheses
             PROVE  x \in AnswerOf[x] /\ AnswerOf[x] \subseteq db
  BY DEF AnswersWhole
<1>1. x.run \in Runs /\ batch[x.run] \in 0 .. BatchMax
  BY HypothesisRows DEF IInv, TypeOK
<1>2. AnswerOf[x] = HypothesesOf(x.run, batch[x.run])
  BY DEF AnswerOf
<1>3. x.n <= batch[x.run]
  BY DEF IInv, Stored
<1>4. x \in HypothesesOf(x.run, batch[x.run])
  BY <1>1, <1>3, HypothesesOfARun
<1>5. HypothesesOf(x.run, batch[x.run]) \subseteq db
  BY <1>1, HypothesesOfARun DEF IInv, Stored
<1> QED
  BY <1>2, <1>4, <1>5

LEMMA StaysWhole == IInv' => AnswersWhole'
BY StoredIsWhole, PTL

\* Verdicts waiting in a session, and those auto-validation gives, concern
\* stored hypotheses and are no return to pending.
LEMMA StepOutcome ==
  ASSUME IInv, NEW w \in Workers, Step(w), NEW x \in Hypotheses, outcome'[x] # outcome[x]
  PROVE  x \in db /\ outcome'[x] # Pending
<1>1. /\ queue[w] \subseteq db
      /\ ruled[w][x] # Pending => x \in db
  BY DEF IInv, Judgeable
<1>2. CASE \/ LoadConstraints(w) \/ ClassifyCommit(w) \/ LlmGated(w) \/ LlmAnswered(w)
           \/ RouteCommit(w)
           \/ PlanCommit(w)
  <2>1. outcome'[x] = IF ruled[w][x] # Pending THEN ruled[w][x] ELSE outcome[x]
    BY <1>2 DEF LoadConstraints, ClassifyCommit, LlmGated, LlmAnswered, RouteCommit,
       PlanCommit, Commit, CommitVerdicts
  <2> QED
    BY <1>1, <2>1
<1>3. CASE AutoValidate(w)
  <2>1. PICK judged \in SUBSET queue[w] :
          \E verdict \in [judged -> RuleVerdicts] :
            CommitVerdicts(w, {}, Judging(w, judged, verdict))
    BY <1>3 DEF AutoValidate
  <2>2. PICK verdict \in [judged -> RuleVerdicts] :
          CommitVerdicts(w, {}, Judging(w, judged, verdict))
    BY <2>1
  <2>3. outcome'[x] = IF Judging(w, judged, verdict)[x] # Pending
                        THEN Judging(w, judged, verdict)[x] ELSE outcome[x]
    BY <2>2 DEF CommitVerdicts
  <2>4. CASE x \in judged
    BY <1>1, <2>3, <2>4
  <2>5. CASE x \notin judged
    BY <1>1, <2>3, <2>5 DEF Judging
  <2> QED
    BY <2>3, <2>4, <2>5
<1>4. CASE \/ ClassifyRaises(w) \/ StartGeneration(w) \/ StartUnchecked(w) \/ PlanRaises(w)
           \/ SkipDuplicate(w) \/ GenerationDisabled(w) \/ LlmUnavailable(w) \/ PlanSkipped(w)
           \/ Announce(w)
           \/ NoClusterToValidate(w) \/ ReadQueue(w) \/ AutoValidateRaises(w)
           \/ DbFailure(w) \/ Finish(w)
  <2>1. outcome' = outcome
    BY <1>4 DEF ClassifyRaises, StartGeneration, StartUnchecked, Generating, PlanRaises,
       Flush, SkipDuplicate, GenerationDisabled, LlmUnavailable, PlanSkipped, Announce,
       NoClusterToValidate, ReadQueue, AutoValidateRaises, DbFailure, Finish, tables
  <2> QED
    BY <2>1
<1> QED
  BY <1>2, <1>3, <1>4 DEF Step

\* Once a hypothesis is stored, its answer has all it will ever have.
LEMMA StepAnswers ==
  ASSUME IInv, NEW w \in Workers, Step(w), NEW x \in db \cap Hypotheses
  PROVE  batch'[x.run] = batch[x.run]
<1>1. x.run \in Runs /\ x.n \in Nat /\ x.n >= 1 /\ x.n <= batch[x.run]
  BY HypothesisRows, PipelineAssumption DEF IInv, Stored
<1>2. CASE x.run # run[w]
  BY <1>1, <1>2, StepKeepsOtherAnswers DEF IInv
<1>3. CASE x.run = run[w]
  <2>1. ~ Fresh(run[w])
    BY <1>1, <1>3 DEF Fresh
  <2>2. pc[w] # "llm"
    BY <2>1 DEF IInv, Unanswered
  <2>3. StoresNothing
    BY <2>2, StepStores DEF IInv, StoresGated, StoresAnswer
  <2> QED
    BY <2>3 DEF StoresNothing
<1> QED
  BY <1>2, <1>3

\* What the ledger asks of a step, in the pipeline's variables.
LEMMA NextKeepsLedger ==
  ASSUME IInv, [Next]_vars
  PROVE  /\ db \subseteq db'
         /\ \A x \in db \cap Hypotheses : batch'[x.run] = batch[x.run]
         /\ \A x \in Hypotheses : outcome'[x] # outcome[x] => x \in db /\ outcome'[x] # Pending
<1>1. ASSUME NEW w \in Workers, Step(w)
      PROVE  /\ db \subseteq db'
             /\ \A x \in db \cap Hypotheses : batch'[x.run] = batch[x.run]
             /\ \A x \in Hypotheses :
                  outcome'[x] # outcome[x] => x \in db /\ outcome'[x] # Pending
  BY <1>1, StepFrame, StepAnswers, StepOutcome DEF IInv
<1>2. ASSUME NEW w \in Workers, NEW k \in Keys, Arrival(w, k)
      PROVE  UNCHANGED <<db, batch, outcome>>
  BY <1>2, ArrivalBegins DEF Begin, answers, tables
<1>3. CASE Operator
  <2>1. PICK h \in Hypotheses, verdict \in Verdicts : OperatorValidates(h, verdict)
    BY <1>3 DEF Operator
  <2>2. UNCHANGED <<db, batch>> /\ h \in db /\ outcome' = [outcome EXCEPT ![h] = verdict]
    BY <2>1 DEF OperatorValidates, answers
  <2> QED
    BY <2>2, PipelineAssumption DEF IInv, TypeOK
<1>4. CASE Crash \/ UNCHANGED vars
  BY <1>4 DEF Crash, vars, answers, tables
<1> QED
  BY <1>1, <1>2, <1>3, <1>4 DEF Next

LEMMA NextRefines ==
  IInv /\ IInv' /\ [Next]_vars => [GovernanceLedger!Next]_(GovernanceLedger!ledgerVars)
<1> SUFFICES ASSUME IInv, IInv', [Next]_vars
             PROVE  GovernanceLedger!Next
  OBVIOUS
<1>1. /\ db \subseteq db'
      /\ \A x \in db \cap Hypotheses : batch'[x.run] = batch[x.run]
      /\ \A x \in Hypotheses : outcome'[x] # outcome[x] => x \in db /\ outcome'[x] # Pending
  BY NextKeepsLedger
<1>2. db' \subseteq Row /\ \A x \in db' : AuditOf(x) \in db'
  BY DEF IInv, TypeOK, Referenced
<1>3. \A x \in db' \cap Hypotheses : x \in AnswerOf'[x] /\ AnswerOf'[x] \subseteq db'
  BY StaysWhole DEF AnswersWhole
<1>4. \A x \in db \cap Hypotheses : AnswerOf'[x] = AnswerOf[x]
  BY <1>1 DEF AnswerOf
<1>5. Outgoing' \subseteq db'
  BY DEF IInv, Visible, Outgoing
<1> QED
  BY <1>1, <1>2, <1>3, <1>4, <1>5
  DEF GovernanceLedger!Next, GovernanceLedger!Commit, GovernanceLedger!Publish,
      GovernanceLedger!Referenced, GovernanceLedger!Whole, GovernanceLedger!Committed, AnswerOf

\* The pipeline implements the ledger: whatever is swallowed, left flushed,
\* committed for another step or lost, readers and topics see only whole
\* answers with their audit events, and verdicts that stand.
THEOREM Refinement == Spec => RefinesLedger
<1>1. Init => GovernanceLedger!Init
  BY InitRefines
<1>2. IInv /\ IInv' /\ [Next]_vars => [GovernanceLedger!Next]_(GovernanceLedger!ledgerVars)
  BY NextRefines
<1> QED
  BY <1>1, <1>2, Invariance, PTL DEF Spec, RefinesLedger, GovernanceLedger!Spec
-----------------------------------------------------------------------------
(***************************************************************************)
(* Whose rows they are. A session commits what was flushed into it, in the *)
(* runs of its own thread and no other's.                                  *)
(***************************************************************************)
Own ==
  /\ \A x \in db : x.run < nextRun
  /\ \A w \in Workers : \A x \in tx[w] : x.run \in Runs /\ x.run < nextRun /\ owner[x.run] = w

LEMMA RowRuns == \A x \in Row : x.run \in Runs
<1> SUFFICES ASSUME NEW r \in Runs, NEW x \in RowsOf(r)
             PROVE  x.run = r
  BY DEF Row
<1> QED
  BY DEF RowsOf, AuditRow, GatedRow, HypothesesOf, ClassificationsOf, ResultRow

\* The rows a step adds to its session or to the tables are of its own run.
LEMMA StepRows ==
  ASSUME TypeOK, Handled, NEW w \in Workers, Step(w)
  PROVE  /\ \A x \in db' : x \in db \/ x \in tx[w] \/ x.run = run[w]
         /\ \A x \in tx'[w] : x \in tx[w] \/ x.run = run[w]
<1>1. /\ \A e, k : \A x \in ClassificationRows(run[w], k) \cup EngineRows(run[w], e)
                               \cup HypothesesOf(run[w], k) : x.run = run[w]
      /\ \A e : AuditRow(run[w], e).run = run[w]
      /\ GatedRow(run[w]).run = run[w]
  BY DEF ClassificationRows, EngineRows, HypothesesOf, ClassificationsOf, AuditRow, GatedRow,
     ResultRow
<1>2. ASSUME NEW rows, \A x \in rows : x.run = run[w], NEW verdicts,
             Flush(w, rows) \/ CommitVerdicts(w, rows, verdicts)
      PROVE  /\ \A x \in db' : x \in db \/ x \in tx[w] \/ x.run = run[w]
             /\ \A x \in tx'[w] : x \in tx[w] \/ x.run = run[w]
  BY <1>2 DEF Flush, CommitVerdicts, tables, TypeOK
<1>3. CASE \/ LoadConstraints(w) \/ ClassifyCommit(w) \/ RouteCommit(w) \/ PlanCommit(w)
           \/ LlmGated(w)
  <2>1. PICK rows : Commit(w, rows) /\ \A x \in rows : x.run = run[w]
    BY <1>1, <1>3 DEF LoadConstraints, ClassifyCommit, RouteCommit, PlanCommit, LlmGated
  <2> QED
    BY <1>2, <2>1 DEF Commit
<1>4. CASE LlmAnswered(w)
  <2>1. PICK k \in 0 .. BatchMax : Commit(w, HypothesesOf(run[w], k))
    BY <1>4 DEF LlmAnswered
  <2>2. \A x \in HypothesesOf(run[w], k) : x.run = run[w]
    BY <1>1
  <2> QED
    BY <1>2, <2>1, <2>2 DEF Commit
<1>5. CASE ClassifyRaises(w) \/ StartGeneration(w) \/ StartUnchecked(w) \/ PlanRaises(w)
  <2>1. PICK rows : Flush(w, rows) /\ \A x \in rows : x.run = run[w]
    BY <1>1, <1>5 DEF ClassifyRaises, StartGeneration, StartUnchecked, Generating, PlanRaises
  <2> QED
    BY <1>2, <2>1
<1>6. CASE AutoValidate(w)
  <2>1. PICK verdicts : CommitVerdicts(w, {}, verdicts)
    BY <1>6 DEF AutoValidate
  <2> QED
    BY <1>2, <2>1
<1>7. CASE \/ SkipDuplicate(w) \/ GenerationDisabled(w) \/ LlmUnavailable(w) \/ PlanSkipped(w)
           \/ NoClusterToValidate(w) \/ Announce(w) \/ ReadQueue(w) \/ AutoValidateRaises(w)
           \/ DbFailure(w) \/ Finish(w)
  BY <1>7 DEF SkipDuplicate, GenerationDisabled, LlmUnavailable, PlanSkipped,
     NoClusterToValidate, Announce, ReadQueue, AutoValidateRaises, DbFailure, Finish, tables,
     session, TypeOK
<1> QED
  BY <1>3, <1>4, <1>5, <1>6, <1>7 DEF Step

LEMMA StepOwn ==
  ASSUME TypeOK, Handled, Own, NEW w \in Workers, Step(w)
  PROVE  /\ Own'
         /\ \A x \in db' \ db : x.run \in Runs /\ owner[x.run] = w
<1>1. run[w] \in Runs /\ run[w] < nextRun /\ owner[run[w]] = w
  BY StepFrame DEF Handled
<1>2. /\ \A x \in db' : x \in db \/ x \in tx[w] \/ x.run = run[w]
      /\ \A x \in tx'[w] : x \in tx[w] \/ x.run = run[w]
  BY StepRows
<1>3. /\ \A v \in Workers \ {w} : tx'[v] = tx[v]
      /\ nextRun' = nextRun /\ owner' = owner
  BY StepFrame DEF OthersStay, history
<1>4. \A x \in db' : x.run < nextRun
  BY <1>1, <1>2 DEF Own
<1>5. ASSUME NEW v \in Workers, NEW x \in tx'[v]
      PROVE  x.run \in Runs /\ x.run < nextRun /\ owner[x.run] = v
  BY <1>1, <1>2, <1>3, <1>5 DEF Own
<1> QED
  BY <1>1, <1>2, <1>3, <1>4, <1>5 DEF Own

\* What begins a run leaves the tables and the sessions alone.
LEMMA BeginOwn ==
  ASSUME TypeOK, Handled, Own, NEW w \in Workers, NEW k \in Keys, NEW failing, NEW generation,
         Begin(w, k, failing, generation)
  PROVE  Own' /\ db' = db /\ tx' = tx /\ ruled' = ruled
<1>1. nextRun \in Nat /\ nextRun' = nextRun + 1 /\ db' = db /\ tx' = tx /\ ruled' = ruled
  BY RunsAreNumbers DEF Begin, tables, session
<1>2. \A r \in Runs : r < nextRun => owner'[r] = owner[r] /\ r < nextRun'
  BY <1>1, RunsAreNumbers DEF Begin, TypeOK
<1>3. \A x \in db : x.run \in Runs
  BY RowRuns DEF TypeOK
<1> QED
  BY <1>1, <1>2, <1>3 DEF Own

\* The audit event of a classification is in the tables before the
\* classification only if the constraints had to be loaded; the loading has
\* committed all there was.
Loaded(w) == AuditRow(run[w], "classification") \in db

Loading == \A w \in Workers : pc[w] = "classify" /\ Loaded(w) => tx[w] = {} /\ ruled[w] = NoVerdicts

LEMMA StepToClassify ==
  ASSUME TypeOK, NEW w \in Workers, Step(w), pc'[w] = "classify"
  PROVE  LoadConstraints(w)
<1>1. \A l \in Labels : Goto(w, l) => l = "classify"
  BY GotoType
<1>2. AfterClassification(w) # "classify" /\ AfterGeneration(w) # "classify"
  BY DEF AfterClassification, AfterGeneration
<1>3. pc[w] \in Announcing => AfterAnnouncing(w) # "classify" /\ AfterAnnouncing(w) \in Labels
  BY LabelAfterAnnouncing DEF Labels, DbSteps
<1>4. AfterClassification(w) \in Labels /\ AfterGeneration(w) \in Labels
  BY LabelsAhead
<1>5. ~ Goto(w, AfterClassification(w)) /\ ~ Goto(w, AfterGeneration(w))
  BY <1>1, <1>2, <1>4
<1>6. ~ Announce(w)
  BY <1>1, <1>3 DEF Announce
<1>7. \A l \in Labels \ {"classify"} : ~ Goto(w, l)
  BY <1>1
<1> QED
  BY <1>5, <1>6, <1>7
  DEF Step, ClassifyCommit, ClassifyRaises, SkipDuplicate, GenerationDisabled, StartGeneration,
     StartUnchecked, Generating, LlmUnavailable, LlmGated, LlmAnswered, RouteCommit, PlanSkipped,
     PlanRaises, PlanCommit, NoClusterToValidate, ReadQueue, AutoValidate, AutoValidateRaises,
     DbFailure, Finish, Labels, DbSteps, Announcing

LEMMA StepLoading ==
  ASSUME TypeOK, Handled, Own, Loading, NEW w \in Workers, Step(w)
  PROVE  Loading'
<1> SUFFICES ASSUME NEW v \in Workers, pc'[v] = "classify", Loaded(v)'
             PROVE  tx'[v] = {} /\ ruled'[v] = NoVerdicts
  BY DEF Loading
<1>1. CASE v = w
  <2>1. LoadConstraints(w)
    BY <1>1, StepToClassify
  <2> QED
    BY <1>1, <2>1 DEF LoadConstraints, Commit, CommitVerdicts, TypeOK
<1>2. CASE v # w
  <2>1. /\ pc[v] = "classify" /\ run'[v] = run[v]
        /\ tx'[v] = tx[v] /\ ruled'[v] = ruled[v]
    BY <1>2, StepFrame DEF OthersStay
  <2>2. AuditRow(run[v], "classification") \in db
    <3>1. AuditRow(run[v], "classification") \in db'
      BY <2>1 DEF Loaded
    <3>2. run[v] \in Runs /\ owner[run[v]] = v /\ AuditRow(run[v], "classification").run = run[v]
      BY <2>1 DEF Handled, AuditRow
    <3> QED
      BY <1>2, <3>1, <3>2, StepOwn
  <2> QED
    BY <2>1, <2>2 DEF Loading, Loaded
<1> QED
  BY <1>1, <1>2

LEMMA BeginLoading ==
  ASSUME TypeOK, Handled, Own, Loading, NEW w \in Workers, NEW k \in Keys, NEW failing,
         NEW generation, Begin(w, k, failing, generation)
  PROVE  Loading'
<1>1. nextRun \in Nat /\ db' = db /\ tx' = tx /\ ruled' = ruled /\ run'[w] = nextRun
  BY BeginOwn, RunsAreNumbers DEF Begin, TypeOK
<1>2. \A v \in Workers \ {w} : pc'[v] = pc[v] /\ run'[v] = run[v]
  BY DEF Begin, Goto, TypeOK
<1>3. AuditRow(nextRun, "classification") \notin db
  BY <1>1 DEF Own, AuditRow
<1> QED
  BY <1>1, <1>2, <1>3 DEF Loading, Loaded

OInv == IInv /\ Own /\ Loading

LEMMA NextOwn == OInv /\ [Next]_vars => OInv'
<1> SUFFICES ASSUME OInv, [Next]_vars
             PROVE  Own' /\ Loading'
  BY NextInvariant DEF OInv
<1> TypeOK /\ Handled /\ Own /\ Loading
  BY DEF OInv, IInv
<1>1. ASSUME NEW w \in Workers, Step(w)
      PROVE  Own' /\ Loading'
  BY <1>1, StepOwn, StepLoading
<1>2. ASSUME NEW w \in Workers, NEW k \in Keys, Arrival(w, k)
      PROVE  Own' /\ Loading'
  BY <1>2, ArrivalBegins, BeginOwn, BeginLoading
<1>3. CASE Operator \/ UNCHANGED vars
  <2>1. UNCHANGED <<nextRun, owner, db, tx, pc, run, ruled>>
    BY <1>3 DEF Operator, OperatorValidates, vars, history, request, session, tables
  <2> QED
    BY <2>1 DEF Own, Loading, Loaded
<1>4. CASE Crash
  BY <1>4 DEF Crash, history, tables, Own, Loading
<1> QED
  BY <1>1, <1>2, <1>3, <1>4 DEF Next

LEMMA OwnAlways == Spec => []OInv
<1>1. Init => Own /\ Loading
  BY DEF Init, Own, Loading
<1> QED
  BY <1>1, InitInvariant, NextOwn, PTL DEF Spec, OInv

\* Whatever becomes visible is committed by the thread that handles the run it
\* is of: no thread commits the rows another has left, and neither does the
\* operator or a crash.
CommitsOwn ==
  [][\A x \in db' \ db : x.run \in Runs /\ \E w \in Workers : Step(w) /\ owner[x.run] = w]_vars

\* A step of process_stargate_event commits with a session what others have left
\* in it, and that is only ever the rows of runs of the same thread.
THEOREM Ownership == Spec => CommitsOwn
<1> DEFINE Owned ==
      \A x \in db' \ db : x.run \in Runs /\ \E w \in Workers : Step(w) /\ owner[x.run] = w
<1>1. OInv /\ Next => Owned
  <2> SUFFICES ASSUME OInv, Next
               PROVE  Owned
    OBVIOUS
  <2>1. TypeOK /\ Handled /\ Own
    BY DEF OInv, IInv
  <2>2. ASSUME NEW w \in Workers, Step(w)
        PROVE  Owned
    BY <2>1, <2>2, StepOwn
  <2>3. ASSUME db' = db
        PROVE  Owned
    BY <2>3
  <2>4. ASSUME NEW w \in Workers, NEW k \in Keys, Arrival(w, k)
        PROVE  db' = db
    BY <2>1, <2>4, ArrivalBegins, BeginOwn
  <2>5. Operator \/ Crash => db' = db
    BY DEF Operator, OperatorValidates, Crash, tables
  <2> QED
    BY <2>2, <2>3, <2>4, <2>5 DEF Next
<1>2. OInv /\ [Next]_vars => [Owned]_vars
  BY <1>1
<1> QED
  BY <1>2, OwnAlways, PTL DEF Spec, CommitsOwn

-----------------------------------------------------------------------------
(***************************************************************************)
(* How many answers there can be. Runs with answers of one named key have  *)
(* different owners, so that there are as many as threads at most.         *)
(***************************************************************************)
Begun == \A r \in Runs : r < nextRun => owner[r] \in Workers

LEMMA BegunAlways == Spec => []Begun
<1>1. Init => Begun
  <2> SUFFICES ASSUME Init
               PROVE  Begun
    OBVIOUS
  <2>1. nextRun = 1
    BY DEF Init
  <2>2. \A r \in Runs : ~ (r < 1)
    BY PipelineAssumption DEF Runs
  <2> QED
    BY <2>1, <2>2 DEF Begun
<1>2. IInv /\ Begun /\ [Next]_vars => Begun'
  <2> SUFFICES ASSUME IInv, Begun, [Next]_vars
               PROVE  Begun'
    OBVIOUS
  <2>1. TypeOK /\ Handled
    BY DEF IInv
  <2>2. ASSUME NEW w \in Workers, Step(w)
        PROVE  Begun'
    BY <2>1, <2>2, StepFrame DEF Begun, history
  <2>3. ASSUME NEW w \in Workers, NEW k \in Keys, NEW failing, NEW generation,
               Begin(w, k, failing, generation)
        PROVE  Begun'
    <3>1. nextRun \in Nat /\ nextRun' = nextRun + 1 /\ owner' = [owner EXCEPT ![nextRun] = w]
      BY <2>1, <2>3, RunsAreNumbers DEF Begin, TypeOK
    <3>2. \A r \in Runs : r < nextRun' => r < nextRun \/ r = nextRun
      BY <3>1, RunsAreNumbers
    <3> QED
      BY <2>1, <3>1, <3>2 DEF Begun, TypeOK
  <2>4. ASSUME NEW w \in Workers, NEW k \in Keys, Arrival(w, k)
        PROVE  Begun'
    BY <2>1, <2>3, <2>4, ArrivalBegins
  <2>5. CASE Operator \/ Crash \/ UNCHANGED vars
    BY <2>5 DEF Operator, OperatorValidates, Crash, vars, history, Begun
  <2> QED
    BY <2>2, <2>4, <2>5 DEF Next
<1> QED
  BY <1>1, <1>2, Invariance, PTL DEF Spec

\* The answers of one key: the runs whose hypotheses are in the tables, those
\* whose check could not read them aside.
Answers(k) == {r \in Runs \ unchecked : HasAnswer(r) /\ key[r] = k}

FewAnswers == \A k \in Keys \ Anonymous : Cardinality(Answers(k)) <= Cardinality(Workers)

\* However often a failure of a cluster is reported, and however the checks of
\* generate_hypotheses interleave, its window holds at most one answer per
\* thread.
THEOREM Bounded == Spec => []FewAnswers
<1>1. OInv /\ NoSelfDuplicate /\ Begun => FewAnswers
  <2> SUFFICES ASSUME OInv, NoSelfDuplicate, Begun, NEW k \in Keys \ Anonymous
               PROVE  Cardinality(Answers(k)) <= Cardinality(Workers)
    BY DEF FewAnswers
  <2> DEFINE f == [r \in Answers(k) |-> owner[r]]
  <2>1. \A r \in Answers(k) : owner[r] \in Workers
    <3> SUFFICES ASSUME NEW r \in Answers(k)
                 PROVE  owner[r] \in Workers
      OBVIOUS
    <3>1. PICK x \in db : x \in HypothesesOf(r, BatchMax)
      BY DEF Answers, HasAnswer
    <3>2. x.run = r /\ r \in Runs
      BY <3>1 DEF HypothesesOf, ResultRow, Answers
    <3>3. r < nextRun
      BY <3>2 DEF OInv, Own
    <3> QED
      BY <3>2, <3>3 DEF Begun
  <2>2. \A r, s \in Answers(k) : owner[r] = owner[s] => r = s
    BY DEF Answers, NoSelfDuplicate
  <2>3. f \in Injection(Answers(k), Workers)
    BY <2>1, <2>2 DEF Injection, IsInjective
  <2> QED
    BY <2>3, PipelineAssumption, FS_Injection
<1> QED
  BY <1>1, OwnAlways, NoRepetition, BegunAlways, PTL

-----------------------------------------------------------------------------
(***************************************************************************)
(* How long an event can take. The labels of the pipeline come one after   *)
(* the other, except that the loading of the constraints stays where it is.*)
(***************************************************************************)
LabelRank(l) ==
     CASE l = "idle" -> 0
       [] l = "end" -> 1
       [] l = "verdict" -> 2
       [] l = "queue" -> 3
       [] l = "announce_planning" -> 4
       [] l = "plan" -> 5
       [] l = "announce_routing" -> 6
       [] l = "route" -> 7
       [] l \in {"announce_hypotheses", "announce_breach"} -> 8
       [] l = "llm" -> 9
       [] l = "dedup" -> 10
       [] l = "announce_classification" -> 11
       [] l = "classify" -> 12

EventRank(w) ==
  LabelRank(pc[w]) + (IF pc[w] = "classify" /\ ~ Loaded(w) THEN 1 ELSE 0)

LEMMA LabelRanks ==
  /\ LabelRank("idle") = 0 /\ LabelRank("end") = 1 /\ LabelRank("verdict") = 2
  /\ LabelRank("queue") = 3 /\ LabelRank("announce_planning") = 4 /\ LabelRank("plan") = 5
  /\ LabelRank("announce_routing") = 6 /\ LabelRank("route") = 7
  /\ LabelRank("announce_hypotheses") = 8 /\ LabelRank("announce_breach") = 8
  /\ LabelRank("llm") = 9 /\ LabelRank("dedup") = 10
  /\ LabelRank("announce_classification") = 11 /\ LabelRank("classify") = 12
BY DEF LabelRank, Labels, DbSteps, Announcing

LEMMA LabelRankType == \A l \in Labels : LabelRank(l) \in 0 .. 12
BY LabelRanks DEF Labels, DbSteps, Announcing

\* The labels come one after the other.
LEMMA StepDescends ==
  ASSUME TypeOK, NEW w \in Workers, Step(w)
  PROVE  LoadConstraints(w) \/ LabelRank(pc'[w]) < LabelRank(pc[w])
<1> USE LabelRanks
<1>1. ASSUME NEW l \in Labels, Goto(w, l)
      PROVE  pc'[w] = l
  BY <1>1, GotoType
<1>2. AfterClassification(w) \in {"dedup", "queue"} /\ AfterGeneration(w) \in {"end", "route"}
  BY DEF AfterClassification, AfterGeneration
<1>3. {"dedup", "queue", "end", "route", "idle", "llm", "plan", "verdict"} \cup Announcing
        \subseteq Labels
  BY DEF Labels, DbSteps
<1>4. CASE ClassifyCommit(w)
  BY <1>1, <1>3, <1>4 DEF ClassifyCommit, Working, Announcing
<1>5. CASE ClassifyRaises(w)
  <2>1. pc[w] = "classify" /\ Goto(w, AfterClassification(w))
    BY <1>5 DEF ClassifyRaises, Working
  <2>2. pc'[w] = AfterClassification(w)
    BY <1>1, <1>2, <1>3, <2>1
  <2> QED
    BY <1>2, <2>1, <2>2
<1>6. CASE SkipDuplicate(w) \/ LlmUnavailable(w)
  <2>1. pc[w] \in {"dedup", "llm"} /\ Goto(w, AfterGeneration(w))
    BY <1>6 DEF SkipDuplicate, LlmUnavailable, Working
  <2>2. pc'[w] = AfterGeneration(w)
    BY <1>1, <1>2, <1>3, <2>1
  <2> QED
    BY <1>2, <2>1, <2>2
<1>7. CASE GenerationDisabled(w) \/ StartGeneration(w) \/ StartUnchecked(w)
  <2>1. pc[w] = "dedup" /\ (Goto(w, "route") \/ Goto(w, "llm"))
    BY <1>7 DEF GenerationDisabled, StartGeneration, StartUnchecked, Generating, Working
  <2> QED
    BY <1>1, <1>3, <2>1
<1>8. CASE LlmGated(w) \/ LlmAnswered(w)
  <2>1. pc[w] = "llm" /\ (Goto(w, "announce_breach") \/ Goto(w, "announce_hypotheses"))
    BY <1>8 DEF LlmGated, LlmAnswered, Working
  <2> QED
    BY <1>1, <1>3, <2>1 DEF Announcing
<1>9. CASE RouteCommit(w) \/ PlanSkipped(w) \/ PlanRaises(w) \/ PlanCommit(w)
  <2>1. \/ pc[w] = "route" /\ Goto(w, "announce_routing")
        \/ pc[w] = "plan" /\ (Goto(w, "queue") \/ Goto(w, "announce_planning"))
    BY <1>9 DEF RouteCommit, PlanSkipped, PlanRaises, PlanCommit, Working
  <2> QED
    BY <1>1, <1>3, <2>1 DEF Announcing
<1>10. CASE Announce(w)
  <2>1. pc[w] \in Announcing /\ Goto(w, AfterAnnouncing(w))
    BY <1>10 DEF Announce
  <2>2. AfterAnnouncing(w) \in Labels /\ LabelRank(AfterAnnouncing(w)) < LabelRank(pc[w])
    <3>1. CASE pc[w] = "announce_classification"
      BY <1>2, <1>3, <3>1 DEF AfterAnnouncing
    <3>2. CASE pc[w] = "announce_breach" \/ pc[w] = "announce_hypotheses"
      BY <1>2, <1>3, <3>2 DEF AfterAnnouncing
    <3>3. CASE pc[w] = "announce_routing"
      BY <1>3, <3>3 DEF AfterAnnouncing
    <3>4. CASE pc[w] = "announce_planning"
      BY <1>3, <3>4 DEF AfterAnnouncing
    <3> QED
      BY <2>1, <3>1, <3>2, <3>3, <3>4 DEF Announcing
  <2> QED
    BY <1>1, <2>1, <2>2
<1>11. CASE NoClusterToValidate(w) \/ ReadQueue(w) \/ AutoValidate(w) \/ AutoValidateRaises(w)
  <2>1. \/ pc[w] = "queue" /\ (Goto(w, "end") \/ Goto(w, "verdict"))
        \/ pc[w] = "verdict" /\ Goto(w, "end")
    BY <1>11 DEF NoClusterToValidate, ReadQueue, AutoValidate, AutoValidateRaises, Working
  <2> QED
    BY <1>1, <1>3, <2>1
<1>12. CASE DbFailure(w) \/ Finish(w)
  <2>1. \/ pc[w] \in DbSteps /\ Goto(w, "end")
        \/ pc[w] = "end" /\ Goto(w, "idle")
    BY <1>12 DEF DbFailure, Finish
  <2> QED
    BY <1>1, <1>3, <2>1 DEF DbSteps
<1> QED
  BY <1>4, <1>5, <1>6, <1>7, <1>8, <1>9, <1>10, <1>11, <1>12 DEF Step

\* Loading what is loaded already changes nothing.
LEMMA LoadingTwice ==
  ASSUME TypeOK, Loading, NEW w \in Workers, LoadConstraints(w), Loaded(w)
  PROVE  UNCHANGED vars
<1>1. tx[w] = {} /\ ruled[w] = NoVerdicts
  BY DEF Loading, LoadConstraints, Working
<1>2. db' = db /\ tx' = tx /\ ruled' = ruled /\ poisoned' = poisoned
  BY <1>1 DEF LoadConstraints, Commit, CommitVerdicts, Loaded, TypeOK
<1>3. outcome' = outcome
  <2>1. outcome' = [x \in Hypotheses |-> outcome[x]]
    BY <1>1 DEF LoadConstraints, Commit, CommitVerdicts, NoVerdicts
  <2>2. outcome = [x \in Hypotheses |-> outcome[x]]
    BY DEF TypeOK
  <2> QED
    BY <2>1, <2>2
<1> QED
  BY <1>2, <1>3 DEF LoadConstraints, vars, tables, session

LEMMA EventRankType == ASSUME TypeOK, NEW w \in Workers PROVE EventRank(w) \in 0 .. 13
<1>1. LabelRank(pc[w]) \in 0 .. 12
  BY LabelRankType DEF TypeOK
<1> QED
  BY <1>1 DEF EventRank

LEMMA StepEventRank ==
  ASSUME TypeOK, Handled, Loading, NEW w \in Workers, Step(w), ~ UNCHANGED vars
  PROVE  EventRank(w)' < EventRank(w)
<1>1. TypeOK'
  BY StepTyping
<1>2. LabelRank(pc[w]) \in 0 .. 12 /\ LabelRank(pc'[w]) \in 0 .. 12
  BY <1>1, LabelRankType DEF TypeOK
<1>3. CASE LoadConstraints(w)
  <2>1. pc[w] = "classify" /\ pc' = pc /\ run' = run /\ ~ Loaded(w)
    BY <1>3, LoadingTwice DEF LoadConstraints, Working, request
  <2>2. Loaded(w)'
    BY <1>3, <2>1 DEF LoadConstraints, Commit, CommitVerdicts, Loaded
  <2> QED
    BY <1>2, <2>1, <2>2 DEF EventRank
<1>4. CASE ~ LoadConstraints(w)
  <2>1. LabelRank(pc'[w]) < LabelRank(pc[w])
    BY <1>4, StepDescends
  <2>2. pc'[w] # "classify"
    BY <1>4, StepToClassify
  <2> QED
    BY <1>2, <2>1, <2>2 DEF EventRank
<1> QED
  BY <1>3, <1>4

LEMMA OthersEventRank ==
  ASSUME TypeOK, NEW w \in Workers, NEW v \in Workers \ {w}, Step(v)
  PROVE  EventRank(w)' <= EventRank(w)
<1>1. pc'[w] = pc[w] /\ run'[w] = run[w] /\ db \subseteq db'
  BY StepFrame DEF OthersStay
<1>2. LabelRank(pc[w]) \in 0 .. 12
  BY LabelRankType DEF TypeOK
<1>3. Loaded(w) => Loaded(w)'
  BY <1>1 DEF Loaded
<1> QED
  BY <1>1, <1>2, <1>3 DEF EventRank

LEMMA OperatorEventRank ==
  ASSUME TypeOK, NEW w \in Workers, Operator
  PROVE  EventRank(w)' <= EventRank(w)
<1>1. pc'[w] = pc[w] /\ run'[w] = run[w] /\ db' = db
  BY DEF Operator, OperatorValidates, request
<1>2. LabelRank(pc[w]) \in 0 .. 12
  BY LabelRankType DEF TypeOK
<1> QED
  BY <1>1, <1>2 DEF EventRank, Loaded

\* Every step of a thread that changes anything brings it nearer to the end of
\* its event, and no other thread, nor the operator, puts that off.
EventsShrink ==
  [][\A w \in Workers :
       /\ Step(w) => EventRank(w)' < EventRank(w)
       /\ Operator \/ (\E v \in Workers \ {w} : Step(v)) => EventRank(w)' <= EventRank(w)]_vars

\* An event takes a thread at most thirteen steps, whatever the other threads
\* do and whichever of its own statements fail: what EventsEnd leaves to
\* fairness is only that the thread takes them.
THEOREM EventsRun == Spec => EventsShrink
<1> DEFINE Shrink ==
      \A w \in Workers :
        /\ Step(w) => EventRank(w)' < EventRank(w)
        /\ Operator \/ (\E v \in Workers \ {w} : Step(v)) => EventRank(w)' <= EventRank(w)
<1>1. OInv /\ Next /\ ~ UNCHANGED vars => Shrink
  <2> SUFFICES ASSUME OInv, Next, ~ UNCHANGED vars, NEW w \in Workers
               PROVE  /\ Step(w) => EventRank(w)' < EventRank(w)
                      /\ Operator \/ (\E v \in Workers \ {w} : Step(v)) =>
                           EventRank(w)' <= EventRank(w)
    OBVIOUS
  <2>1. TypeOK /\ Handled /\ Loading
    BY DEF OInv, IInv
  <2>2. Operator => EventRank(w)' <= EventRank(w)
    BY <2>1, OperatorEventRank
  <2>3. (\E v \in Workers \ {w} : Step(v)) => EventRank(w)' <= EventRank(w)
    BY <2>1, OthersEventRank
  <2>4. Step(w) => EventRank(w)' < EventRank(w)
    BY <2>1, StepEventRank
  <2> QED
    BY <2>2, <2>3, <2>4
<1>2. OInv /\ [Next]_vars => [Shrink]_vars
  BY <1>1
<1> QED
  BY <1>2, OwnAlways, PTL DEF Spec, EventsShrink
=============================================================================
