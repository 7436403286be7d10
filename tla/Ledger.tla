------------------------------- MODULE Ledger -------------------------------
(***************************************************************************)
(* What the governance database promises to its readers and to the topics' *)
(* consumers, whichever engine writes to it: rows are only ever added, a   *)
(* row is never visible before the audit event its audit_record_id names,  *)
(* the hypotheses of one LLM answer appear together or not at all, a       *)
(* hypothesis is judged only once it is visible and never goes back to     *)
(* pending, and an event is published only about rows already visible.     *)
(***************************************************************************)
CONSTANTS
  Row,          \* every row that can be written
  Hypotheses,   \* the rows of glx_hypotheses among them
  AuditOf(_),   \* the audit row a row's audit_record_id names
  Pending       \* validation_outcome IS NULL

VARIABLES
  db,           \* the committed rows
  answer,       \* for a hypothesis, the hypotheses of the same LLM answer
  outcome,      \* validation_outcome of every hypothesis
  published     \* the rows the events now going out are about

ledgerVars == <<db, answer, outcome, published>>

Committed == db \cap Hypotheses

\* Every committed row names a committed audit event.
Referenced == \A x \in db : AuditOf(x) \in db

\* A hypothesis is committed with every other hypothesis of its answer.
Whole == \A x \in Committed : x \in answer[x] /\ answer[x] \subseteq db

Init ==
  /\ db = {}
  /\ answer = [h \in Hypotheses |-> {}]
  /\ outcome = [h \in Hypotheses |-> Pending]
  /\ published = {}

\* A transaction commits: new rows, and verdicts on rows that were visible.
\* (Nothing new and no verdict: a step that only publishes.)
Commit ==
  /\ db \subseteq db'
  /\ db' \subseteq Row
  /\ Referenced'
  /\ Whole'
  /\ \A h \in Committed : answer'[h] = answer[h]
  /\ \A h \in Hypotheses :
       outcome'[h] # outcome[h] => h \in Committed /\ outcome'[h] # Pending

\* Events go out about rows that are visible.
Publish == published' \subseteq db'

Next == Commit /\ Publish

Spec == Init /\ [][Next]_ledgerVars
=============================================================================
