--------------------------- MODULE ActionExecutor ---------------------------
(***************************************************************************)
(* execute() passes an action through its gates and then acts on a cluster *)
(* through oc: it captures the namespace, runs the action, writes the      *)
(* captured state back when the action failed, captures again, and commits *)
(* its audit events only then. Each oc call can take its timeout of 30     *)
(* seconds, so other callers, a change of the mode or the end of the       *)
(* process come in between; and a call that is given up may have had its   *)
(* effect. A change is identified with the attempt that makes it.          *)
(***************************************************************************)
EXTENDS Integers

CONSTANTS
  Callers,     \* threads that call execute
  MaxAttempts  \* bound: actions handed to execute

ASSUME ExecutorAssumption == MaxAttempts \in Nat \ {0}

Attempts == 1 .. MaxAttempts

\* What the action's type and parameters come to: scale_replicas or a rollout
\* restart; delete_pod; or no_action, a type or parameters that name nothing
\* to do.
Kinds == {"change", "delete", "none"}

VARIABLES
  live,       \* GEOLUX_MODE = "live"
  \* A caller's frame.
  pc,
  attempt,    \* the attempt it is at
  kind,
  forced,     \* force: the gates are not asked
  captured,   \* what before_state has: "nothing", or pods with the deployments
              \* "listed", or "unlisted" because their listing failed
  before,     \* the changes in force in the deployments listed
  \* The cluster and the database.
  applied,    \* the changes to deployments that are in force
  record,     \* the committed audit event that ends an attempt
  \* History.
  begun,      \* the number of attempts
  effect,     \* the kind of effect an attempt has had on the cluster
  succeeded,  \* attempts whose outcome is a success
  meddling,   \* attempts whose rollback wrote to the cluster
  undone,     \* attempts whose rollback wrote everything it had captured
  cut,        \* attempts ended by a crash, the database or a failing capture
  overlap,    \* pairs of attempts that were under way at the same time
  late        \* callers that have had an unforced effect since the mode left live

frames == <<pc, attempt, kind, forced, captured, before>>
cluster == <<applied, effect>>
outcomes == <<succeeded, meddling, undone>>
vars == <<live, frames, cluster, record, begun, outcomes, cut,
          overlap, late>>

Init ==
  /\ live \in BOOLEAN
  /\ pc = [c \in Callers |-> "idle"]
  /\ attempt = [c \in Callers |-> 0]
  /\ kind = [c \in Callers |-> "none"]
  /\ forced = [c \in Callers |-> FALSE]
  /\ captured = [c \in Callers |-> "nothing"]
  /\ before = [c \in Callers |-> {}]
  /\ applied = {}
  /\ effect = [a \in Attempts |-> "none"]
  /\ record = [a \in Attempts |-> "none"]
  /\ begun = 0
  /\ succeeded = {} /\ meddling = {} /\ undone = {}
  /\ cut = {} /\ overlap = {} /\ late = {}

UnderWay == {attempt[c] : c \in {d \in Callers : pc[d] # "idle"}}

Goto(c, label) == pc' = [pc EXCEPT ![c] = label]

\* The calls of these callers end, and their frames with them.
Leave(gone) ==
  /\ pc' = [c \in Callers |-> IF c \in gone THEN "idle" ELSE pc[c]]
  /\ kind' = [c \in Callers |-> IF c \in gone THEN "none" ELSE kind[c]]
  /\ forced' = [c \in Callers |-> IF c \in gone THEN FALSE ELSE forced[c]]
  /\ captured' =
       [c \in Callers |-> IF c \in gone THEN "nothing" ELSE captured[c]]
  /\ before' = [c \in Callers |-> IF c \in gone THEN {} ELSE before[c]]
  /\ attempt' = [c \in Callers |-> IF c \in gone THEN 0 ELSE attempt[c]]

\* PUT /mode. A switch away from live starts a new account of late effects.
SetMode(m) ==
  /\ live' = m
  /\ late' = IF m = live THEN late ELSE {}
  /\ UNCHANGED <<frames, cluster, record, begun, outcomes, cut, overlap>>

(***************************************************************************)
(* The gates: mode, dry run, confidence. Only the mode changes at run time *)
(* and is read anew by each call; the others are what the action and the   *)
(* environment say.                                                        *)
(***************************************************************************)
\* Mutant: the mode is the one the module was imported with.
AdmittedAsImported(permitted, force) == force \/ permitted

Admitted(permitted, force) == force \/ (live /\ permitted)

Enter(c) ==
  /\ pc[c] = "idle"
  /\ begun < MaxAttempts
  /\ begun' = begun + 1

\* Mutant: the rejected action is executed all the same.
RejectFallsThrough(c, permitted, force) ==
  /\ ~ Admitted(permitted, force)
  /\ Enter(c)
  /\ record' = [record EXCEPT ![begun + 1] = "rejected"]
  /\ attempt' = [attempt EXCEPT ![c] = begun + 1]
  /\ Goto(c, "capturing")
  /\ UNCHANGED <<live, kind, forced, captured, before, cluster, outcomes, cut, overlap, late>>

\* action.rejected is committed; or the database fails, and the call raises.
Reject(c, permitted, force) ==
  /\ ~ Admitted(permitted, force)
  /\ Enter(c)
  /\ record' \in {record, [record EXCEPT ![begun + 1] = "rejected"]}
  /\ UNCHANGED <<live, frames, cluster, outcomes, cut, overlap, late>>

Admit(c, k, permitted, force) ==
  /\ Admitted(permitted, force)
  /\ Enter(c)
  /\ attempt' = [attempt EXCEPT ![c] = begun + 1]
  /\ overlap' = overlap \cup ({begun + 1} \X UnderWay)
                     \cup (UnderWay \X {begun + 1})
  /\ kind' = [kind EXCEPT ![c] = k]
  /\ forced' = [forced EXCEPT ![c] = force]
  /\ Goto(c, "capturing")
  /\ UNCHANGED <<live, captured, before, cluster, record, outcomes, cut, late>>

(***************************************************************************)
(* The action.                                                             *)
(***************************************************************************)
\* The namespace is captured if the kubeconfig is there and answers. A listing
\* that fails counts as an empty one. Then action.executing is flushed.
CaptureBefore(c) ==
  /\ pc[c] = "capturing"
  /\ \E what \in {"nothing", "listed", "unlisted"} :
       /\ captured' = [captured EXCEPT ![c] = what]
       /\ before' = [before EXCEPT ![c] = IF what = "listed" THEN applied ELSE {}]
  /\ Goto(c, "executing")
  /\ UNCHANGED <<live, attempt, kind, forced, cluster, record, begun, outcomes,
                 cut, overlap, late>>

\* Mutant: the exception of an action that is given up leaves execute().
JudgeRaises(c, success) ==
  /\ succeeded' = IF success THEN succeeded \cup {attempt[c]} ELSE succeeded
  /\ Goto(c, IF success THEN "done" ELSE "idle")
  /\ UNCHANGED <<live, attempt, kind, forced, captured, before, record, begun,
                 meddling, undone, cut, overlap>>

\* Mutant: a failure is rolled back with nothing to write back.
JudgeAlwaysRollsBack(c, success) ==
  /\ succeeded' = IF success THEN succeeded \cup {attempt[c]} ELSE succeeded
  /\ Goto(c, IF success THEN "done" ELSE "failed")
  /\ UNCHANGED <<live, attempt, kind, forced, captured, before, record, begun,
                 meddling, undone, cut, overlap>>

\* A failure is rolled back if something was captured.
Judge(c, success) ==
  /\ succeeded' = IF success THEN succeeded \cup {attempt[c]} ELSE succeeded
  /\ Goto(c, IF success \/ captured[c] = "nothing" THEN "done" ELSE "failed")
  /\ UNCHANGED <<live, attempt, kind, forced, captured, before, record, begun,
                 meddling, undone, cut, overlap>>

\* Nothing is done on the cluster: there is nothing to do, which is a success
\* for no_action; or oc refuses, or cannot be reached.
PerformNothing(c) ==
  /\ pc[c] = "executing"
  /\ \E success \in BOOLEAN : (success => kind[c] = "none") /\ Judge(c, success)
  /\ UNCHANGED <<cluster, late>>

\* The action has its effect, and oc says so or is given up after its timeout,
\* which execute() takes for a failure like any other exception.
PerformEffect(c) ==
  /\ pc[c] = "executing"
  /\ kind[c] \in {"change", "delete"}
  /\ effect' = [effect EXCEPT ![attempt[c]] = kind[c]]
  /\ applied' = IF kind[c] = "change" THEN applied \cup {attempt[c]} ELSE applied
  /\ late' = IF live \/ forced[c] THEN late ELSE late \cup {c}
  /\ \E success \in BOOLEAN : Judge(c, success)

\* Mutant: what is written back is what is there when the action has failed.
RestoresAfter(c) == applied

Restores(c) == before[c]

\* _rollback applies the captured deployments, all of them, whoever has changed
\* them since; oc may fail at any of them. Without deployments it succeeds at
\* once. Deleted pods do not come back. action.rollback is flushed.
Rollback(c) ==
  /\ pc[c] = "failed"
  /\ \/ /\ captured[c] = "unlisted"
        /\ UNCHANGED <<applied, meddling, undone>>
     \/ /\ captured[c] = "listed"
        /\ \E written \in SUBSET Attempts :
             /\ applied' = (applied \ written) \cup (Restores(c) \cap written)
             /\ undone' = IF written = Attempts
                          THEN undone \cup {attempt[c]} ELSE undone
        /\ meddling' = meddling \cup {attempt[c]}
  /\ Goto(c, "done")
  /\ UNCHANGED <<live, attempt, kind, forced, captured, before, effect, record,
                 begun, succeeded, cut, overlap, late>>

\* The namespace is captured again, action.executed is flushed and all is
\* committed; the event that then goes out has no reader here.
Record(c) ==
  /\ pc[c] = "done"
  /\ record' = [record EXCEPT ![attempt[c]] = "executed"]
  /\ Leave({c})
  /\ UNCHANGED <<live, cluster, begun, outcomes, cut, overlap, late>>

(***************************************************************************)
(* What cuts an attempt short.                                             *)
(***************************************************************************)
\* Where an exception leaves execute(), and with it the flushed audit events:
\* an oc call of either capture is given up, or a flush or the commit fails.
\* The flush of action.executing is part of CaptureBefore.
Raises == {"capturing", "done"}

Raise(c) ==
  /\ pc[c] \in Raises
  /\ cut' = cut \cup {attempt[c]}
  /\ Leave({c})
  /\ UNCHANGED <<live, cluster, record, begun, outcomes, overlap, late>>

\* The process ends, and comes back in the mode of its environment.
Crash ==
  /\ UnderWay # {}
  /\ cut' = cut \cup UnderWay
  /\ Leave(Callers)
  /\ live' \in BOOLEAN
  /\ late' = {}
  /\ UNCHANGED <<cluster, record, begun, outcomes, overlap>>

-----------------------------------------------------------------------------
Step(c) ==
  \/ CaptureBefore(c) \/ PerformNothing(c) \/ PerformEffect(c) \/ Rollback(c)
  \/ Record(c) \/ Raise(c)

Call(c) ==
  \E permitted, force \in BOOLEAN :
    Reject(c, permitted, force) \/ \E k \in Kinds : Admit(c, k, permitted, force)

Next ==
  \/ \E c \in Callers : Call(c) \/ Step(c)
  \/ \E m \in BOOLEAN : SetMode(m)
  \/ Crash

Spec == Init /\ [][Next]_vars

-----------------------------------------------------------------------------
Labels == {"idle", "capturing", "executing", "failed", "done"}

\* Every variable has its type, a call under way has its attempt, and a
\* rollback something to write back.
TypeOK ==
  /\ live \in BOOLEAN
  /\ pc \in [Callers -> Labels]
  /\ attempt \in [Callers -> 0 .. MaxAttempts]
  /\ kind \in [Callers -> Kinds]
  /\ forced \in [Callers -> BOOLEAN]
  /\ captured \in [Callers -> {"nothing", "listed", "unlisted"}]
  /\ before \in [Callers -> SUBSET Attempts]
  /\ applied \subseteq Attempts
  /\ effect \in [Attempts -> {"none", "change", "delete"}]
  /\ record \in [Attempts -> {"none", "rejected", "executed"}]
  /\ begun \in 0 .. MaxAttempts
  /\ succeeded \subseteq Attempts
  /\ meddling \subseteq Attempts
  /\ undone \subseteq Attempts
  /\ cut \subseteq Attempts
  /\ overlap \subseteq Attempts \X Attempts
  /\ late \subseteq Callers
  /\ \A c \in Callers :
       /\ pc[c] # "idle" => attempt[c] \in 1 .. begun
       /\ pc[c] = "failed" => captured[c] # "nothing"

(***************************************************************************)
(* An effect on the cluster leaves an audit event that says executed. The  *)
(* exceptions are a process that ends, a database that fails and a second  *)
(* capture that is given up: an action that fails or is itself given up is *)
(* recorded, and a rejected one has no effect.                             *)
(***************************************************************************)
EffectsRecorded ==
  \A a \in Attempts : effect[a] # "none" =>
    a \in UnderWay \/ record[a] = "executed" \/ a \in cut

(***************************************************************************)
(* A successful change stays in force, and one that has been rolled back   *)
(* stays out of force. What may reverse either is the rollback of an       *)
(* attempt that was under way at the same time, since a rollback writes    *)
(* all deployments of the namespace as they were when it captured them;    *)
(* never that of an attempt before or after it.                            *)
(***************************************************************************)
Disturbed(a) == \E b \in meddling : <<a, b>> \in overlap

Standing ==
  /\ \A a \in succeeded :
       effect[a] = "change" => a \in applied \/ Disturbed(a)
  /\ \A a \in undone : a \in applied => Disturbed(a)

(***************************************************************************)
(* The mode is asked once, before oc calls that take up to minutes. After  *)
(* a switch away from live a caller still has the effect of the action it  *)
(* is at, and no other until the mode is live again or it is forced to.    *)
(***************************************************************************)
SwitchHolds ==
  [][\A c \in Callers :
       PerformEffect(c) /\ ~ live /\ ~ forced[c] => c \notin late]_vars

(***************************************************************************)
(* The attempts of the callers, however their frames are interleaved, make *)
(* up an audit trail: what is open there is what the callers are at.       *)
(***************************************************************************)
Trail ==
  INSTANCE AuditTrail WITH
    Effects <- {"change", "delete"},
    handed <- begun,
    open <- UnderWay,
    lost <- cut

RefinesTrail == Trail!Spec
=============================================================================
