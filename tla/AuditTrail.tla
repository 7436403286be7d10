----------------------------- MODULE AuditTrail -----------------------------
(***************************************************************************)
(* What execute() promises whoever reads the audit events of actions,      *)
(* whatever its callers, the database and the cluster do meanwhile: an     *)
(* action is either refused at once, and then never has an effect, or      *)
(* taken on; one that is taken on has at most one effect, before its audit *)
(* event and not after it; the audit event ends it and stays as it is; and *)
(* one that ends without it is lost, all those under way at once if need   *)
(* be, and leaves no effect behind later on. Attempts are numbered.        *)
(***************************************************************************)
EXTENDS Integers

CONSTANTS
  Attempts,
  Effects     \* what an action can do to the cluster

VARIABLES
  handed,     \* the number of actions handed to execute()
  open,       \* the attempts taken on that have not ended
  effect,
  record,     \* the committed audit event that ends an attempt
  lost        \* the attempts that have ended without one

trailVars == <<handed, open, effect, record, lost>>

Init ==
  /\ handed = 0 /\ open = {} /\ lost = {}
  /\ effect = [a \in Attempts |-> "none"]
  /\ record = [a \in Attempts |-> "none"]

HandOver == handed' = handed + 1 /\ handed' \in Attempts

\* The refusal itself may fail to be committed.
Refuse ==
  /\ HandOver
  /\ record' \in {record, [record EXCEPT ![handed'] = "rejected"]}
  /\ UNCHANGED <<open, effect, lost>>

TakeOn ==
  /\ HandOver
  /\ open' = open \cup {handed'}
  /\ UNCHANGED <<effect, record, lost>>

Act(a) ==
  /\ a \in open /\ effect[a] = "none"
  /\ \E e \in Effects : effect' = [effect EXCEPT ![a] = e]
  /\ UNCHANGED <<handed, open, record, lost>>

Conclude(a) ==
  /\ a \in open /\ record[a] = "none"
  /\ record' = [record EXCEPT ![a] = "executed"]
  /\ open' = open \ {a}
  /\ UNCHANGED <<handed, effect, lost>>

Lose(gone) ==
  /\ gone \subseteq open
  /\ open' = open \ gone
  /\ lost' = lost \cup gone
  /\ UNCHANGED <<handed, effect, record>>

Next ==
  \/ Refuse \/ TakeOn
  \/ \E a \in open : Act(a) \/ Conclude(a)
  \/ \E gone \in SUBSET open : Lose(gone)

Spec == Init /\ [][Next]_trailVars
=============================================================================
