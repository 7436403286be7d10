-------------------------- MODULE MCActionExecutor --------------------------
(***************************************************************************)
(* Two callers and two attempts: one attempt after the other, by the same  *)
(* caller or another, or both at the same time.                            *)
(***************************************************************************)
EXTENDS ActionExecutor, TLC

CONSTANTS c1, c2

Threads == Permutations(Callers)
=============================================================================
