-------------------------- MODULE MCCircuitBreaker --------------------------
(***************************************************************************)
(* Three threads are enough for a straggler, a stamper and a thread that   *)
(* checks for expiry at the same time. The count is not bounded: with the  *)
(* breaker's own threshold OutageContained bounds it.                      *)
(***************************************************************************)
EXTENDS CircuitBreaker

CONSTANTS c1, c2, c3
=============================================================================
