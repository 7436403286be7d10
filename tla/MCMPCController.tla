-------------------------- MODULE MCMPCController --------------------------
(***************************************************************************)
(* Two threads are enough for one to overwrite the other's planning with   *)
(* an older one; the limit treats every cluster by itself, so one is       *)
(* enough. The cooldown is longer than the lag, as in the code.            *)
(***************************************************************************)
EXTENDS MPCController

CONSTANTS w1, w2, cluster1
=============================================================================
