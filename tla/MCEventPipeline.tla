-------------------------- MODULE MCEventPipeline --------------------------
(***************************************************************************)
(* Two threads, or one with a batch, and two requests; one cluster with a  *)
(* named failure class, and one finding that names neither.                *)
(***************************************************************************)
EXTENDS EventPipeline, TLC

CONSTANTS named, nameless, cluster

Threads == Permutations(Workers)

MCClusterOf == (named :> cluster) @@ (nameless :> NoCluster)
=============================================================================
