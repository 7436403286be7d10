--------------------------- MODULE MCReplayEngine ---------------------------
(***************************************************************************)
(* One engine, since engines share nothing, started up to three times, so  *)
(* that three threads may look at its attributes. Of three events the      *)
(* second can be a pause point, with events before and after it.           *)
(***************************************************************************)
EXTENDS ReplayEngine

CONSTANTS e1
=============================================================================
