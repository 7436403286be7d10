----------------------------- MODULE MCBackfill -----------------------------
(***************************************************************************)
(* Pages of two rows: three evaluations fill a page and a half, and one    *)
(* that arrives moves a row across the boundary of two pages, as does an   *)
(* order of ties that another statement chooses. Two moments: a page's     *)
(* edge cuts a tie or lies between two moments. Three pages can be all     *)
(* there is to read or fewer. Two days, so that the second finds what the  *)
(* first has left.                                                         *)
(***************************************************************************)
EXTENDS Backfill

CONSTANTS k1, k2, l1, l2
=============================================================================
