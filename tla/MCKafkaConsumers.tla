-------------------------- MODULE MCKafkaConsumers --------------------------
(***************************************************************************)
(* Three ends make a loss, a repetition and a subscription after both;     *)
(* four messages are one before, one between and one after them, and one   *)
(* that ends the thread.                                                   *)
(***************************************************************************)
EXTENDS KafkaConsumers
=============================================================================
