------------------------------ MODULE MCCanBus ------------------------------
(* Two rates, two retries, one recovery, two faults. *)
EXTENDS CanBus
=============================================================================
