------------------------------ MODULE MCDatalog -----------------------------
(* A ring of two bytes with two-bit counters, records of one or two bytes, *)
(* two sessions.                                                           *)
EXTENDS Datalog
=============================================================================
