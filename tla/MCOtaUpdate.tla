---------------------------- MODULE MCOtaUpdate -----------------------------
(* OtaUpdate where hosts offer a signed image and one that is not. *)
EXTENDS OtaUpdate

CONSTANTS factory, update, rogue

MCImages == {factory, update, rogue}
MCOffered == {update, rogue}
MCSigned == {factory, update}
=============================================================================
