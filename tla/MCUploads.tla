----------------------------- MODULE MCUploads ------------------------------
(* Uploads with the bounds of the runs. *)
EXTENDS Uploads

MCTotals == {3}
=============================================================================
