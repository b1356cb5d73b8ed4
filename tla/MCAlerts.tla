------------------------------ MODULE MCAlerts ------------------------------
(* One built-in source and one configured alert. *)
EXTENDS Alerts
=============================================================================
