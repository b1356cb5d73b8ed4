------------------------------- MODULE MCRadio ------------------------------
(* Two passkey prompts to a window, one failing call; two phones that want  *)
(* the dash next to the serial host, with a queue of one line.             *)
EXTENDS Radio
=============================================================================
