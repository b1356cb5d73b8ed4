--------------------------- MODULE ConfigRegister ---------------------------
(***************************************************************************)
(* What the config storage promises: one register holding the dashboard    *)
(* document the next boot would bring up.  The host may offer a document   *)
(* at any time; the register either keeps its value or takes the offered   *)
(* one whole, at one instant.  It promises nothing more once it has been   *)
(* damaged (ConfigStore says which events damage it).                      *)
(***************************************************************************)
CONSTANTS
  Docs,      (* every document a host can send                             *)
  Good,      (* the ones the loader accepts                                *)
  Default    (* the document embedded in the firmware                      *)

VARIABLES
  value,     (* the document the next boot brings up                       *)
  offer,     (* the document last offered                                  *)
  intact     (* nothing has damaged the register so far                    *)

vars == <<value, offer, intact>>

Init ==
  /\ value = Default
  /\ offer = Default
  /\ intact = TRUE

\* A host (or the factory provisioning) offers a document.
Offer(d) ==
  /\ offer' = d
  /\ UNCHANGED <<value, intact>>

\* The offered document takes effect, whole.
Switch ==
  /\ offer \in Good
  /\ value' = offer
  /\ UNCHANGED <<offer, intact>>

\* Damage is permanent, and frees the value.
Damage == intact' = FALSE

Next ==
  \/ \E d \in Docs : Offer(d)
  \/ Switch
  \/ Damage

Spec == Init /\ [][Next]_vars
=============================================================================
