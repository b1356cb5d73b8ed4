------------------------------ MODULE TrialBoot ------------------------------
(***************************************************************************)
(* What a firmware update promises: the dash runs one confirmed image.  A   *)
(* signed image may be put on trial; the trial ends with the image being    *)
(* confirmed, or with the confirmed image coming back.                      *)
(***************************************************************************)
CONSTANTS
  Signed,     (* the images that carry the release signature               *)
  Factory,    (* the image the dash left the factory with                  *)
  NoImage     (* no trial                                                  *)

VARIABLES
  confirmed,  (* the image that comes back whatever happens                *)
  trial       (* the image on trial, from its commit on, or NoImage        *)

vars == <<confirmed, trial>>

Init == confirmed = Factory /\ trial = NoImage

\* A signed image is committed while none is on trial.
Commit(i) ==
  /\ trial = NoImage
  /\ trial' = i
  /\ UNCHANGED confirmed

\* The trial image has proved itself.
Confirm ==
  /\ trial # NoImage
  /\ confirmed' = trial /\ trial' = NoImage

\* It has not.
Undo ==
  /\ trial # NoImage
  /\ trial' = NoImage
  /\ UNCHANGED confirmed

Next == (\E i \in Signed : Commit(i)) \/ Confirm \/ Undo

Spec == Init /\ [][Next]_vars
=============================================================================
