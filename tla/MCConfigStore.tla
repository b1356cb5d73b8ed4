--------------------------- MODULE MCConfigStore ----------------------------
(* ConfigStore with one document of each class beside the embedded default. *)
EXTENDS ConfigStore

CONSTANTS good, refused, garbage, default

MCGood == {good, default}
MCRefused == {refused}
MCUnreadable == {garbage}
=============================================================================
