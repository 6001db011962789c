--------------------------- MODULE MCTriggerEvents ---------------------------
(* Small instances of TriggerEvents for TLC. *)
EXTENDS TriggerEvents
=============================================================================
