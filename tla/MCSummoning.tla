---------------------------- MODULE MCSummoning ----------------------------
(* The instance is given by the configuration alone. *)
EXTENDS Summoning
=============================================================================
