----------------------------- MODULE MCSandbox -----------------------------
(* The instance is given by the configuration alone. *)
EXTENDS Sandbox
=============================================================================
