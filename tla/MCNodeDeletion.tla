--------------------------- MODULE MCNodeDeletion ---------------------------
(* Small instances of NodeDeletion.                                        *)
EXTENDS NodeDeletion, TLC

CONSTANTS a, b, c

\* An Agent a is removed before its sandbox b; c is on its own.
AgentFirst == {<<a, b>>}
=============================================================================
