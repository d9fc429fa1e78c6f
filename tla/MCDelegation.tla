---------------------------- MODULE MCDelegation ----------------------------
(* Two tasks; the first may be delegated by two requests. *)
EXTENDS Delegation

CONSTANTS q1, q2, q3, a, b

RetryOfOne == [q \in Request |-> IF q = q3 THEN b ELSE a]
=============================================================================
