---------------------------- MODULE RunLifecycle ----------------------------
(***************************************************************************)
(* What the Run ledger promises, seen from outside: every Run goes through *)
(* the transitions that RunManager centralises, a restart is the only way  *)
(* into "interrupted", and a terminal Run is never reopened.  RunManager   *)
(* (the detailed module) is shown to implement this specification.         *)
(***************************************************************************)
CONSTANT Run            \* the run ids

VARIABLE status         \* run id -> durable status ("absent": no row yet)

Terminal == {"succeeded", "failed", "cancelled", "interrupted"}
Live == {"created", "running", "waiting"}
RunStatus == {"absent"} \union Live \union Terminal

\* _VALID_TRANSITIONS: what transition_run accepts from each status.
ValidTransitions ==
    [absent |-> {},
     created |-> {"running", "cancelled"},
     running |-> {"waiting", "succeeded", "failed", "cancelled"},
     waiting |-> {"running", "succeeded", "failed", "cancelled"},
     succeeded |-> {}, failed |-> {}, cancelled |-> {}, interrupted |-> {}]

Init == status = [r \in Run |-> "absent"]

\* A start creates the row and moves it on to "running" within one turn of the
\* event loop; an exception in between leaves the row in "created".
Begin(r) ==
    /\ status[r] = "absent"
    /\ \E s \in {"created", "running"} : status' = [status EXCEPT ![r] = s]

Move(r) ==
    /\ \E s \in ValidTransitions[status[r]] : status' = [status EXCEPT ![r] = s]

\* The manager starts again: every attempt the old process left live is over.
Interrupt ==
    status' = [r \in Run |-> IF status[r] \in Live THEN "interrupted" ELSE status[r]]

Next == Interrupt \/ \E r \in Run : Begin(r) \/ Move(r)

Spec == Init /\ [][Next]_status
=============================================================================
