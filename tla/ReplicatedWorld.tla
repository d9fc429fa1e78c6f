--------------------------- MODULE ReplicatedWorld ---------------------------
(***************************************************************************)
(* What the canvas of a client promises about the world it shows, seen     *)
(* from outside: it shows versions the world really had, it never goes     *)
(* back to an older version while an object stays on the canvas, and an    *)
(* incarnation it knows to be deleted never returns.  ClientSync (the      *)
(* detailed module) is shown to implement this specification.              *)
(***************************************************************************)
EXTENDS Naturals

CONSTANTS Entity, MaxMade

VARIABLES
    peak,   \* entity -> incarnation -> the last revision it reached, 0: not made
    shown,  \* entity -> the version on the canvas, or Absent
    gone    \* entity -> the last incarnation known to be deleted, 0: none

vars == <<peak, shown, gone>>

Absent == [made |-> 0, rev |-> 0]

\* Older means an earlier incarnation, or an earlier revision of the same one.
Older(v, w) == v.made < w.made \/ (v.made = w.made /\ v.rev < w.rev)

Real(e, v) == v.made \in 1..MaxMade /\ v.rev \in 1..peak[e][v.made]

Init ==
    /\ peak \in [Entity -> [1..MaxMade -> {0, 1}]]
    /\ shown = [e \in Entity |-> Absent]
    /\ gone = [e \in Entity |-> 0]

\* The world changes: new incarnations and revisions.
Commit ==
    /\ \A e \in Entity, m \in 1..MaxMade : peak'[e][m] \in {peak[e][m], peak[e][m] + 1}
    /\ UNCHANGED <<shown, gone>>

\* The canvas takes in what it has learned.
Learn ==
    /\ \A e \in Entity :
        /\ shown'[e] = Absent \/ Real(e, shown'[e])
        /\ shown'[e] = Absent \/ ~Older(shown'[e], shown[e])
        /\ shown'[e] = Absent \/ shown'[e].made > gone'[e]
        /\ gone'[e] >= gone[e]
    /\ UNCHANGED peak

Next == Commit \/ Learn

Spec == Init /\ [][Next]_vars
=============================================================================
