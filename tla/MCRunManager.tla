---------------------------- MODULE MCRunManager ----------------------------
(* Small forests of runs for RunManager.                                   *)
EXTENDS RunManager, TLC

CONSTANTS r1, r2, r3, a1, a2

\* a parent, its child on another agent, and a grandchild back on the first
Chain == [r \in Run |-> IF r = r2 THEN r1 ELSE IF r = r3 THEN r2 ELSE None]
ChainAncestors == [r \in Run |-> IF r = r2 THEN {r1} ELSE IF r = r3 THEN {r1, r2} ELSE {}]
ChainAgents == [r \in Run |-> IF r = r2 THEN a2 ELSE a1]

\* a parent and its child on one agent
Pair == [r \in Run |-> IF r = r2 THEN r1 ELSE None]
PairAncestors == [r \in Run |-> IF r = r2 THEN {r1} ELSE {}]
OneAgent == [r \in Run |-> a1]

One == [a \in Agent |-> 1]
Two == [a \in Agent |-> 2]
=============================================================================
