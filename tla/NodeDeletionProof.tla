------------------------- MODULE NodeDeletionProof -------------------------
(***************************************************************************)
(* What NodeDeletion guarantees for every finite set of nodes, every       *)
(* dependency between them, and any failures and crashes: its five         *)
(* invariants follow from one inductive invariant, Inv, whose parts say    *)
(* how the rows of a batch belong together, how far the deletion that      *)
(* holds the lock has come, and what a start has undone so far.            *)
(***************************************************************************)
EXTENDS NodeDeletion, FiniteSetTheorems, WellFoundedInduction, TLAPS

Share(s, t) == In(s) \intersect In(t) # {}

\* A row is empty, or names its node's batch.
RowNamed ==
    \A n \in Node : IF Pending(n) THEN n \in In(row[n].batch) ELSE row[n] = NoRow

\* The batches of the journal, and those of the finalizations, do not overlap.
Apart ==
    /\ \A n, m \in Node : Pending(n) /\ Pending(m) /\ Share(row[n].batch, row[m].batch)
                              => row[n].batch = row[m].batch
    /\ \A t \in tails, n \in Node : Pending(n) /\ Share(t.batch, row[n].batch)
                              => t.batch = row[n].batch
    /\ \A t, u \in tails : Share(t.batch, u.batch) => t = u

\* A batch is in the graph, or out of it, as a whole, and then wholly committed.
Whole ==
    \A n \in Node : Pending(n) =>
        /\ \A m \in In(row[n].batch) : (m \in cards) = (n \in cards)
        /\ n \notin cards => row[n].state = "committed"

\* At most one batch of live nodes is pending, at the revisions of its cards.
OneLive ==
    \A n \in LivePending : /\ \A m \in LivePending : row[m].batch = row[n].batch
                           /\ row[n].rev.edit = rev[n].edit

\* The deletion that holds the lock: its own batch, in the graph.
Selected ==
    op.phase \in {"commit", "rollback"} =>
        \A n \in In(op.batch) : n \in cards /\ (Pending(n) => row[n].batch = op.batch)

\* Commits come in order; the one at the position is as far as op.at says.
Attempt ==
    op.phase = "commit" =>
        /\ op.pos \in 1..(Len(op.batch) + 1)
        /\ op.batch # <<>>
        /\ op.pos > Len(op.batch) => op.at = "ready"
        /\ \A i \in DOMAIN op.batch :
              LET n == op.batch[i]
              IN  IF i < op.pos THEN row[n].state = "committed" /\ plug[n] = "removed"
                  ELSE IF i > op.pos THEN row[n].state = "prepared"
                  ELSE /\ row[n].state = IF op.at = "ready" THEN "prepared" ELSE "started"
                       /\ plug[n] = IF op.at = "acted" THEN "removed" ELSE "intact"

\* Compensations come from the last to the first: beyond the position all is undone.
Undo ==
    op.phase = "rollback" =>
        /\ op.pos \in 0..Len(op.batch)
        /\ op.pos = 0 => op.at = "ready"
        /\ op.pos > 0 => \A i \in DOMAIN op.batch :
                            i > op.pos => row[op.batch[i]].state \in {"none", "prepared"}
        /\ op.at = "acted" => plug[Here] = "intact"

\* A start writes down what it has just undone.
Redo ==
    /\ op.phase = "down" => op.at = "ready"
    /\ op.phase = "recover" /\ op.at = "acted" =>
           \A n \in Node : Restorable(n) => plug[n] = "intact" /\ row[n].state # "prepared"

\* The i-th node of the batch is the first that is owed its finalization.
IsNext(t, i) ==
    /\ i \in DOMAIN t.batch /\ Pending(t.batch[i])
    /\ \A j \in DOMAIN t.batch : j < i => ~Pending(t.batch[j])

\* A finalization works on nodes that are out of the graph, each in its turn.
TailSane ==
    \A t \in tails :
        /\ \A n \in In(t.batch) : n \notin cards
        /\ t.at = "acted" => \E i \in DOMAIN t.batch : IsNext(t, i) /\ plug[t.batch[i]] = "cleaned"

Inv ==
    /\ TypeOK /\ RemovalJournalled /\ CleanupOwed /\ DependencyOrder
    /\ RowNamed /\ Apart /\ Whole /\ OneLive /\ Selected /\ Attempt /\ Undo /\ Redo /\ TailSane

-----------------------------------------------------------------------------
LEMMA BatchFacts ==
    ASSUME NEW s \in Batch
    PROVE  /\ Len(s) \in Nat /\ Len(s) <= Cardinality(Node) /\ DOMAIN s = 1..Len(s)
           /\ In(s) \subseteq Node
           /\ \A n : n \in In(s) <=> \E i \in 1..Len(s) : s[i] = n
           /\ \A i, j \in 1..Len(s) : s[i] = s[j] => i = j
           /\ \A i, j \in 1..Len(s) : <<s[i], s[j]>> \in Before => i < j
<1>1. PICK S \in SUBSET Node : s \in Orders(S)
    BY DEF Batch
<1>2. IsFiniteSet(S) /\ Cardinality(S) \in Nat /\ Cardinality(S) <= Cardinality(Node)
    BY DeletionConstants, FS_Subset, FS_CardinalityType
<1>3. s \in [1..Cardinality(S) -> S] /\ s \in Seq(S) /\ Len(s) = Cardinality(S)
    BY <1>1, <1>2 DEF Orders
<1>4. s \in Surjection(1..Cardinality(S), S)
    BY <1>1, <1>3 DEF Orders, Surjection
<1>5. s \in Injection(1..Cardinality(S), S)
    <2>1. IsFiniteSet(1..Cardinality(S)) /\ Cardinality(1..Cardinality(S)) = Cardinality(S)
        BY <1>2, FS_Interval
    <2> QED BY <1>2, <1>4, <2>1, FS_SurjSameCardinalityImpliesInj
<1>6. \A i, j \in 1..Len(s) : s[i] = s[j] => i = j
    BY <1>3, <1>5 DEF Injection, IsInjective
<1>7. \A i, j \in 1..Len(s) : <<s[i], s[j]>> \in Before => i < j
    BY <1>1, <1>3 DEF Orders
<1>8. \A n : n \in In(s) <=> \E i \in 1..Len(s) : s[i] = n
    BY <1>3 DEF In
<1> QED BY <1>2, <1>3, <1>6, <1>7, <1>8

LEMMA OrderFacts ==
    ASSUME NEW S \in SUBSET Node, NEW s \in Orders(S)
    PROVE  s \in Batch /\ In(s) = S /\ (S # {} => Len(s) >= 1)
<1>1. s \in Batch /\ In(s) = S
    BY DEF Batch, Orders, In
<1> QED BY <1>1, BatchFacts

LEMMA LeastIndex ==
    ASSUME NEW T \in SUBSET Nat, T # {}
    PROVE  \E i \in T : \A j \in T : i <= j
<1>1. IsWellFoundedOn(OpToRel(<, Nat), Nat)
    BY NatLessThanWellFounded
<1>2. \E x \in T : \A y \in T : ~(<<y, x>> \in OpToRel(<, Nat))
    BY <1>1, WFMin
<1>3. \A x, y \in Nat : ~(<<y, x>> \in OpToRel(<, Nat)) => x <= y
    BY DEF OpToRel
<1> QED BY <1>2, <1>3

LEMMA DueFacts ==
    ASSUME NEW t, t.batch \in Batch, Unfinished(t)
    PROVE  \E i \in 1..Len(t.batch) : /\ Due(t) = t.batch[i] /\ Pending(t.batch[i])
                                     /\ \A j \in 1..Len(t.batch) : j < i => ~Pending(t.batch[j])
<1> DEFINE T == {i \in 1..Len(t.batch) : Pending(t.batch[i])}
<1>1. T # {} /\ T \in SUBSET Nat
    BY BatchFacts DEF Unfinished
<1>2. \E i \in T : \A j \in T : i <= j
    BY <1>1, LeastIndex
<1>3. \E i \in DOMAIN t.batch : Pending(t.batch[i]) /\ \A j \in DOMAIN t.batch : j < i => ~Pending(t.batch[j])
    BY <1>2, BatchFacts
<1> QED BY <1>3, BatchFacts DEF Due

LEMMA NoBatch == <<>> \in Batch /\ In(<<>>) = {} /\ Len(<<>>) = 0
<1>1. Cardinality({}) = 0
    BY FS_EmptySet
<1>2. <<>> \in Orders({})
    BY <1>1 DEF Orders
<1> QED BY <1>2, OrderFacts

LEMMA NodeCount == Cardinality(Node) \in Nat
    BY DeletionConstants, FS_CardinalityType

LEMMA HereFacts ==
    ASSUME Inv, op.phase \in {"commit", "rollback"}, op.pos \in 1..Len(op.batch)
    PROVE  /\ Here \in Node /\ Here \in cards /\ Here \in In(op.batch)
           /\ op.batch[op.pos] = Here
           /\ DOMAIN op.batch = 1..Len(op.batch) /\ Len(op.batch) \in Nat
           /\ \A i \in 1..Len(op.batch) : op.batch[i] = Here => i = op.pos
    BY BatchFacts DEF Inv, TypeOK, Selected, Here

\* A step keeps the journal when it touches rows and plugins of live nodes only, and
\* clears rows or leaves their batches and snapshots: batches stay apart and whole.
JournalKept ==
    /\ UNCHANGED cards
    /\ tails' \subseteq tails
    /\ \A n \in Node : n \notin cards => row'[n] = row[n] /\ plug'[n] = plug[n]
    /\ \A n \in Node : rev'[n].edit = rev[n].edit
    /\ \A n \in Node : \/ row'[n] = NoRow
                       \/ /\ row[n].state # "none" /\ row'[n].state # "none"
                          /\ row'[n].batch = row[n].batch /\ row'[n].rev = row[n].rev

LEMMA KeptStep ==
    ASSUME Inv, JournalKept
    PROVE  Apart' /\ Whole' /\ TailSane' /\ RowNamed' /\ OneLive'
<1> USE DEF JournalKept, NoRow, Pending
<1>1. Apart'
    BY DEF Inv, Apart
<1>2. Whole'
    BY DEF Inv, Whole
<1>3. RowNamed' /\ OneLive'
    <2>1. RowNamed'
        BY DEF Inv, RowNamed
    <2>2. \A n \in LivePending' : /\ n \in LivePending
                                  /\ row'[n].batch = row[n].batch /\ row'[n].rev = row[n].rev
                                  /\ rev'[n].edit = rev[n].edit
        BY DEF Inv, TypeOK, LivePending
    <2>3. OneLive'
        BY <2>2 DEF Inv, OneLive
    <2> QED BY <2>1, <2>3
<1>4. ASSUME NEW t \in tails'
      PROVE  /\ \A n \in In(t.batch) : n \notin cards'
             /\ t.at = "acted" =>
                    \E i \in DOMAIN t.batch : IsNext(t, i)' /\ plug'[t.batch[i]] = "cleaned"
    <2>1. t \in tails /\ t.batch \in Batch
        BY <1>4 DEF Inv, TypeOK
    <2>2. \A i \in DOMAIN t.batch : /\ t.batch[i] \in Node /\ t.batch[i] \notin cards
        BY <2>1, BatchFacts DEF Inv, TailSane
    <2>3. \A i \in DOMAIN t.batch : /\ Pending(t.batch[i])' <=> Pending(t.batch[i])
                                    /\ plug'[t.batch[i]] = plug[t.batch[i]]
        BY <2>2
    <2> QED BY <2>1, <2>3 DEF Inv, TailSane, IsNext
<1>5. TailSane'
    BY <1>4 DEF TailSane
<1> QED BY <1>1, <1>2, <1>3, <1>5

\* While no plugin acts, cleanup stays owed and the dependencies hold.
LEMMA PlugStep ==
    ASSUME Inv, JournalKept, UNCHANGED plug
    PROVE  CleanupOwed' /\ DependencyOrder'
<1>1. CleanupOwed'
    BY DEF Inv, CleanupOwed, JournalKept
<1>2. DependencyOrder'
    <2> SUFFICES ASSUME NEW n, NEW m, <<n, m>> \in Before, row'[n].state # "none", m \in In(row'[n].batch)
                 PROVE  /\ plug[m] = "cleaned" => plug[n] = "cleaned"
                        /\ plug[m] = "removed" => plug[n] # "intact"
        BY DeletionConstants DEF DependencyOrder, Pending
    <2>1. n \in Node /\ row[n].state # "none" /\ m \in In(row[n].batch)
        BY DeletionConstants DEF JournalKept, NoRow
    <2> QED BY <2>1 DEF Inv, DependencyOrder, Pending
<1> QED BY <1>1, <1>2

LEMMA InitStep == Init => Inv
<1> SUFFICES ASSUME Init PROVE Inv
    OBVIOUS
<1>1. \A n \in Node : row[n] = NoRow /\ row[n].state = "none" /\ n \in cards
    BY DEF Init, NoRow
<1>2. TypeOK
    BY NoBatch, DeletionConstants, FS_CardinalityType DEF Init, TypeOK, NoRow, NoRev, Quiet, Progress
<1>3. op.phase = "idle" /\ tails = {} /\ \A n \in Node : plug[n] = "intact"
    BY DEF Init, Quiet
<1>4. OneLive /\ Apart /\ Whole /\ RowNamed
    BY <1>1, <1>2, <1>3 DEF TypeOK, OneLive, LivePending, Apart, Whole, RowNamed, Pending
<1>5. RemovalJournalled /\ CleanupOwed /\ DependencyOrder
    BY <1>1, <1>2, <1>3, DeletionConstants
       DEF RemovalJournalled, CleanupOwed, DependencyOrder, Pending, TypeOK
<1>6. Selected /\ Attempt /\ Undo /\ Redo /\ TailSane
    BY <1>3 DEF Selected, Attempt, Undo, Redo, TailSane
<1> QED BY <1>2, <1>4, <1>5, <1>6 DEF Inv

LEMMA EditStep ==
    ASSUME Inv, NEW n \in Node, Edit(n)
    PROVE  Inv'
<1> USE DEF Edit, Pending
<1>1. rev' \in [Node -> [edit : 0..MaxRev, status : 0..MaxRev]]
    BY DeletionConstants DEF Inv, TypeOK
<1>2. TypeOK'
    BY <1>1 DEF Inv, TypeOK
<1>3. Apart' /\ Whole' /\ RowNamed'
    BY DEF Inv, Apart, Whole, RowNamed
<1>4. OneLive'
    BY DEF Unlocked, LivePending, OneLive
<1>5. RemovalJournalled' /\ CleanupOwed' /\ DependencyOrder'
    BY DEF Inv, RemovalJournalled, CleanupOwed, DependencyOrder
<1>6. Selected' /\ Attempt' /\ Undo' /\ Redo'
    BY DEF Unlocked, Selected, Attempt, Undo, Redo
<1>7. TailSane'
    BY DEF Inv, TailSane, IsNext
<1> QED BY <1>2, <1>3, <1>4, <1>5, <1>6, <1>7 DEF Inv

LEMMA StatusChangesStep ==
    ASSUME Inv, NEW n \in Node, StatusChanges(n)
    PROVE  Inv'
<1> USE DEF StatusChanges
<1>1. /\ rev' \in [Node -> [edit : 0..MaxRev, status : 0..MaxRev]]
      /\ \A m \in Node : rev'[m].edit = rev[m].edit
    BY DeletionConstants DEF Inv, TypeOK
<1>2. TypeOK'
    BY <1>1 DEF Inv, TypeOK
<1>3. JournalKept
    BY <1>1 DEF JournalKept, Inv, RowNamed, Pending
<1>4. Selected' /\ RemovalJournalled'
    BY DEF Inv, Selected, RemovalJournalled, Pending
<1>5. Attempt' /\ Undo' /\ Redo'
    BY DEF Inv, Attempt, Undo, Redo, Here
<1> QED BY <1>2, <1>3, <1>4, <1>5, KeptStep, PlugStep DEF Inv

LEMMA DeleteStep ==
    ASSUME Inv, NEW S \in SUBSET Node, Delete(S)
    PROVE  Inv'
<1> USE DEF Pending
<1>1. PICK s \in Orders(S) :
            /\ row' = [n \in Node |->
                          IF n \in S THEN [state |-> "prepared", batch |-> s, rev |-> rev[n]]
                                     ELSE row[n]]
            /\ op' = [phase |-> "commit", batch |-> s, pos |-> 1, at |-> "ready"]
    BY DEF Delete
<1>2. /\ s \in Batch /\ In(s) = S /\ S # {} /\ S \subseteq cards /\ cards \subseteq Node
      /\ Len(s) \in Nat /\ Len(s) >= 1 /\ Len(s) <= Cardinality(Node) /\ DOMAIN s = 1..Len(s)
    BY OrderFacts, BatchFacts DEF Delete, Inv, TypeOK
<1>3. \A n \in cards : row[n].state = "none" /\ plug[n] = "intact"
    BY <1>2 DEF Delete, Unlocked, LivePending, Inv, RemovalJournalled
<1>4. /\ \A n \in S : row'[n].state = "prepared" /\ row'[n].batch = s /\ row'[n].rev = rev[n]
      /\ \A n \in Node \ S : row'[n] = row[n]
      /\ UNCHANGED <<cards, rev, plug, tails>>
    BY <1>1, <1>2 DEF Delete
<1>5. TypeOK'
    <2>1. op' \in [phase : {"idle", "commit", "rollback", "down", "recover", "clean"},
                   batch : Batch, pos : 0..(Cardinality(Node) + 1), at : Progress]
        BY <1>1, <1>2, DeletionConstants, FS_CardinalityType DEF Progress
    <2>2. row' \in [Node -> [state : {"none", "prepared", "started", "committed"},
                             batch : Batch, rev : [edit : 0..MaxRev, status : 0..MaxRev]]]
        BY <1>1, <1>2 DEF Inv, TypeOK
    <2> QED BY <1>4, <2>1, <2>2 DEF Inv, TypeOK
\* What was pending is out of the graph, and shares no node with the new batch.
<1>6. \A n \in Node \ S : row[n].state # "none" =>
          n \notin cards /\ ~Share(row[n].batch, s) /\ ~Share(s, row[n].batch)
    <2> SUFFICES ASSUME NEW n \in Node \ S, row[n].state # "none"
                 PROVE  n \notin cards /\ ~Share(row[n].batch, s) /\ ~Share(s, row[n].batch)
        OBVIOUS
    <2>1. n \notin cards
        BY <1>3
    <2>2. \A m \in In(row[n].batch) : m \notin cards
        BY <2>1 DEF Inv, Whole
    <2> QED BY <1>2, <2>1, <2>2 DEF Share
<1>7. \A t \in tails : ~Share(t.batch, s)
    BY <1>2 DEF Inv, TailSane, Share
<1>8. Apart'
    <2>1. \A n, m \in Node : Pending(n)' /\ Pending(m)' /\ Share(row'[n].batch, row'[m].batch)
                => row'[n].batch = row'[m].batch
        BY <1>4, <1>6 DEF Inv, Apart
    <2>2. \A t \in tails, n \in Node : Pending(n)' /\ Share(t.batch, row'[n].batch)
                => t.batch = row'[n].batch
        BY <1>4, <1>7 DEF Inv, Apart
    <2> QED BY <1>4, <2>1, <2>2 DEF Inv, Apart
<1>9. Whole'
    BY <1>2, <1>4 DEF Inv, Whole
<1>10. OneLive'
    BY <1>2, <1>3, <1>4 DEF OneLive, LivePending
<1>11. RemovalJournalled' /\ CleanupOwed'
    BY <1>2, <1>3, <1>4 DEF Inv, RemovalJournalled, CleanupOwed
<1>12. RowNamed'
    BY <1>2, <1>4 DEF Inv, RowNamed
<1>13. DependencyOrder'
    <2> SUFFICES ASSUME NEW n, NEW m, <<n, m>> \in Before, row'[n].state # "none", m \in In(row'[n].batch)
                 PROVE  /\ plug[m] = "cleaned" => plug[n] = "cleaned"
                        /\ plug[m] = "removed" => plug[n] # "intact"
        BY <1>4, DeletionConstants DEF DependencyOrder
    <2>1. n \in Node /\ m \in Node
        BY DeletionConstants
    <2>2. CASE n \in S BY <1>2, <1>3, <1>4, <2>2
    <2>3. CASE n \notin S BY <1>4, <2>1, <2>3 DEF Inv, DependencyOrder
    <2> QED BY <2>2, <2>3
<1>14. Selected'
    BY <1>1, <1>2, <1>4 DEF Selected
<1>15. Attempt'
    <2>1. \A i \in DOMAIN s : s[i] \in S
        BY <1>2, BatchFacts
    <2> QED BY <1>1, <1>2, <1>3, <1>4, <2>1, NoBatch DEF Attempt
<1>16. Undo' /\ Redo'
    BY <1>1 DEF Undo, Redo
<1>17. TailSane'
    <2>1. ASSUME NEW t \in tails
          PROVE  /\ \A i \in DOMAIN t.batch : t.batch[i] \in Node \ S
                 /\ \A i \in DOMAIN t.batch : row'[t.batch[i]] = row[t.batch[i]]
        <3>1. t.batch \in Batch /\ \A n \in In(t.batch) : n \notin cards
            BY <2>1 DEF Inv, TypeOK, TailSane
        <3>2. \A i \in DOMAIN t.batch : t.batch[i] \in Node /\ t.batch[i] \in In(t.batch)
            BY <3>1, BatchFacts
        <3>3. \A i \in DOMAIN t.batch : t.batch[i] \in Node \ S
            BY <1>2, <3>1, <3>2
        <3> QED BY <1>4, <3>3
    <2> QED BY <1>4, <2>1 DEF Inv, TailSane, IsNext
<1> QED BY <1>5, <1>8, <1>9, <1>10, <1>11, <1>12, <1>13, <1>14, <1>15, <1>16, <1>17 DEF Inv


-----------------------------------------------------------------------------
(* The deletion that holds the lock.                                       *)

\* What an assignment to the state of one row does.
LEMMA RowStep ==
    ASSUME TypeOK, NEW h \in Node, NEW x \in {"started", "committed"},
           row' = [row EXCEPT ![h].state = x]
    PROVE  /\ row' \in [Node -> [state : {"none", "prepared", "started", "committed"},
                                 batch : Batch, rev : [edit : 0..MaxRev, status : 0..MaxRev]]]
           /\ \A m \in Node : /\ m # h => row'[m] = row[m]
                              /\ row'[m].batch = row[m].batch /\ row'[m].rev = row[m].rev
           /\ row'[h].state = x
<1> DEFINE Row == [state : {"none", "prepared", "started", "committed"},
                   batch : Batch, rev : [edit : 0..MaxRev, status : 0..MaxRev]]
<1>1. row \in [Node -> Row]
    BY DEF TypeOK
<1>2. [row[h] EXCEPT !.state = x] \in Row
    BY <1>1
<1> HIDE DEF Row
<1>3. row' \in [Node -> Row] /\ row'[h] = [row[h] EXCEPT !.state = x]
    BY <1>1, <1>2
<1>4. \A m \in Node : m # h => row'[m] = row[m]
    BY <1>1
<1> USE DEF Row
<1> QED BY <1>1, <1>3, <1>4

LEMMA CommitStartsStep ==
    ASSUME Inv, CommitStarts
    PROVE  Inv'
<1> USE DEF CommitStarts, Committing
<1>1. /\ Here \in Node /\ Here \in cards /\ op.batch[op.pos] = Here
      /\ DOMAIN op.batch = 1..Len(op.batch) /\ Len(op.batch) \in Nat
      /\ \A i \in 1..Len(op.batch) : op.batch[i] = Here => i = op.pos
      /\ op.pos \in 1..Len(op.batch) /\ row[Here].state = "prepared" /\ plug[Here] = "intact"
    BY HereFacts, BatchFacts DEF Inv, TypeOK, Attempt
<1>2. /\ \A m \in Node : /\ m # Here => row'[m] = row[m]
                         /\ row'[m].batch = row[m].batch /\ row'[m].rev = row[m].rev
      /\ row'[Here].state = "started"
      /\ op'.phase = "commit" /\ op'.batch = op.batch /\ op'.pos = op.pos /\ op'.at = "calling"
      /\ UNCHANGED <<cards, rev, plug, tails>>
    BY <1>1, RowStep DEF Intent, Inv, TypeOK
<1>3. TypeOK'
    <2>1. op' \in [phase : {"idle", "commit", "rollback", "down", "recover", "clean"},
                   batch : Batch, pos : 0..(Cardinality(Node) + 1), at : Progress]
        BY DEF Inv, TypeOK, Progress
    <2> QED BY <1>1, <2>1, RowStep DEF Inv, TypeOK, Intent
<1>4. JournalKept
    BY <1>1, <1>2 DEF JournalKept, Inv, RowNamed, Pending
<1>5. RemovalJournalled'
    <2>1. cards \subseteq Node
        BY DEF Inv, TypeOK
    <2> QED BY <1>1, <1>2, <2>1 DEF Inv, RemovalJournalled
<1>6. Selected'
    <2>1. In(op.batch) \subseteq Node
        BY BatchFacts DEF Inv, TypeOK
    <2> QED BY <1>1, <1>2, <2>1 DEF Inv, Selected, Pending
<1>7. Attempt'
    <2>1. \A i \in 1..Len(op.batch) : i # op.pos => row'[op.batch[i]] = row[op.batch[i]]
        BY <1>1, <1>2, BatchFacts DEF Inv, TypeOK
    <2> QED BY <1>1, <1>2, <2>1 DEF Inv, Attempt
<1>8. Undo' /\ Redo'
    BY <1>2 DEF Undo, Redo
<1> QED BY <1>2, <1>3, <1>4, <1>5, <1>6, <1>7, <1>8, KeptStep, PlugStep DEF Inv

LEMMA CommitActsStep ==
    ASSUME Inv, CommitActs
    PROVE  Inv'
<1> USE DEF CommitActs, Committing
<1>1. /\ Here \in Node /\ Here \in cards /\ op.batch[op.pos] = Here /\ op.batch \in Batch
      /\ DOMAIN op.batch = 1..Len(op.batch) /\ Len(op.batch) \in Nat
      /\ \A i \in 1..Len(op.batch) : op.batch[i] = Here => i = op.pos
      /\ op.pos \in 1..Len(op.batch) /\ row[Here].state = "started" /\ row[Here].batch = op.batch
      /\ Here \in In(op.batch)
    BY HereFacts, BatchFacts DEF Inv, TypeOK, Attempt, Selected, Pending
<1>2. /\ plug' = [plug EXCEPT ![Here] = "removed"]
      /\ op'.phase = "commit" /\ op'.batch = op.batch /\ op'.pos = op.pos /\ op'.at = "acted"
      /\ UNCHANGED <<cards, rev, row, tails>>
    BY DEF Inv, TypeOK
<1>3. TypeOK'
    BY <1>1 DEF Inv, TypeOK, Progress
<1>4. JournalKept
    BY <1>1, <1>2 DEF JournalKept, Inv, RowNamed, Pending, TypeOK
<1>5. RemovalJournalled' /\ CleanupOwed'
    BY <1>1, <1>2 DEF Inv, TypeOK, RemovalJournalled, CleanupOwed
\* What commits before it has been removed already.
<1>6. DependencyOrder'
    <2> SUFFICES ASSUME NEW n, NEW m, <<n, m>> \in Before, row[n].state # "none", m \in In(row[n].batch)
                 PROVE  /\ plug'[m] = "cleaned" => plug'[n] = "cleaned"
                        /\ plug'[m] = "removed" => plug'[n] # "intact"
        BY <1>2, DeletionConstants DEF DependencyOrder, Pending
    <2>1. n \in Node /\ m \in Node
        BY DeletionConstants
    <2>2. CASE m = Here
        <3>1. n \in In(op.batch)
            <4>1. Share(row[n].batch, row[Here].batch)
                BY <1>1, <2>2 DEF Share
            <4>2. row[n].batch = op.batch
                BY <1>1, <2>1, <4>1 DEF Inv, Apart, Pending
            <4> QED BY <2>1, <4>2 DEF Inv, RowNamed, Pending
        <3>2. PICK i \in 1..Len(op.batch) : op.batch[i] = n
            BY <1>1, <3>1, BatchFacts
        <3>3. i < op.pos
            BY <1>1, <2>2, <3>2, BatchFacts
        <3>4. plug[n] = "removed"
            BY <1>1, <3>2, <3>3 DEF Inv, Attempt
        <3> QED BY <1>1, <1>2, <2>1, <2>2, <3>4 DEF Inv, TypeOK
    <2>3. CASE m # Here
        <3>1. plug'[m] = plug[m]
            BY <1>2, <2>1, <2>3 DEF Inv, TypeOK
        <3>2. CASE n = Here
            <4>1. m \in cards
                BY <1>1, <3>2 DEF Inv, Selected
            <4> QED BY <1>1, <1>2, <2>1, <3>1, <3>2, <4>1 DEF Inv, TypeOK, CleanupOwed
        <3>3. CASE n # Here
            BY <1>2, <2>1, <3>1, <3>3 DEF Inv, TypeOK, DependencyOrder, Pending
        <3> QED BY <3>2, <3>3
    <2> QED BY <2>2, <2>3
<1>7. Selected'
    BY <1>2 DEF Inv, TypeOK, Selected, Pending
<1>8. Attempt'
    <2>1. \A i \in 1..Len(op.batch) : i # op.pos => plug'[op.batch[i]] = plug[op.batch[i]]
        BY <1>1, <1>2, BatchFacts DEF Inv, TypeOK
    <2>2. plug'[Here] = "removed"
        BY <1>1, <1>2 DEF Inv, TypeOK
    <2> QED BY <1>1, <1>2, <2>1, <2>2 DEF Inv, Attempt
<1>9. Undo' /\ Redo'
    BY <1>2 DEF Undo, Redo
<1> QED BY <1>3, <1>4, <1>5, <1>6, <1>7, <1>8, <1>9, KeptStep DEF Inv

LEMMA CommitRecordedStep ==
    ASSUME Inv, CommitRecorded
    PROVE  Inv'
<1> USE DEF CommitRecorded, Committing, Onward
<1>1. /\ Here \in Node /\ Here \in cards /\ op.batch[op.pos] = Here
      /\ DOMAIN op.batch = 1..Len(op.batch) /\ Len(op.batch) \in Nat /\ Len(op.batch) <= Cardinality(Node)
      /\ \A i \in 1..Len(op.batch) : op.batch[i] = Here => i = op.pos
      /\ op.pos \in 1..Len(op.batch) /\ row[Here].state = "started" /\ plug[Here] = "removed"
    BY HereFacts, BatchFacts DEF Inv, TypeOK, Attempt
<1>2. /\ \A m \in Node : /\ m # Here => row'[m] = row[m]
                         /\ row'[m].batch = row[m].batch /\ row'[m].rev = row[m].rev
      /\ row'[Here].state = "committed"
      /\ op'.phase = "commit" /\ op'.batch = op.batch /\ op'.pos = op.pos + 1 /\ op'.at = "ready"
      /\ UNCHANGED <<cards, rev, plug, tails>>
    BY <1>1, RowStep DEF Inv, TypeOK
<1>3. TypeOK'
    <2>1. op.pos + 1 \in 0..(Cardinality(Node) + 1)
        BY <1>1, NodeCount
    <2>2. op' \in [phase : {"idle", "commit", "rollback", "down", "recover", "clean"},
                   batch : Batch, pos : 0..(Cardinality(Node) + 1), at : Progress]
        BY <2>1 DEF Inv, TypeOK, Progress
    <2> QED BY <1>1, <2>2, RowStep DEF Inv, TypeOK
<1>4. JournalKept
    BY <1>1, <1>2 DEF JournalKept, Inv, RowNamed, Pending
<1>5. RemovalJournalled'
    BY <1>1, <1>2 DEF Inv, TypeOK, RemovalJournalled
<1>6. Selected'
    BY <1>1, <1>2 DEF Inv, TypeOK, Selected, Pending
<1>7. Attempt'
    <2>1. \A i \in 1..Len(op.batch) : op.batch[i] \in Node
        BY BatchFacts DEF Inv, TypeOK
    <2>2. op'.pos \in 1..(Len(op.batch) + 1)
        BY <1>1, <1>2
    <2>3. \A n \in cards : row[n].state = "prepared" => plug[n] = "intact"
        BY DEF Inv, RemovalJournalled
    <2>4. ASSUME NEW i \in 1..Len(op.batch)
          PROVE  LET n == op.batch[i]
                 IN  IF i < op'.pos THEN row'[n].state = "committed" /\ plug'[n] = "removed"
                     ELSE IF i > op'.pos THEN row'[n].state = "prepared"
                     ELSE row'[n].state = "prepared" /\ plug'[n] = "intact"
        <3>1. CASE i = op.pos BY <1>1, <1>2, <3>1
        <3>2. CASE i # op.pos
            <4>1. op.batch[i] # Here /\ row'[op.batch[i]] = row[op.batch[i]]
                BY <1>1, <1>2, <2>1, <3>2
            <4>2. op.batch[i] \in cards
                BY <1>1, BatchFacts DEF Inv, TypeOK, Selected
            <4> QED BY <1>1, <1>2, <2>3, <3>2, <4>1, <4>2 DEF Inv, Attempt
        <3> QED BY <3>1, <3>2
    <2> QED BY <1>1, <1>2, <2>2, <2>4 DEF Attempt, Inv
<1>8. Undo' /\ Redo'
    BY <1>2 DEF Undo, Redo
<1> QED BY <1>2, <1>3, <1>4, <1>5, <1>6, <1>7, <1>8, KeptStep, PlugStep DEF Inv

LEMMA CommitFailsStep ==
    ASSUME Inv, CommitFails
    PROVE  Inv'
<1> USE DEF CommitFails, Committing
<1>1. /\ op'.phase = "rollback" /\ op'.batch = op.batch /\ op'.pos = op.pos /\ op'.at = "ready"
      /\ UNCHANGED <<cards, rev, row, plug, tails>>
    BY DEF Inv, TypeOK
<1>2. TypeOK'
    BY DEF Inv, TypeOK, Progress
<1>3. JournalKept
    BY <1>1 DEF JournalKept, Inv, RowNamed, Pending
<1>4. RemovalJournalled' /\ Selected' /\ Attempt' /\ Redo'
    BY <1>1 DEF Inv, RemovalJournalled, Selected, Attempt, Redo, Pending
<1>5. Undo'
    <2>1. /\ op.pos \in 1..Len(op.batch) /\ DOMAIN op.batch = 1..Len(op.batch)
        BY BatchFacts DEF Inv, TypeOK, Attempt
    <2> QED BY <1>1, <2>1 DEF Inv, Attempt, Undo
<1> QED BY <1>1, <1>2, <1>3, <1>4, <1>5, KeptStep, PlugStep DEF Inv

LEMMA GraphRefusesStep ==
    ASSUME Inv, GraphRefuses
    PROVE  Inv'
<1> USE DEF GraphRefuses, Committed
<1>0. /\ Len(op.batch) \in Nat /\ DOMAIN op.batch = 1..Len(op.batch) /\ op.at = "ready"
      /\ Len(op.batch) <= Cardinality(Node)
    BY BatchFacts DEF Inv, TypeOK, Attempt
<1>1. /\ op'.phase = "rollback" /\ op'.batch = op.batch /\ op'.pos = Len(op.batch) /\ op'.at = "ready"
      /\ UNCHANGED <<cards, rev, row, plug, tails>>
    BY <1>0 DEF Inv, TypeOK
<1>2. TypeOK'
    <2>1. op.pos - 1 \in 0..(Cardinality(Node) + 1)
        BY <1>0, NodeCount
    <2> QED BY <2>1 DEF Inv, TypeOK
<1>3. JournalKept
    BY <1>1 DEF JournalKept, Inv, RowNamed, Pending
<1>4. RemovalJournalled' /\ Selected' /\ Attempt' /\ Redo'
    BY <1>1 DEF Inv, RemovalJournalled, Selected, Attempt, Redo, Pending
<1>5. Undo'
    BY <1>0, <1>1 DEF Undo
<1> QED BY <1>1, <1>2, <1>3, <1>4, <1>5, KeptStep, PlugStep DEF Inv

LEMMA GraphDeletesStep ==
    ASSUME Inv, GraphDeletes
    PROVE  Inv'
<1> USE DEF GraphDeletes, Committed, Dropped
<1>1. /\ op' = Quiet /\ cards' = cards \ In(op.batch)
      /\ tails' = tails \union {[batch |-> op.batch, tries |-> 2, at |-> "ready"]}
      /\ UNCHANGED <<rev, row, plug>>
    OBVIOUS
<1>2. /\ op.batch \in Batch /\ In(op.batch) \subseteq Node
      /\ \A n \in In(op.batch) : /\ n \in cards /\ row[n].state = "committed"
                                 /\ plug[n] = "removed" /\ row[n].batch = op.batch
    <2>1. \A i \in 1..Len(op.batch) : row[op.batch[i]].state = "committed" /\ plug[op.batch[i]] = "removed"
        BY BatchFacts DEF Inv, TypeOK, Attempt
    <2>2. \A n \in In(op.batch) : row[n].state = "committed" /\ plug[n] = "removed"
        BY <2>1, BatchFacts DEF Inv, TypeOK
    <2> QED BY <2>2, BatchFacts DEF Inv, TypeOK, Selected, Pending
<1>3. TypeOK'
    BY <1>1, <1>2, NoBatch, NodeCount DEF Inv, TypeOK, Quiet, Progress
<1>4. RemovalJournalled' /\ CleanupOwed'
    BY <1>1, <1>2 DEF Inv, RemovalJournalled, CleanupOwed
<1>5. DependencyOrder' /\ RowNamed'
    BY <1>1 DEF Inv, DependencyOrder, RowNamed, Pending
\* What overlaps the batch is in the graph, or is a row of the batch itself.
<1>6. /\ \A t \in tails : ~Share(t.batch, op.batch) /\ ~Share(op.batch, t.batch)
      /\ \A n \in Node : row[n].state # "none" /\ Share(op.batch, row[n].batch) => row[n].batch = op.batch
    <2>1. \A t \in tails : ~Share(t.batch, op.batch) /\ ~Share(op.batch, t.batch)
        BY <1>2 DEF Inv, TailSane, Share
    <2>2. ASSUME NEW n \in Node, row[n].state # "none", Share(op.batch, row[n].batch)
          PROVE  row[n].batch = op.batch
        <3>1. PICK m \in In(op.batch) : m \in In(row[n].batch)
            BY <2>2 DEF Share
        <3>2. m \in Node /\ row[m].state = "committed" /\ row[m].batch = op.batch /\ m \in In(row[m].batch)
            BY <1>2, <3>1
        <3>3. Share(row[n].batch, row[m].batch)
            BY <3>1, <3>2 DEF Share
        <3> QED BY <2>2, <3>2, <3>3 DEF Inv, Apart, Pending
    <2> QED BY <2>1, <2>2
<1>7. Apart'
    <2>1. \A n, m \in Node : Pending(n)' /\ Pending(m)' /\ Share(row'[n].batch, row'[m].batch)
                => row'[n].batch = row'[m].batch
        BY <1>1 DEF Inv, Apart, Pending
    <2>2. \A t \in tails', n \in Node : Pending(n)' /\ Share(t.batch, row'[n].batch)
                => t.batch = row'[n].batch
        BY <1>1, <1>6 DEF Inv, Apart, Pending
    <2>3. \A t, u \in tails' : Share(t.batch, u.batch) => t = u
        BY <1>1, <1>6 DEF Inv, Apart
    <2> QED BY <2>1, <2>2, <2>3 DEF Apart
<1>8. Whole'
    <2> SUFFICES ASSUME NEW n \in Node, row[n].state # "none"
                 PROVE  /\ \A m \in In(row[n].batch) : (m \in cards') = (n \in cards')
                        /\ n \notin cards' => row[n].state = "committed"
        BY <1>1 DEF Whole, Pending
    <2>1. n \in In(row[n].batch)
        BY DEF Inv, RowNamed, Pending
    <2>2. CASE row[n].batch = op.batch
        BY <1>1, <1>2, <2>1, <2>2
    <2>3. CASE row[n].batch # op.batch
        BY <1>1, <1>2, <1>6, <2>1, <2>3 DEF Inv, Whole, Pending, Share
    <2> QED BY <2>2, <2>3
<1>9. OneLive'
    BY <1>1 DEF Inv, OneLive, LivePending, Pending
<1>10. Selected' /\ Attempt' /\ Undo' /\ Redo'
    BY <1>1 DEF Quiet, Selected, Attempt, Undo, Redo
<1>11. TailSane'
    BY <1>1 DEF Inv, TailSane, IsNext, Pending
<1> QED BY <1>3, <1>4, <1>5, <1>7, <1>8, <1>9, <1>10, <1>11 DEF Inv

LEMMA RollbackActsStep ==
    ASSUME Inv, RollbackActs
    PROVE  Inv'
<1> USE DEF RollbackActs, RollingBack
<1>1. /\ Here \in Node /\ Here \in cards /\ op.batch[op.pos] = Here /\ op.batch \in Batch
      /\ DOMAIN op.batch = 1..Len(op.batch) /\ Len(op.batch) \in Nat
      /\ op.pos \in 1..Len(op.batch) /\ Here \in In(op.batch)
    BY HereFacts, BatchFacts DEF Inv, TypeOK, Undo
<1>2. /\ plug' = [plug EXCEPT ![Here] = "intact"]
      /\ op'.phase = "rollback" /\ op'.batch = op.batch /\ op'.pos = op.pos /\ op'.at = "acted"
      /\ UNCHANGED <<cards, rev, row, tails>>
    BY DEF Inv, TypeOK
<1>3. TypeOK'
    BY <1>1 DEF Inv, TypeOK, Progress
<1>4. JournalKept
    BY <1>1, <1>2 DEF JournalKept, Inv, RowNamed, Pending, TypeOK
<1>5. RemovalJournalled' /\ CleanupOwed'
    BY <1>1, <1>2 DEF Inv, TypeOK, RemovalJournalled, CleanupOwed
\* What commits after it has been undone already.
<1>6. DependencyOrder'
    <2> SUFFICES ASSUME NEW n, NEW m, <<n, m>> \in Before, row[n].state # "none", m \in In(row[n].batch)
                 PROVE  /\ plug'[m] = "cleaned" => plug'[n] = "cleaned"
                        /\ plug'[m] = "removed" => plug'[n] # "intact"
        BY <1>2, DeletionConstants DEF DependencyOrder, Pending
    <2>1. n \in Node /\ m \in Node
        BY DeletionConstants
    <2>2. CASE n = Here
        <3>1. m \in In(op.batch) /\ m \in cards
            BY <1>1, <2>2 DEF Inv, Selected, Pending
        <3>2. PICK j \in 1..Len(op.batch) : op.batch[j] = m
            BY <1>1, <3>1, BatchFacts
        <3>3. op.pos < j
            BY <1>1, <2>2, <3>2, BatchFacts
        <3>4. row[m].state \in {"none", "prepared"}
            BY <1>1, <3>2, <3>3 DEF Inv, Undo
        <3>5. plug[m] = "intact"
            BY <3>1, <3>4 DEF Inv, RemovalJournalled
        <3> QED BY <1>1, <1>2, <2>1, <3>5 DEF Inv, TypeOK
    <2>3. CASE n # Here
        BY <1>1, <1>2, <2>1, <2>3 DEF Inv, TypeOK, DependencyOrder, Pending
    <2> QED BY <2>2, <2>3
<1>7. Selected' /\ Attempt' /\ Redo'
    BY <1>2 DEF Inv, Selected, Pending, Attempt, Redo
<1>8. Undo'
    <2>1. plug'[op.batch[op.pos]] = "intact"
        BY <1>1, <1>2 DEF Inv, TypeOK
    <2> QED BY <1>1, <1>2, <2>1 DEF Inv, Undo, Here
<1> QED BY <1>3, <1>4, <1>5, <1>6, <1>7, <1>8, KeptStep DEF Inv

\* What an emptied set of rows means for each of them.
LEMMA ClearStep ==
    ASSUME TypeOK, NEW C \in SUBSET Node, Complete(C)
    PROVE  /\ row' \in [Node -> [state : {"none", "prepared", "started", "committed"},
                                 batch : Batch, rev : [edit : 0..MaxRev, status : 0..MaxRev]]]
           /\ \A m \in Node : IF m \in C THEN row'[m] = NoRow ELSE row'[m] = row[m]
<1>1. NoRow \in [state : {"none", "prepared", "started", "committed"},
                 batch : Batch, rev : [edit : 0..MaxRev, status : 0..MaxRev]]
    BY NoBatch, DeletionConstants DEF NoRow, NoRev
<1> HIDE DEF NoRow
<1> QED BY <1>1 DEF TypeOK, Complete

LEMMA RollbackRecordedStep ==
    ASSUME Inv, RollbackRecorded
    PROVE  Inv'
<1> USE DEF RollbackRecorded, RollingBack
<1>1. /\ Here \in Node /\ Here \in cards /\ op.batch[op.pos] = Here /\ op.batch \in Batch
      /\ DOMAIN op.batch = 1..Len(op.batch) /\ Len(op.batch) \in Nat
      /\ op.pos \in 1..Len(op.batch) /\ plug[Here] = "intact" /\ In(op.batch) \subseteq Node
    BY HereFacts, BatchFacts DEF Inv, TypeOK, Undo
<1>2. /\ row'[Here] = NoRow /\ \A m \in Node : m # Here => row'[m] = row[m]
      /\ op'.phase = "rollback" /\ op'.batch = op.batch /\ op'.pos = op.pos - 1 /\ op'.at = "ready"
      /\ UNCHANGED <<cards, rev, plug, tails>>
    <2>1. \A m \in Node : IF m \in {Here} THEN row'[m] = NoRow ELSE row'[m] = row[m]
        BY <1>1, ClearStep DEF Inv
    <2>2. op'.phase = "rollback" /\ op'.batch = op.batch /\ op'.pos = op.pos - 1 /\ op'.at = "ready"
        BY DEF Inv, TypeOK
    <2> QED BY <1>1, <2>1, <2>2
<1>3. TypeOK'
    <2>1. op.pos - 1 \in 0..(Cardinality(Node) + 1)
        BY <1>1, NodeCount DEF Inv, TypeOK
    <2>2. op' \in [phase : {"idle", "commit", "rollback", "down", "recover", "clean"},
                   batch : Batch, pos : 0..(Cardinality(Node) + 1), at : Progress]
        BY <2>1 DEF Inv, TypeOK, Progress
    <2> QED BY <1>1, <2>2, ClearStep DEF Inv, TypeOK
<1>4. JournalKept
    BY <1>1, <1>2 DEF JournalKept, Inv, RowNamed, Pending
<1>5. RemovalJournalled'
    BY <1>1, <1>2 DEF Inv, TypeOK, RemovalJournalled
<1>6. Selected' /\ Attempt' /\ Redo'
    BY <1>1, <1>2 DEF Inv, Selected, Pending, Attempt, Redo, NoRow
<1>7. Undo'
    <2>1. ASSUME NEW i \in 1..Len(op.batch), i > op.pos - 1
          PROVE  row'[op.batch[i]].state \in {"none", "prepared"}
        <3>1. op.batch[i] \in Node
            BY BatchFacts DEF Inv, TypeOK
        <3>2. CASE op.batch[i] = Here
            BY <1>2, <3>2 DEF NoRow
        <3>3. CASE op.batch[i] # Here
            BY <1>1, <1>2, <2>1, <3>1, <3>3 DEF Inv, Undo
        <3> QED BY <3>2, <3>3
    <2> QED BY <1>1, <1>2, <2>1 DEF Undo
<1> QED BY <1>2, <1>3, <1>4, <1>5, <1>6, <1>7, KeptStep, PlugStep DEF Inv

LEMMA RollbackFailsStep ==
    ASSUME Inv, RollbackFails
    PROVE  Inv'
<1> USE DEF RollbackFails, RollingBack, Blocked
<1>1. /\ op'.phase = "rollback" /\ op'.batch = op.batch /\ op'.pos = 0 /\ op'.at = "ready"
      /\ Len(op.batch) \in Nat
      /\ UNCHANGED <<cards, rev, row, plug, tails>>
    BY BatchFacts DEF Inv, TypeOK
<1>2. TypeOK'
    BY NodeCount DEF Inv, TypeOK
<1>3. JournalKept
    BY <1>1 DEF JournalKept, Inv, RowNamed, Pending
<1>4. RemovalJournalled' /\ Selected' /\ Attempt' /\ Redo' /\ Undo'
    BY <1>1 DEF Inv, RemovalJournalled, Selected, Attempt, Redo, Pending, Undo
<1> QED BY <1>1, <1>2, <1>3, <1>4, KeptStep, PlugStep DEF Inv

LEMMA RollbackEndsStep ==
    ASSUME Inv, RollbackEnds
    PROVE  Inv'
<1> USE DEF RollbackEnds
<1> DEFINE C == {n \in In(op.batch) : row[n].state = "prepared"}
<1>1. C \in SUBSET Node /\ C \subseteq cards
    BY BatchFacts DEF Inv, TypeOK, Selected
<1>2. /\ \A m \in Node : IF m \in C THEN row'[m] = NoRow ELSE row'[m] = row[m]
      /\ op' = Quiet
      /\ UNCHANGED <<cards, rev, plug, tails>>
    BY <1>1, ClearStep DEF Inv
<1>3. TypeOK'
    <2>1. op' \in [phase : {"idle", "commit", "rollback", "down", "recover", "clean"},
                   batch : Batch, pos : 0..(Cardinality(Node) + 1), at : Progress]
        BY <1>2, NoBatch, NodeCount DEF Quiet, Progress
    <2> QED BY <1>1, <2>1, ClearStep DEF Inv, TypeOK
<1>4. JournalKept
    BY <1>1, <1>2 DEF JournalKept, Inv, RowNamed, Pending
<1>5. RemovalJournalled'
    BY <1>1, <1>2 DEF Inv, TypeOK, RemovalJournalled
<1>6. Selected' /\ Attempt' /\ Redo' /\ Undo'
    BY <1>2 DEF Quiet, Selected, Attempt, Redo, Undo
<1> QED BY <1>2, <1>3, <1>4, <1>5, <1>6, KeptStep, PlugStep DEF Inv

-----------------------------------------------------------------------------
(* Finalization.                                                           *)

\* The node whose turn it is: out of the graph, journalled, first of its batch.
LEMMA TurnFacts ==
    ASSUME Inv, NEW t \in tails, Unfinished(t)
    PROVE  /\ t.batch \in Batch /\ Due(t) \in Node /\ Due(t) \notin cards /\ Due(t) \in In(t.batch)
           /\ row[Due(t)].state = "committed" /\ row[Due(t)].batch = t.batch
           /\ \E i \in DOMAIN t.batch : IsNext(t, i) /\ t.batch[i] = Due(t)
           /\ \A i \in DOMAIN t.batch : IsNext(t, i) => t.batch[i] = Due(t)
<1>1. t.batch \in Batch /\ DOMAIN t.batch = 1..Len(t.batch) /\ Len(t.batch) \in Nat
    BY BatchFacts DEF Inv, TypeOK
<1>2. PICK i \in 1..Len(t.batch) : /\ Due(t) = t.batch[i] /\ row[t.batch[i]].state # "none"
                                   /\ \A j \in 1..Len(t.batch) : j < i => row[t.batch[j]].state = "none"
    BY <1>1, DueFacts DEF Pending
<1>3. Due(t) \in Node /\ Due(t) \in In(t.batch) /\ Due(t) \notin cards
    BY <1>1, <1>2, BatchFacts DEF Inv, TailSane
<1>4. row[Due(t)].state = "committed"
    BY <1>2, <1>3 DEF Inv, Whole, Pending
<1>5. row[Due(t)].batch = t.batch
    <2>1. Due(t) \in In(row[Due(t)].batch)
        BY <1>3, <1>4 DEF Inv, RowNamed, Pending
    <2> QED BY <1>3, <1>4, <2>1 DEF Inv, Apart, Pending, Share
<1>6. IsNext(t, i)
    BY <1>1, <1>2 DEF IsNext, Pending
<1>7. \A j \in DOMAIN t.batch : IsNext(t, j) => j = i
    BY <1>1, <1>6 DEF IsNext
<1> QED BY <1>1, <1>2, <1>3, <1>4, <1>5, <1>6, <1>7

\* A finalization that acts on the node whose turn it is leaves the live nodes alone,
\* and comes too late for no other node of the batch.
LEMMA CleanStep ==
    ASSUME Inv, NEW t \in tails, Unfinished(t), UNCHANGED <<cards, rev, row, op>>,
           plug' = [plug EXCEPT ![Due(t)] = "cleaned"]
    PROVE  /\ plug' \in [Node -> {"intact", "removed", "cleaned"}]
           /\ RemovalJournalled' /\ CleanupOwed' /\ DependencyOrder' /\ RowNamed' /\ Whole' /\ OneLive'
           /\ Selected' /\ Attempt' /\ Undo' /\ Redo'
           /\ \A u \in tails : u.batch # t.batch =>
                  \A i \in DOMAIN u.batch : plug'[u.batch[i]] = plug[u.batch[i]]
<1>1. /\ t.batch \in Batch /\ Due(t) \in Node /\ Due(t) \notin cards /\ Due(t) \in In(t.batch)
      /\ row[Due(t)].state = "committed" /\ row[Due(t)].batch = t.batch
    BY TurnFacts
<1>2. /\ plug' \in [Node -> {"intact", "removed", "cleaned"}] /\ plug'[Due(t)] = "cleaned"
      /\ \A m \in Node : m # Due(t) => plug'[m] = plug[m]
    BY <1>1 DEF Inv, TypeOK
<1>3. \A m \in cards : plug'[m] = plug[m]
    BY <1>1, <1>2 DEF Inv, TypeOK
<1>4. RemovalJournalled' /\ CleanupOwed'
    BY <1>1, <1>2, <1>3 DEF Inv, RemovalJournalled, CleanupOwed
<1>5. RowNamed' /\ Whole' /\ OneLive' /\ Selected'
    BY DEF Inv, RowNamed, Whole, OneLive, LivePending, Selected, Pending
<1>6. Attempt' /\ Undo' /\ Redo'
    <2>1. Attempt'
        <3>1. op.phase = "commit" => \A i \in DOMAIN op.batch : plug'[op.batch[i]] = plug[op.batch[i]]
            BY <1>3, BatchFacts DEF Inv, TypeOK, Selected
        <3> QED BY <3>1 DEF Inv, Attempt
    <2>2. Undo'
        <3>1. op.phase = "rollback" /\ op.at = "acted" => Here \in cards
            BY HereFacts, BatchFacts DEF Inv, TypeOK, Undo
        <3> QED BY <1>3, <3>1 DEF Inv, Undo, Here
    <2>3. Redo'
        BY <1>3 DEF Inv, Redo, Restorable, LivePending, Pending
    <2> QED BY <2>1, <2>2, <2>3
<1>7. DependencyOrder'
    <2> SUFFICES ASSUME NEW n, NEW m, <<n, m>> \in Before, row[n].state # "none", m \in In(row[n].batch)
                 PROVE  /\ plug'[m] = "cleaned" => plug'[n] = "cleaned"
                        /\ plug'[m] = "removed" => plug'[n] # "intact"
        BY DeletionConstants DEF DependencyOrder, Pending
    <2>1. n \in Node /\ m \in Node
        BY DeletionConstants
    <2>2. CASE n = Due(t)
        BY <1>2, <2>2
    <2>3. CASE m # Due(t) /\ n # Due(t)
        BY <1>2, <2>1, <2>3 DEF Inv, DependencyOrder, Pending
    <2>4. CASE m = Due(t)
        <3>1. row[n].batch = t.batch
            BY <1>1, <2>1, <2>4 DEF Inv, Apart, Share, Pending
        <3>2. n \in In(t.batch)
            BY <2>1, <3>1 DEF Inv, RowNamed, Pending
        <3>3. PICK j \in DOMAIN t.batch : IsNext(t, j) /\ t.batch[j] = Due(t)
            BY TurnFacts
        <3>4. PICK i \in 1..Len(t.batch) : t.batch[i] = n
            BY <1>1, <3>2, BatchFacts
        <3>5. i < j
            BY <1>1, <2>4, <3>3, <3>4, BatchFacts
        <3> QED BY <1>1, <3>3, <3>4, <3>5, BatchFacts DEF IsNext, Pending
    <2> QED BY <2>2, <2>3, <2>4
<1>8. ASSUME NEW u \in tails, u.batch # t.batch, NEW i \in DOMAIN u.batch
      PROVE  plug'[u.batch[i]] = plug[u.batch[i]]
    <2>1. u.batch[i] \in Node /\ u.batch[i] \in In(u.batch)
        BY BatchFacts DEF Inv, TypeOK
    <2>2. u.batch[i] # Due(t)
        BY <1>1, <1>8, <2>1 DEF Inv, Apart, Share
    <2> QED BY <1>2, <2>1, <2>2
<1> QED BY <1>2, <1>4, <1>5, <1>6, <1>7, <1>8

\* A finalization gives way to one of the same batch, or to none.
LEMMA TailsApart ==
    ASSUME Inv, NEW t \in tails, NEW u, u.batch = t.batch, tails' \subseteq (tails \ {t}) \union {u},
           \A n \in Node : row'[n] = NoRow \/ row'[n] = row[n]
    PROVE  Apart'
<1>1. \A n \in Node : row'[n].state # "none" => row'[n] = row[n]
    BY DEF NoRow
<1>2. \A n, m \in Node : Pending(n)' /\ Pending(m)' /\ Share(row'[n].batch, row'[m].batch)
            => row'[n].batch = row'[m].batch
    BY <1>1 DEF Inv, Apart, Pending
<1>3. \A x \in tails', n \in Node : Pending(n)' /\ Share(x.batch, row'[n].batch) => x.batch = row'[n].batch
    BY <1>1 DEF Inv, Apart, Pending
<1>4. \A x, y \in tails' : Share(x.batch, y.batch) => x = y
    BY DEF Inv, Apart
<1> QED BY <1>2, <1>3, <1>4 DEF Apart

LEMMA OtherTails ==
    ASSUME Inv, NEW t \in tails, NEW u \in tails, u # t
    PROVE  u.batch # t.batch \/ In(u.batch) = {}
    BY DEF Inv, Apart, Share

LEMMA FinalizeActsStep ==
    ASSUME Inv, NEW t \in tails, FinalizeActs(t)
    PROVE  Inv'
<1> USE DEF FinalizeActs
<1> DEFINE u == [t EXCEPT !.at = "acted"]
<1>1. /\ t \in [batch : Batch, tries : 1..2, at : {"ready", "acted"}]
      /\ u \in [batch : Batch, tries : 1..2, at : {"ready", "acted"}]
      /\ u.batch = t.batch /\ u.at = "acted"
    BY DEF Inv, TypeOK
<1> HIDE DEF u
<1>2. tails' = (tails \ {t}) \union {u} /\ UNCHANGED <<cards, rev, row, op>> /\ Unfinished(t)
    BY DEF u
<1>3. /\ plug' \in [Node -> {"intact", "removed", "cleaned"}]
      /\ RemovalJournalled' /\ CleanupOwed' /\ DependencyOrder' /\ RowNamed' /\ Whole' /\ OneLive'
      /\ Selected' /\ Attempt' /\ Undo' /\ Redo'
      /\ \A x \in tails : x.batch # t.batch =>
             \A i \in DOMAIN x.batch : plug'[x.batch[i]] = plug[x.batch[i]]
    BY <1>2, CleanStep
<1>4. TypeOK'
    BY <1>1, <1>2, <1>3 DEF Inv, TypeOK
<1>5. Apart'
    BY <1>1, <1>2, TailsApart
<1>6. ASSUME NEW x \in tails'
      PROVE  /\ \A n \in In(x.batch) : n \notin cards'
             /\ x.at = "acted" =>
                    \E i \in DOMAIN x.batch : IsNext(x, i)' /\ plug'[x.batch[i]] = "cleaned"
    <2>1. CASE x = u
        <3>1. PICK i \in DOMAIN t.batch : IsNext(t, i) /\ t.batch[i] = Due(t)
            BY <1>2, TurnFacts
        <3>2. plug'[Due(t)] = "cleaned"
            BY <1>2, TurnFacts DEF Inv, TypeOK
        <3> QED BY <1>1, <1>2, <2>1, <3>1, <3>2 DEF Inv, TailSane, IsNext, Pending
    <2>2. CASE x # u
        <3>1. x \in tails /\ x # t
            BY <1>2, <1>6, <2>2
        <3>2. \A i \in DOMAIN x.batch : x.batch[i] \in In(x.batch)
            BY DEF In
        <3>3. x.at = "acted" => \A i \in DOMAIN x.batch : plug'[x.batch[i]] = plug[x.batch[i]]
            BY <1>3, <3>1, <3>2, OtherTails
        <3> QED BY <1>2, <3>1, <3>3 DEF Inv, TailSane, IsNext, Pending
    <2> QED BY <2>1, <2>2
<1>7. TailSane'
    BY <1>6 DEF TailSane
<1> QED BY <1>3, <1>4, <1>5, <1>7 DEF Inv

LEMMA FinalizeFailsStep ==
    ASSUME Inv, NEW t \in tails, FinalizeFails(t)
    PROVE  Inv'
<1> USE DEF FinalizeFails
<1> DEFINE u == [t EXCEPT !.tries = 1]
<1>1. /\ u \in [batch : Batch, tries : 1..2, at : {"ready", "acted"}]
      /\ u.batch = t.batch /\ u.at = "ready" /\ t \in [batch : Batch, tries : 1..2, at : {"ready", "acted"}]
    BY DEF Inv, TypeOK
<1>2. tails' \subseteq (tails \ {t}) \union {u} /\ UNCHANGED <<cards, rev, row, op>> /\ Unfinished(t)
    BY DEF u
<1> HIDE DEF u
<1>3. CASE UNCHANGED plug
    <2>1. TypeOK'
        BY <1>1, <1>2, <1>3 DEF Inv, TypeOK
    <2>2. Apart'
        BY <1>1, <1>2, TailsApart
    <2>3. RemovalJournalled' /\ CleanupOwed' /\ DependencyOrder' /\ RowNamed' /\ Whole' /\ OneLive'
        BY <1>2, <1>3 DEF Inv, RemovalJournalled, CleanupOwed, DependencyOrder, RowNamed, Whole,
                          OneLive, LivePending, Pending
    <2>4. Selected' /\ Attempt' /\ Undo' /\ Redo'
        BY <1>2, <1>3 DEF Inv, Selected, Attempt, Undo, Redo, Here, Restorable, LivePending, Pending
    <2>5. TailSane'
        BY <1>1, <1>2, <1>3 DEF Inv, TailSane, IsNext, Pending
    <2> QED BY <2>1, <2>2, <2>3, <2>4, <2>5 DEF Inv
<1>4. CASE plug' = [plug EXCEPT ![Due(t)] = "cleaned"] /\ tails' = tails \ {t}
    <2>1. /\ plug' \in [Node -> {"intact", "removed", "cleaned"}]
          /\ RemovalJournalled' /\ CleanupOwed' /\ DependencyOrder' /\ RowNamed' /\ Whole' /\ OneLive'
          /\ Selected' /\ Attempt' /\ Undo' /\ Redo'
          /\ \A x \in tails : x.batch # t.batch =>
                 \A i \in DOMAIN x.batch : plug'[x.batch[i]] = plug[x.batch[i]]
        BY <1>2, <1>4, CleanStep
    <2>2. TypeOK'
        BY <1>2, <1>4, <2>1 DEF Inv, TypeOK
    <2>3. Apart'
        BY <1>1, <1>2, TailsApart
    <2>4. ASSUME NEW x \in tails, x # t
          PROVE  /\ \A n \in In(x.batch) : n \notin cards'
                 /\ x.at = "acted" =>
                        \E i \in DOMAIN x.batch : IsNext(x, i)' /\ plug'[x.batch[i]] = "cleaned"
        <3>1. \A i \in DOMAIN x.batch : x.batch[i] \in In(x.batch)
            BY DEF In
        <3>2. x.at = "acted" => \A i \in DOMAIN x.batch : plug'[x.batch[i]] = plug[x.batch[i]]
            BY <2>1, <2>4, <3>1, OtherTails
        <3> QED BY <1>2, <2>4, <3>2 DEF Inv, TailSane, IsNext, Pending
    <2>5. TailSane'
        BY <1>4, <2>4 DEF TailSane
    <2> QED BY <2>1, <2>2, <2>3, <2>5 DEF Inv
<1> QED BY <1>2, <1>3, <1>4

LEMMA FinalizeRecordedStep ==
    ASSUME Inv, NEW t \in tails, FinalizeRecorded(t)
    PROVE  Inv'
<1> USE DEF FinalizeRecorded, Settled
<1> DEFINE u == [t EXCEPT !.at = "ready", !.tries = Tries]
<1>1. /\ u \in [batch : Batch, tries : 1..2, at : {"ready", "acted"}]
      /\ u.batch = t.batch /\ u.at = "ready"
    <2>1. t \in [batch : Batch, tries : 1..2, at : {"ready", "acted"}]
        BY DEF Inv, TypeOK
    <2>2. Tries \in 1..2
        BY DEF Tries
    <2> QED BY <2>1, <2>2
<1>2. /\ tails' = (tails \ {t}) \union {u} /\ UNCHANGED <<cards, rev, plug, op>>
      /\ Unfinished(t) /\ t.at = "acted" /\ Complete({Due(t)})
    BY DEF u
<1> HIDE DEF u
<1>3. /\ Due(t) \in Node /\ Due(t) \notin cards /\ Due(t) \in In(t.batch) /\ plug[Due(t)] = "cleaned"
    BY <1>2, TurnFacts DEF Inv, TailSane
<1>4. /\ row' \in [Node -> [state : {"none", "prepared", "started", "committed"},
                            batch : Batch, rev : [edit : 0..MaxRev, status : 0..MaxRev]]]
      /\ \A m \in Node : IF m \in {Due(t)} THEN row'[m] = NoRow ELSE row'[m] = row[m]
    BY <1>2, <1>3, ClearStep DEF Inv
<1>5. /\ \A m \in Node : m # Due(t) => row'[m] = row[m]
      /\ row'[Due(t)] = NoRow /\ row'[Due(t)].state = "none"
      /\ \A m \in Node : row'[m].state # "none" => row'[m] = row[m]
    BY <1>3, <1>4 DEF NoRow
<1>6. TypeOK'
    BY <1>1, <1>2, <1>4 DEF Inv, TypeOK
<1>7. Apart'
    BY <1>1, <1>2, <1>4, TailsApart
<1>8. RemovalJournalled' /\ CleanupOwed' /\ RowNamed' /\ Whole'
    <2>1. RemovalJournalled'
        BY <1>2, <1>3, <1>5 DEF Inv, TypeOK, RemovalJournalled
    <2>2. CleanupOwed'
        BY <1>2, <1>3, <1>5 DEF Inv, CleanupOwed
    <2>3. RowNamed'
        BY <1>3, <1>5 DEF Inv, RowNamed, Pending
    <2>4. Whole'
        BY <1>2, <1>5 DEF Inv, Whole, Pending
    <2> QED BY <2>1, <2>2, <2>3, <2>4
<1>9. DependencyOrder'
    BY <1>2, <1>5, DeletionConstants DEF Inv, DependencyOrder, Pending
<1>10. \A m \in cards : m \in Node /\ row'[m] = row[m]
    BY <1>3, <1>5 DEF Inv, TypeOK
<1>here. \A i \in DOMAIN op.batch : op.batch[i] \in In(op.batch)
    BY DEF In
<1>11. OneLive' /\ Selected'
    BY <1>2, <1>10 DEF Inv, OneLive, Selected, LivePending, Pending
<1>12. Attempt'
    <2>1. op.phase = "commit" => \A i \in DOMAIN op.batch : row'[op.batch[i]] = row[op.batch[i]]
        BY <1>10, <1>here DEF Inv, Selected
    <2> QED BY <1>2, <2>1 DEF Inv, Attempt
<1>13. Undo'
    <2>1. op.phase = "rollback" => \A i \in DOMAIN op.batch : row'[op.batch[i]] = row[op.batch[i]]
        BY <1>10, <1>here DEF Inv, Selected
    <2> QED BY <1>2, <2>1 DEF Inv, Undo, Here
<1>14. Redo'
    <2>1. \A n \in Node : Restorable(n)' => Restorable(n)
        <3> SUFFICES ASSUME NEW n \in Node, Restorable(n)'
                     PROVE  Restorable(n)
            OBVIOUS
        <3>1. n \in LivePending /\ row'[n] = row[n]
            BY <1>2, <1>10 DEF Restorable, LivePending, Pending
        <3>2. \A i \in DOMAIN row[n].batch : row[n].batch[i] \in cards
            <4>1. n \in Node /\ n \in cards /\ Pending(n)
                BY <3>1 DEF LivePending
            <4>2. \A i \in DOMAIN row[n].batch : row[n].batch[i] \in In(row[n].batch)
                BY DEF In
            <4> QED BY <4>1, <4>2 DEF Inv, Whole
        <3> QED BY <1>2, <1>10, <3>1, <3>2 DEF Restorable, Pending
    <2>2. \A n \in Node : Restorable(n) => n \in cards
        BY DEF Restorable, LivePending
    <2> QED BY <1>2, <1>10, <2>1, <2>2 DEF Inv, Redo
<1>15. ASSUME NEW x \in tails'
       PROVE  /\ \A n \in In(x.batch) : n \notin cards'
              /\ x.at = "acted" =>
                     \E i \in DOMAIN x.batch : IsNext(x, i)' /\ plug'[x.batch[i]] = "cleaned"
    <2>1. CASE x = u
        BY <1>1, <1>2, <2>1 DEF Inv, TailSane
    <2>2. CASE x # u
        <3>1. x \in tails /\ x # t
            BY <1>2, <1>15, <2>2
        <3>2. \A i \in DOMAIN x.batch : x.batch[i] \in In(x.batch) /\ x.batch[i] \in Node
            <4>1. x.batch \in Batch
                BY <3>1 DEF Inv, TypeOK
            <4> QED BY <4>1, BatchFacts
        <3>3. Due(t) \notin In(x.batch)
            BY <1>3, <3>1 DEF Inv, Apart, Share
        <3>4. \A i \in DOMAIN x.batch : row'[x.batch[i]] = row[x.batch[i]]
            BY <1>5, <3>2, <3>3
        <3> QED BY <1>2, <3>1, <3>4 DEF Inv, TailSane, IsNext, Pending
    <2> QED BY <2>1, <2>2
<1>16. TailSane'
    BY <1>15 DEF TailSane
<1> QED BY <1>6, <1>7, <1>8, <1>9, <1>11, <1>12, <1>13, <1>14, <1>16 DEF Inv

LEMMA FinalizeEndsStep ==
    ASSUME Inv, NEW t \in tails, FinalizeEnds(t)
    PROVE  Inv'
<1> USE DEF FinalizeEnds
<1>1. TypeOK'
    BY DEF Inv, TypeOK
<1>2. JournalKept
    BY DEF JournalKept, Inv, RowNamed, Pending
<1>3. RemovalJournalled' /\ Selected'
    BY DEF Inv, RemovalJournalled, Selected, Pending
<1>4. Attempt' /\ Undo' /\ Redo'
    BY DEF Inv, Attempt, Undo, Redo, Here, Restorable, LivePending, Pending
<1> QED BY <1>1, <1>2, <1>3, <1>4, KeptStep, PlugStep DEF Inv


-----------------------------------------------------------------------------
(* Crash and recovery.                                                     *)

\* A step that only stops or moves on the process, and drops finalizations.
LEMMA ProcessStep ==
    ASSUME Inv, UNCHANGED <<cards, rev, row, plug>>, tails' \subseteq tails,
           op' \in [phase : {"idle", "commit", "rollback", "down", "recover", "clean"},
                    batch : Batch, pos : 0..(Cardinality(Node) + 1), at : Progress],
           op'.phase \in {"idle", "down", "recover", "clean"}, op'.at = "ready"
    PROVE  Inv'
<1>1. TypeOK'
    BY DEF Inv, TypeOK
<1>2. JournalKept
    BY DEF JournalKept, Inv, RowNamed, Pending
<1>3. RemovalJournalled'
    BY DEF Inv, RemovalJournalled
<1>4. Selected' /\ Attempt' /\ Undo' /\ Redo'
    BY DEF Selected, Attempt, Undo, Redo
<1> QED BY <1>1, <1>2, <1>3, <1>4, KeptStep, PlugStep DEF Inv

LEMMA QuietType ==
    /\ Quiet \in [phase : {"idle", "commit", "rollback", "down", "recover", "clean"},
                  batch : Batch, pos : 0..(Cardinality(Node) + 1), at : Progress]
    /\ Down \in [phase : {"idle", "commit", "rollback", "down", "recover", "clean"},
                 batch : Batch, pos : 0..(Cardinality(Node) + 1), at : Progress]
    /\ Quiet.phase = "idle" /\ Down.phase = "down" /\ Quiet.at = "ready" /\ Down.at = "ready"
    BY NoBatch, NodeCount DEF Quiet, Down, Progress

LEMMA StopsStep ==
    ASSUME Inv, Crash \/ Started \/ \E n \in Node : RecoverFails(n)
    PROVE  Inv'
<1>1. /\ UNCHANGED <<cards, rev, row, plug>> /\ tails' \subseteq tails
      /\ op' \in {Quiet, Down}
    BY DEF Crash, Started, RecoverFails
<1> QED BY <1>1, QuietType, ProcessStep

LEMMA BootStep ==
    ASSUME Inv, Boot
    PROVE  Inv'
<1>1. /\ op' \in [phase : {"idle", "commit", "rollback", "down", "recover", "clean"},
                  batch : Batch, pos : 0..(Cardinality(Node) + 1), at : Progress]
      /\ op'.phase = "recover" /\ op'.at = "ready"
    BY DEF Boot, Inv, TypeOK, Redo
<1> QED BY <1>1, ProcessStep DEF Boot

\* The node to restore is the last pending one of the only live batch.
LEMMA RestorableFacts ==
    ASSUME Inv, NEW n \in Node, Restorable(n)
    PROVE  /\ n \in cards /\ row[n].state # "none" /\ row[n].batch \in Batch
           /\ \A m \in Node : Restorable(m) => m = n
           /\ \A m \in Node : <<n, m>> \in Before /\ m \in In(row[n].batch) => plug[m] = "intact"
<1>1. n \in cards /\ row[n].state # "none" /\ row[n].batch \in Batch /\ n \in In(row[n].batch)
    BY DEF Inv, TypeOK, RowNamed, Restorable, LivePending, Pending
<1>2. PICK i \in 1..Len(row[n].batch) : row[n].batch[i] = n
    BY <1>1, BatchFacts
<1>3. \A j \in 1..Len(row[n].batch) : i < j => row[row[n].batch[j]].state = "none"
    BY <1>1, <1>2, BatchFacts DEF Restorable, Pending
<1>4. ASSUME NEW m \in Node, Restorable(m) PROVE m = n
    <2>1. m \in LivePending /\ n \in LivePending
        BY <1>4 DEF Restorable
    <2>2. row[m].batch = row[n].batch /\ m \in In(row[n].batch) /\ row[m].state # "none"
        BY <2>1 DEF Inv, OneLive, RowNamed, LivePending, Pending
    <2>3. PICK j \in 1..Len(row[n].batch) : row[n].batch[j] = m
        BY <1>1, <2>2, BatchFacts
    <2>4. ~(i < j)
        BY <1>3, <2>2, <2>3
    <2>5. ~(j < i)
        BY <1>1, <1>2, <1>4, <2>2, <2>3, BatchFacts DEF Restorable, Pending
    <2>6. i = j
        BY <1>1, <2>4, <2>5, BatchFacts
    <2> QED BY <1>2, <2>3, <2>6
<1>5. ASSUME NEW m \in Node, <<n, m>> \in Before, m \in In(row[n].batch) PROVE plug[m] = "intact"
    <2>1. PICK j \in 1..Len(row[n].batch) : row[n].batch[j] = m
        BY <1>1, <1>5, BatchFacts
    <2>2. i < j
        BY <1>1, <1>2, <1>5, <2>1, BatchFacts
    <2>3. row[m].state = "none" /\ m \in cards
        BY <1>1, <1>3, <1>5, <2>1, <2>2 DEF Inv, Whole, Pending
    <2> QED BY <2>3 DEF Inv, RemovalJournalled
<1> QED BY <1>1, <1>4, <1>5

\* A start that clears the row of a live node whose plugin is as it was.
LEMMA RestoredStep ==
    ASSUME Inv, NEW n \in Node, op.phase = "recover", n \in cards, plug[n] = "intact", Complete({n}),
           op' \in [phase : {"idle", "commit", "rollback", "down", "recover", "clean"},
                    batch : Batch, pos : 0..(Cardinality(Node) + 1), at : Progress],
           op'.phase = "recover", op'.at # "acted", UNCHANGED <<cards, rev, plug, tails>>
    PROVE  Inv'
<1>1. /\ row' \in [Node -> [state : {"none", "prepared", "started", "committed"},
                            batch : Batch, rev : [edit : 0..MaxRev, status : 0..MaxRev]]]
      /\ \A m \in Node : IF m \in {n} THEN row'[m] = NoRow ELSE row'[m] = row[m]
    BY ClearStep DEF Inv
<1>2. TypeOK'
    BY <1>1 DEF Inv, TypeOK
<1>3. JournalKept
    BY <1>1 DEF JournalKept, Inv, RowNamed, Pending
<1>4. RemovalJournalled'
    BY <1>1 DEF Inv, TypeOK, RemovalJournalled
<1>5. Selected' /\ Attempt' /\ Undo' /\ Redo'
    BY DEF Selected, Attempt, Undo, Redo
<1> QED BY <1>2, <1>3, <1>4, <1>5, KeptStep, PlugStep DEF Inv

LEMMA RecoverUnattemptedStep ==
    ASSUME Inv, NEW n \in Node, RecoverUnattempted(n)
    PROVE  Inv'
<1> USE DEF RecoverUnattempted
<1>1. op.at # "acted"
    BY DEF Inv, Redo
<1>2. n \in cards /\ plug[n] = "intact"
    BY RestorableFacts DEF Inv, RemovalJournalled
<1> QED BY <1>1, <1>2, RestoredStep DEF Inv, TypeOK

LEMMA RecoverRecordedStep ==
    ASSUME Inv, NEW n \in Node, RecoverRecorded(n)
    PROVE  Inv'
<1> USE DEF RecoverRecorded
<1>1. n \in cards /\ plug[n] = "intact"
    BY RestorableFacts DEF Inv, Redo
<1>2. /\ op' \in [phase : {"idle", "commit", "rollback", "down", "recover", "clean"},
                  batch : Batch, pos : 0..(Cardinality(Node) + 1), at : Progress]
      /\ op'.phase = "recover" /\ op'.at = "ready"
    BY DEF Inv, TypeOK, Progress
<1> QED BY <1>1, <1>2, RestoredStep

LEMMA RecoverActsStep ==
    ASSUME Inv, NEW n \in Node, RecoverActs(n)
    PROVE  Inv'
<1> USE DEF RecoverActs
<1>1. /\ n \in cards /\ row[n].state # "none" /\ row[n].state # "prepared"
      /\ \A m \in Node : Restorable(m) => m = n
      /\ \A m \in Node : <<n, m>> \in Before /\ m \in In(row[n].batch) => plug[m] = "intact"
    BY RestorableFacts
<1>2. /\ plug'[n] = "intact" /\ \A m \in Node : m # n => plug'[m] = plug[m]
      /\ plug' \in [Node -> {"intact", "removed", "cleaned"}]
    BY DEF Inv, TypeOK
<1>3. /\ op' \in [phase : {"idle", "commit", "rollback", "down", "recover", "clean"},
                  batch : Batch, pos : 0..(Cardinality(Node) + 1), at : Progress]
      /\ op'.phase = "recover" /\ op'.at = "acted"
    BY DEF Inv, TypeOK, Progress
<1>4. TypeOK'
    BY <1>2, <1>3 DEF Inv, TypeOK
<1>5. JournalKept
    BY <1>1, <1>2 DEF JournalKept, Inv, RowNamed, Pending
<1>6. RemovalJournalled' /\ CleanupOwed'
    BY <1>1, <1>2 DEF Inv, TypeOK, RemovalJournalled, CleanupOwed
\* What must not be undone ahead of this node has been undone already.
<1>7. DependencyOrder'
    <2> SUFFICES ASSUME NEW a, NEW b, <<a, b>> \in Before, row[a].state # "none", b \in In(row[a].batch)
                 PROVE  /\ plug'[b] = "cleaned" => plug'[a] = "cleaned"
                        /\ plug'[b] = "removed" => plug'[a] # "intact"
        BY DeletionConstants DEF DependencyOrder, Pending
    <2>1. a \in Node /\ b \in Node
        BY DeletionConstants
    <2>2. CASE b = n
        BY <1>2, <2>2
    <2>3. CASE a = n /\ b # n
        BY <1>1, <1>2, <2>1, <2>3
    <2>4. CASE a # n /\ b # n
        BY <1>2, <2>1, <2>4 DEF Inv, DependencyOrder, Pending
    <2> QED BY <2>2, <2>3, <2>4
<1>8. Selected' /\ Attempt' /\ Undo'
    BY <1>3 DEF Selected, Attempt, Undo
<1>9. Redo'
    <2>1. \A m \in Node : Restorable(m)' => Restorable(m)
        BY DEF Restorable, LivePending, Pending
    <2> QED BY <1>1, <1>2, <1>3, <2>1 DEF Redo
<1> QED BY <1>4, <1>5, <1>6, <1>7, <1>8, <1>9, KeptStep DEF Inv

\* What a start finalizes is out of the graph: no live row is left.
LEMMA RecoverDeletedStep ==
    ASSUME Inv, RecoverDeleted
    PROVE  Inv'
<1> USE DEF RecoverDeleted
<1>1. ASSUME NEW t \in tails'
      PROVE  \E n \in Node : /\ Pending(n) /\ n \notin cards /\ row[n].batch \in Batch
                             /\ t = [batch |-> row[n].batch, tries |-> 1, at |-> "ready"]
    BY <1>1 DEF LivePending, Inv, TypeOK
<1>2. tails' \subseteq [batch : Batch, tries : 1..2, at : {"ready", "acted"}]
    BY <1>1
<1>3. /\ op' \in [phase : {"idle", "commit", "rollback", "down", "recover", "clean"},
                  batch : Batch, pos : 0..(Cardinality(Node) + 1), at : Progress]
      /\ op'.phase = "clean"
    BY DEF Inv, TypeOK
<1>4. TypeOK'
    BY <1>2, <1>3 DEF Inv, TypeOK
<1>5. Apart'
    <2>1. \A t \in tails', n \in Node : Pending(n)' /\ Share(t.batch, row'[n].batch) => t.batch = row'[n].batch
        BY <1>1 DEF Inv, Apart, Pending
    <2>2. \A t, u \in tails' : Share(t.batch, u.batch) => t = u
        BY <1>1 DEF Inv, Apart, Pending
    <2> QED BY <2>1, <2>2 DEF Inv, Apart, Pending
<1>6. RemovalJournalled' /\ CleanupOwed' /\ DependencyOrder' /\ RowNamed' /\ Whole' /\ OneLive'
    BY DEF Inv, RemovalJournalled, CleanupOwed, DependencyOrder, RowNamed, Whole, OneLive,
           LivePending, Pending
<1>7. Selected' /\ Attempt' /\ Undo' /\ Redo'
    BY <1>3 DEF Selected, Attempt, Undo, Redo
<1>8. TailSane'
    BY <1>1 DEF Inv, TailSane, Whole
<1> QED BY <1>4, <1>5, <1>6, <1>7, <1>8 DEF Inv

-----------------------------------------------------------------------------
LEMMA NextStep == Inv /\ [Next]_vars => Inv'
<1> SUFFICES ASSUME Inv, [Next]_vars PROVE Inv'
    OBVIOUS
<1>1. ASSUME NEW n \in Node, Edit(n) \/ StatusChanges(n) PROVE Inv'
    BY <1>1, EditStep, StatusChangesStep
<1>2. ASSUME NEW S \in SUBSET Node, Delete(S) PROVE Inv'
    BY <1>2, DeleteStep
<1>3. CASE CommitStarts \/ CommitActs \/ CommitRecorded \/ CommitFails \/ GraphDeletes \/ GraphRefuses
    BY <1>3, CommitStartsStep, CommitActsStep, CommitRecordedStep, CommitFailsStep,
       GraphDeletesStep, GraphRefusesStep
<1>4. CASE RollbackActs \/ RollbackRecorded \/ RollbackFails \/ RollbackEnds
    BY <1>4, RollbackActsStep, RollbackRecordedStep, RollbackFailsStep, RollbackEndsStep
<1>5. ASSUME NEW t \in tails,
             FinalizeActs(t) \/ FinalizeRecorded(t) \/ FinalizeFails(t) \/ FinalizeEnds(t)
      PROVE  Inv'
    BY <1>5, FinalizeActsStep, FinalizeRecordedStep, FinalizeFailsStep, FinalizeEndsStep
<1>6. CASE Crash \/ Started \/ Boot
    BY <1>6, StopsStep, BootStep
<1>7. ASSUME NEW n \in Node,
             RecoverUnattempted(n) \/ RecoverActs(n) \/ RecoverRecorded(n) \/ RecoverFails(n)
      PROVE  Inv'
    BY <1>7, RecoverUnattemptedStep, RecoverActsStep, RecoverRecordedStep, StopsStep
<1>8. CASE RecoverDeleted
    BY <1>8, RecoverDeletedStep
<1>9. CASE UNCHANGED vars
    <2>1. UNCHANGED <<cards, rev, row, plug, op, tails>>
        BY <1>9 DEF vars
    <2>2. TypeOK' /\ RemovalJournalled' /\ CleanupOwed' /\ DependencyOrder'
        BY <2>1 DEF Inv, TypeOK, RemovalJournalled, CleanupOwed, DependencyOrder, Pending
    <2>3. RowNamed' /\ Apart' /\ Whole' /\ OneLive' /\ Selected'
        BY <2>1 DEF Inv, RowNamed, Apart, Whole, OneLive, LivePending, Selected, Pending
    <2>4. Attempt' /\ Undo' /\ Redo' /\ TailSane'
        BY <2>1 DEF Inv, Attempt, Undo, Here, Redo, Restorable, LivePending, Pending, TailSane, IsNext
    <2> QED BY <2>2, <2>3, <2>4 DEF Inv
<1> QED BY <1>1, <1>2, <1>3, <1>4, <1>5, <1>6, <1>7, <1>8, <1>9 DEF Next

\* The inductive invariant holds in every reachable state, for any set of nodes, any
\* acyclic or cyclic dependencies between them, and any bound on the changes of a card.
THEOREM Invariance == Spec => []Inv
<1> QED BY InitStep, NextStep, PTL DEF Spec

\* The journal of pending_node_deletions is well formed, and it names every reversible
\* removal a plugin has made of a node that is still in the graph.
THEOREM JournalCorrect == Spec => []JournalSound
<1>1. Inv => JournalSound
    BY DEF Inv, JournalSound
<1> QED BY <1>1, Invariance, PTL

\* A node that has left the graph is finalized, or a committed row still owes its
\* finalization; and no plugin is finalized for a node that is still in the graph.
THEOREM CleanupCorrect == Spec => []CleanupOwed
<1>1. Inv => CleanupOwed
    BY DEF Inv
<1> QED BY <1>1, Invariance, PTL

\* commit_before_node_ids is respected by the commits, by their compensation in the
\* reverse order, by the recovery of a start and by the finalizations.
THEOREM DependencyCorrect == Spec => []DependencyOrder
<1>1. Inv => DependencyOrder
    BY DEF Inv
<1> QED BY <1>1, Invariance, PTL

\* A start never meets a batch that is partly in the graph, nor one that has left it
\* without every commit recorded.
THEOREM BatchCorrect == Spec => []BatchWhole
<1>1. Inv => BatchWhole
    <2> SUFFICES ASSUME Inv, NEW n \in Node, Pending(n), NEW m \in In(row[n].batch),
                        Pending(m), row[m].batch = row[n].batch
                 PROVE  /\ (n \in cards) = (m \in cards)
                        /\ n \notin cards => row[m].state = "committed"
        BY DEF BatchWhole
    <2>1. m \in Node
        BY BatchFacts DEF Inv, TypeOK
    <2> QED BY <2>1 DEF Inv, Whole
<1> QED BY <1>1, Invariance, PTL

\* While a start has live rows to restore, no edit has come between their snapshots and
\* the cards: the mutation lock refuses every edit until they are gone.
THEOREM RestoreCorrect == Spec => []RestorePossible
<1>1. Inv => RestorePossible
    BY DEF Inv, OneLive, RestorePossible
<1> QED BY <1>1, Invariance, PTL
=============================================================================
