---------------------------- MODULE NodeDeletion ----------------------------
(***************************************************************************)
(* The two-phase deletion of nodes in services.py: every selected node's   *)
(* plugin commits a reversible removal, the graph drops the whole batch at *)
(* once, and plugins then finalize.  A journal of rows in                  *)
(* pending_node_deletions lets the next start roll back a batch whose      *)
(* nodes are still in the graph, or finalize one whose nodes are gone.     *)
(*                                                                         *)
(* A step between an effect of a plugin and the journal entry about it is  *)
(* kept apart from both, since the process may die there.                  *)
(***************************************************************************)
EXTENDS FiniteSets, Naturals, Sequences

CONSTANTS
    Node,
    Before,     \* <<n, m>>: n's transaction names m in commit_before_node_ids
    Agents,     \* the nodes that are Agents: runs change their cards
    MaxRev,     \* bound on the changes of a card, of each kind
    Env         \* "fail": plugins fail; "crash"

ASSUME DeletionConstants ==
    /\ IsFiniteSet(Node)
    /\ Before \subseteq Node \X Node
    /\ MaxRev \in Nat
    /\ Agents \subseteq Node
    /\ Env \subseteq {"fail", "crash"}

VARIABLES
    cards,  \* the nodes in the graph
    rev,    \* node -> revision of its card: its edits and its status changes
    row,    \* node -> its row of pending_node_deletions
    plug,   \* node -> what its plugin has done: "intact", "removed" or "cleaned"
    op,     \* what the process does: phase, batch, position, progress at it
    tails   \* finalizations under way: batch, attempts left, progress

vars == <<cards, rev, row, plug, op, tails>>

\* The orders of a batch that respect the declared dependencies.
Orders(S) ==
    {s \in [1..Cardinality(S) -> S] :
        /\ \A n \in S : \E i \in DOMAIN s : s[i] = n
        /\ \A i, j \in DOMAIN s : <<s[i], s[j]>> \in Before => i < j}

Batch == UNION {Orders(S) : S \in SUBSET Node}

NoRev == [edit |-> 0, status |-> 0]
NoRow == [state |-> "none", batch |-> <<>>, rev |-> NoRev]
Quiet == [phase |-> "idle", batch |-> <<>>, pos |-> 0, at |-> "ready"]
Down == [Quiet EXCEPT !.phase = "down"]

Progress == {"ready", "calling", "acted"}

TypeOK ==
    /\ cards \subseteq Node
    /\ rev \in [Node -> [edit : 0..MaxRev, status : 0..MaxRev]]
    /\ row \in [Node -> [state : {"none", "prepared", "started", "committed"},
                         batch : Batch, rev : [edit : 0..MaxRev, status : 0..MaxRev]]]
    /\ plug \in [Node -> {"intact", "removed", "cleaned"}]
    /\ op \in [phase : {"idle", "commit", "rollback", "down", "recover", "clean"},
               batch : Batch, pos : 0..(Cardinality(Node) + 1), at : Progress]
    /\ tails \subseteq [batch : Batch, tries : 1..2, at : {"ready", "acted"}]

Init ==
    /\ cards = Node
    /\ rev = [n \in Node |-> NoRev]
    /\ row = [n \in Node |-> NoRow]
    /\ plug = [n \in Node |-> "intact"]
    /\ op = Quiet
    /\ tails = {}

In(batch) == {batch[i] : i \in DOMAIN batch}
Pending(n) == row[n].state # "none"
LivePending == {n \in cards : Pending(n)}
Complete(S) == row' = [n \in Node |-> IF n \in S THEN NoRow ELSE row[n]]
Here == op.batch[op.pos]

-----------------------------------------------------------------------------
(* Changes of a card.                                                      *)

\* mutant: the lock alone admits a mutation
UnlockedOnly == op.phase = "idle"

\* _node_mutation: the lock is free and no live node awaits recovery.
Unlocked == op.phase = "idle" /\ LivePending = {}

\* An edit takes the mutation lock, which refuses while a live row is pending.
Edit(n) ==
    /\ Unlocked
    /\ n \in cards /\ rev[n].edit < MaxRev
    /\ rev' = [rev EXCEPT ![n].edit = @ + 1]
    /\ UNCHANGED <<cards, row, plug, op, tails>>

\* A run that starts or ends writes its Agent's status without the lock.
StatusChanges(n) ==
    /\ op.phase \notin {"down", "recover", "clean"}
    /\ n \in cards \intersect Agents /\ rev[n].status < MaxRev
    /\ rev' = [rev EXCEPT ![n].status = @ + 1]
    /\ UNCHANGED <<cards, row, plug, op, tails>>

-----------------------------------------------------------------------------
(* Deletion, under the mutation lock.                                      *)

Delete(S) ==
    /\ Unlocked
    /\ S # {} /\ S \subseteq cards
    /\ \E batch \in Orders(S) :
          /\ row' = [n \in Node |->
                        IF n \in S THEN [state |-> "prepared", batch |-> batch, rev |-> rev[n]]
                                   ELSE row[n]]
          /\ op' = [phase |-> "commit", batch |-> batch, pos |-> 1, at |-> "ready"]
    /\ UNCHANGED <<cards, rev, plug, tails>>

Committing == op.phase = "commit" /\ op.pos <= Len(op.batch)

\* mutant: the intent is journalled only once the plugin has acted
IntentLate == row

\* The intent is journalled before the plugin is called.
Intent == [row EXCEPT ![Here].state = "started"]

CommitStarts ==
    /\ Committing /\ op.at = "ready"
    /\ row' = Intent
    /\ op' = [op EXCEPT !.at = "calling"]
    /\ UNCHANGED <<cards, rev, plug, tails>>

CommitActs ==
    /\ Committing /\ op.at = "calling"
    /\ plug' = [plug EXCEPT ![Here] = "removed"]
    /\ op' = [op EXCEPT !.at = "acted"]
    /\ UNCHANGED <<cards, rev, row, tails>>

\* mutant: the loop skips a transaction
OnwardTwo == op.pos + 2

Onward == op.pos + 1

CommitRecorded ==
    /\ Committing /\ op.at = "acted"
    /\ row' = [row EXCEPT ![Here].state = "committed"]
    /\ op' = [op EXCEPT !.at = "ready", !.pos = Onward]
    /\ UNCHANGED <<cards, rev, plug, tails>>

\* A commit fails or is cancelled, whatever it has done by then.
CommitFails ==
    /\ "fail" \in Env
    /\ Committing /\ op.at \in {"calling", "acted"}
    /\ op' = [op EXCEPT !.phase = "rollback", !.at = "ready"]
    /\ UNCHANGED <<cards, rev, row, plug, tails>>

Committed == op.phase = "commit" /\ op.pos = Len(op.batch) + 1

\* mutant: the graph drops the first node for the whole batch
DroppedFirst == {op.batch[1]}

Dropped == In(op.batch)

GraphDeletes ==
    /\ Committed
    /\ cards' = cards \ Dropped
    /\ tails' = tails \union {[batch |-> op.batch, tries |-> 2, at |-> "ready"]}
    /\ op' = Quiet
    /\ UNCHANGED <<rev, row, plug>>

\* A card has changed, or the database refuses.
GraphRefuses ==
    /\ "fail" \in Env
    /\ Committed
    /\ op' = [op EXCEPT !.phase = "rollback", !.pos = @ - 1]
    /\ UNCHANGED <<cards, rev, row, plug, tails>>

-----------------------------------------------------------------------------
(* Compensation, from the last attempted transaction to the first.         *)

RollingBack == op.phase = "rollback" /\ op.pos >= 1

RollbackActs ==
    /\ RollingBack /\ op.at = "ready"
    /\ plug' = [plug EXCEPT ![Here] = "intact"]
    /\ op' = [op EXCEPT !.at = "acted"]
    /\ UNCHANGED <<cards, rev, row, tails>>

RollbackRecorded ==
    /\ RollingBack /\ op.at = "acted"
    /\ Complete({Here})
    /\ op' = [op EXCEPT !.at = "ready", !.pos = @ - 1]
    /\ UNCHANGED <<cards, rev, plug, tails>>

\* mutant: the failure of one compensation does not stop the others
BlockedGoesOn == op.pos - 1

\* rollback_blocked: nothing before a failed compensation is compensated.
Blocked == 0

RollbackFails ==
    /\ "fail" \in Env
    /\ RollingBack /\ op.at = "ready"
    /\ op' = [op EXCEPT !.pos = Blocked]
    /\ UNCHANGED <<cards, rev, row, plug, tails>>

\* Rows that were never attempted need no recovery.
RollbackEnds ==
    /\ op.phase = "rollback" /\ op.pos = 0
    /\ Complete({n \in In(op.batch) : row[n].state = "prepared"})
    /\ op' = Quiet
    /\ UNCHANGED <<cards, rev, plug, tails>>

-----------------------------------------------------------------------------
(* Finalization, outside the lock; and in a start, before it is idle.      *)

\* The first node of the batch that is still owed its finalization.
Due(t) ==
    LET i == CHOOSE i \in DOMAIN t.batch :
                 Pending(t.batch[i]) /\ \A j \in DOMAIN t.batch : j < i => ~Pending(t.batch[j])
    IN t.batch[i]

\* mutant: one finalization settles the batch
SettledBatch(t) == In(t.batch)

Settled(t) == {Due(t)}

Unfinished(t) == \E n \in In(t.batch) : Pending(n)

FinalizeActs(t) ==
    /\ Unfinished(t) /\ t.at = "ready"
    /\ plug' = [plug EXCEPT ![Due(t)] = "cleaned"]
    /\ tails' = (tails \ {t}) \union {[t EXCEPT !.at = "acted"]}
    /\ UNCHANGED <<cards, rev, row, op>>

\* A deletion retries a finalizer once, a start does not.
Tries == IF op.phase = "clean" THEN 1 ELSE 2

FinalizeRecorded(t) ==
    /\ Unfinished(t) /\ t.at = "acted"
    /\ Complete(Settled(t))
    /\ tails' = (tails \ {t}) \union {[t EXCEPT !.at = "ready", !.tries = Tries]}
    /\ UNCHANGED <<cards, rev, plug, op>>

\* One retry; a second failure, or a timeout, leaves the rest as debt.  A
\* finalizer that timed out may ignore its cancellation and act after all.
FinalizeFails(t) ==
    /\ "fail" \in Env
    /\ Unfinished(t) /\ t.at = "ready"
    /\ \/ /\ t.tries = 2
          /\ tails' = (tails \ {t}) \union {[t EXCEPT !.tries = 1]}
          /\ UNCHANGED plug
       \/ /\ tails' = tails \ {t}
          /\ plug' \in {plug, [plug EXCEPT ![Due(t)] = "cleaned"]}
    /\ UNCHANGED <<cards, rev, row, op>>

FinalizeEnds(t) ==
    /\ ~Unfinished(t)
    /\ tails' = tails \ {t}
    /\ UNCHANGED <<cards, rev, row, plug, op>>

-----------------------------------------------------------------------------
(* Crash and recovery.                                                     *)

Crash ==
    /\ "crash" \in Env
    /\ op.phase # "down"
    /\ op' = Down
    /\ tails' = {}
    /\ UNCHANGED <<cards, rev, row, plug>>

Boot ==
    /\ op.phase = "down"
    /\ op' = [op EXCEPT !.phase = "recover"]
    /\ UNCHANGED <<cards, rev, row, plug, tails>>

\* A live batch is recovered from its last row to its first.
Restorable(n) ==
    /\ n \in LivePending
    /\ LET batch == row[n].batch
       IN \A i, j \in DOMAIN batch : batch[i] = n /\ i < j => ~Pending(batch[j])

RecoverUnattempted(n) ==
    /\ op.phase = "recover" /\ Restorable(n)
    /\ row[n].state = "prepared"
    /\ Complete({n})
    /\ UNCHANGED <<cards, rev, plug, op, tails>>

\* The snapshot must still match the card it would be restored to.
RecoverActs(n) ==
    /\ op.phase = "recover" /\ op.at = "ready" /\ Restorable(n)
    /\ row[n].state # "prepared"
    /\ row[n].rev = rev[n]
    /\ plug' = [plug EXCEPT ![n] = "intact"]
    /\ op' = [op EXCEPT !.at = "acted"]
    /\ UNCHANGED <<cards, rev, row, tails>>

RecoverRecorded(n) ==
    /\ op.phase = "recover" /\ op.at = "acted" /\ Restorable(n)
    /\ Complete({n})
    /\ op' = [op EXCEPT !.at = "ready"]
    /\ UNCHANGED <<cards, rev, plug, tails>>

\* A live node that cannot be restored ends the start.
RecoverFails(n) ==
    /\ op.phase = "recover" /\ op.at = "ready" /\ Restorable(n)
    /\ row[n].state # "prepared"
    /\ "fail" \in Env \/ row[n].rev # rev[n]
    /\ op' = Down
    /\ UNCHANGED <<cards, rev, row, plug, tails>>

\* Batches without a committed row for each node stay as they are.
RecoverDeleted ==
    /\ op.phase = "recover" /\ LivePending = {}
    /\ op' = [op EXCEPT !.phase = "clean"]
    /\ tails' = {[batch |-> row[n].batch, tries |-> 1, at |-> "ready"] :
                    n \in {n \in Node : /\ Pending(n)
                                        /\ \A m \in Node : row[m].batch = row[n].batch
                                                => row[m].state = "committed"}}
    /\ UNCHANGED <<cards, rev, row, plug>>

\* The start also goes on when its time for cleanup is spent.
Started ==
    /\ op.phase = "clean"
    /\ tails = {} \/ "fail" \in Env
    /\ op' = Quiet
    /\ tails' = {}
    /\ UNCHANGED <<cards, rev, row, plug>>

-----------------------------------------------------------------------------
Next ==
    \/ \E n \in Node : Edit(n) \/ StatusChanges(n)
    \/ \E S \in SUBSET Node : Delete(S)
    \/ CommitStarts \/ CommitActs \/ CommitRecorded \/ CommitFails
    \/ GraphDeletes \/ GraphRefuses
    \/ RollbackActs \/ RollbackRecorded \/ RollbackFails \/ RollbackEnds
    \/ \E t \in tails : FinalizeActs(t) \/ FinalizeRecorded(t) \/ FinalizeFails(t) \/ FinalizeEnds(t)
    \/ Crash \/ Boot
    \/ \E n \in Node : RecoverUnattempted(n) \/ RecoverActs(n) \/ RecoverRecorded(n) \/ RecoverFails(n)
    \/ RecoverDeleted \/ Started

Spec == Init /\ [][Next]_vars

-----------------------------------------------------------------------------
(* Properties.                                                             *)

\* What a plugin has done to a live node is always known to the journal, so
\* that some start can undo it: no crash leaves a card without its state.
RemovalJournalled ==
    \A n \in cards : plug[n] # "intact" => row[n].state \in {"started", "committed"}

\* The journal is well formed and names everything that has been done.
JournalSound == TypeOK /\ RemovalJournalled

\* A node that left the graph has been cleaned up, or its cleanup is owed; and
\* nothing irreversible ever happens to a node that is still there.
CleanupOwed ==
    \A n \in Node :
        /\ n \notin cards => plug[n] = "cleaned" \/ row[n].state = "committed"
        /\ n \in cards => plug[n] # "cleaned"

\* Declared dependencies hold in every phase: while n, which commits before m,
\* is pending, m is not removed from under it or cleaned up ahead of it.
DependencyOrder ==
    \A d \in Before :
        LET n == d[1] m == d[2]
        IN Pending(n) /\ m \in In(row[n].batch) =>
              /\ plug[m] = "cleaned" => plug[n] = "cleaned"
              /\ plug[m] = "removed" => plug[n] # "intact"

\* A start never meets a batch that is partly deleted, or deleted without
\* every commit recorded: its two fail-closed errors cannot occur.
BatchWhole ==
    \A n \in Node : Pending(n) =>
        \A m \in In(row[n].batch) : Pending(m) /\ row[m].batch = row[n].batch =>
            /\ (n \in cards) = (m \in cards)
            /\ n \notin cards => row[m].state = "committed"

\* "World mutations are blocked" while a live node awaits recovery, so that a
\* start can restore it: no edit has come between the card and the journal.
\* (A run may: StatusChanges takes no lock, and then a start refuses to restore.)
RestorePossible ==
    op.phase = "recover" =>
        \A n \in LivePending : row[n].state # "prepared" => row[n].rev.edit = rev[n].edit
=============================================================================
