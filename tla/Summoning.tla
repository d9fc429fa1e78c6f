----------------------------- MODULE Summoning -----------------------------
(***************************************************************************)
(* Summoned instances of Agents, summoning.py: an Agent's Run or a user    *)
(* summons an instance and starts a Run on it, whose Agent may summon      *)
(* further instances.  A teardown stops an instance with everything        *)
(* summoned below it, and may reclaim the nodes; what it intends is on     *)
(* the records before it begins, and startup takes up what is owed.        *)
(*                                                                         *)
(* Instances are numbered in the order of their rows, Runs in the order of *)
(* their starts; 0 stands for a user.  Ownership, budgets and layout are   *)
(* reduced to one set of private nodes for each instance.                  *)
(***************************************************************************)
EXTENDS FiniteSets, Naturals

CONSTANTS
    MaxInstances,
    MaxRuns,
    MaxTeardowns,   \* calls of teardown by users and Agents
    MaxCrashes,
    Env             \* what else happens, see EnvKinds

EnvKinds == {"direct",   \* Runs on a summoned Agent that no summon starts
             "again",    \* further attempts of an instance
             "fault",    \* cancellations fail or are cut, deletions fail or leave debt
             "overlap"}  \* teardowns of overlapping families side by side

ASSUME SummoningConstants ==
    /\ MaxInstances \in Nat \ {0} /\ MaxRuns \in Nat \ {0}
    /\ MaxTeardowns \in Nat /\ MaxCrashes \in Nat
    /\ Env \subseteq EnvKinds

Instance == 1..MaxInstances
Run == 1..MaxRuns

VARIABLES
    record,     \* instance -> its row of summoned_instances
    nodes,      \* instance -> its private nodes: "absent", "placed", "debt", "gone"
    run,        \* Run -> status, the instance it runs on, the Run that started it
    admission,  \* the summon that holds the node mutation lock
    call,       \* instance -> the teardown that holds its cleanup lock, with the
                \* rows it has read
    sweep,      \* the records recover() has yet to handle, as it has read them
    host        \* the process and what is left of the bounds

vars == <<record, nodes, run, admission, call, sweep, host>>

NoRecord == [made |-> FALSE, parent |-> 0, stopping |-> FALSE, reclaimed |-> FALSE,
             cleanup |-> "none", action |-> "stop", attempts |-> {}]
NoRun == [status |-> "absent", on |-> 0, by |-> 0]
Free == [inst |-> 0, caller |-> 0]
NoCall == [phase |-> "idle", action |-> "stop", family |-> {}, copy |-> <<>>,
           left |-> {}, agents |-> {}, swept |-> FALSE]

Record == [made : BOOLEAN, parent : 0..MaxInstances, stopping : BOOLEAN,
           reclaimed : BOOLEAN, cleanup : {"none", "pending", "failed", "complete"},
           action : {"stop", "reclaim"}, attempts : SUBSET Run]

TypeOK ==
    /\ record \in [Instance -> Record]
    /\ nodes \in [Instance -> {"absent", "placed", "debt", "gone"}]
    /\ run \in [Run -> [status : {"absent", "live", "ended", "settled"},
                        on : 0..MaxInstances, by : 0..MaxRuns]]
    /\ admission \in [inst : 0..MaxInstances, caller : 0..MaxRuns]
    /\ \A i \in Instance :
          /\ call[i].phase \in {"idle", "wait", "cancel", "deleted"}
          /\ call[i].family \subseteq Instance /\ call[i].left \subseteq Run
          /\ call[i].agents \subseteq call[i].family
          /\ call[i].copy \in [call[i].family -> Record]
    /\ DOMAIN sweep \subseteq Instance
    /\ host \in [up : BOOLEAN, crashes : 0..MaxCrashes, teardowns : 0..MaxTeardowns]

Init ==
    /\ record = [i \in Instance |-> NoRecord]
    /\ nodes = [i \in Instance |-> "absent"]
    /\ run = [r \in Run |-> NoRun]
    /\ admission = Free
    /\ call = [i \in Instance |-> NoCall]
    /\ sweep = <<>>
    /\ host = [up |-> TRUE, crashes |-> 0, teardowns |-> 0]

Unlocked == admission = Free
Serving == host.up /\ sweep = <<>>
Live(r) == run[r].status = "live"
Settled(r) == run[r].status \in {"absent", "settled"}
RunsOn(i) == {r \in Run : run[r].on = i}
\* The least member of a set of numbers, as a set.
First(pool) == {n \in pool : \A m \in pool : n <= m}

-----------------------------------------------------------------------------
(* Admission.                                                              *)

\* mutant: the Runs that no summon starts are always admitted
NeverClosed(i) == FALSE

\* assert_admission, which the run manager asks before every Run.
Closed(i) == nodes[i] = "placed" /\ record[i].stopping

StartRun(i, c) ==
    \E r \in First({x \in Run : run[x] = NoRun}) :
        run' = [run EXCEPT ![r] = [status |-> "live", on |-> i, by |-> c]]

\* The caller's own instance is not stopping.
MayCall(c) == c # 0 => Live(c) /\ ~record[run[c].on].stopping

\* action("summon"): under the mutation lock, the copy is placed on the canvas.
SummonBegins(c) ==
    /\ Serving /\ Unlocked
    /\ MayCall(c)
    /\ \E i \in First({x \in Instance : nodes[x] = "absent"}) :
          /\ nodes' = [nodes EXCEPT ![i] = "placed"]
          /\ admission' = [inst |-> i, caller |-> c]
    /\ UNCHANGED <<record, run, call, sweep, host>>

\* The record is saved and its Run starts, unless the caller has ended meanwhile
\* or the run manager refuses.
SummonAdmits ==
    /\ host.up /\ ~Unlocked
    /\ LET i == admission.inst
           c == admission.caller
           new == [NoRecord EXCEPT !.made = TRUE, !.parent = IF c = 0 THEN 0 ELSE run[c].on]
       IN \/ /\ record' = [record EXCEPT ![i] = new]
             /\ UNCHANGED run
          \/ /\ c # 0 => Live(c)
             /\ StartRun(i, c)
             /\ record' = [record EXCEPT
                    ![i] = [new EXCEPT !.attempts = First({x \in Run : run[x] = NoRun})]]
    /\ admission' = Free
    /\ UNCHANGED <<nodes, call, sweep, host>>

\* Placing the copy fails, and what was placed is deleted again.
SummonFails ==
    /\ "fault" \in Env /\ host.up /\ ~Unlocked
    /\ nodes' = [nodes EXCEPT ![admission.inst] = "gone"]
    /\ admission' = Free
    /\ UNCHANGED <<record, run, call, sweep, host>>

\* The caller is cancelled before the record is saved: the copy stays, unrecorded.
SummonDropped ==
    /\ host.up /\ ~Unlocked
    /\ admission.caller # 0 /\ ~Live(admission.caller)
    /\ admission' = Free
    /\ UNCHANGED <<record, nodes, run, call, sweep, host>>

Lineage[r \in 0..MaxRuns] == IF r = 0 THEN {} ELSE {run[r].on} \union Lineage[run[r].by]

\* A further attempt of an instance, by a user or by the Run that may summon it.
SummonAgain(i, c) ==
    /\ "again" \in Env /\ Serving /\ Unlocked
    /\ MayCall(c) /\ record[i].made
    /\ ~record[i].reclaimed /\ ~record[i].stopping
    /\ record[i].parent = (IF c = 0 THEN 0 ELSE run[c].on)
    /\ i \notin Lineage[c] /\ nodes[i] = "placed"
    /\ StartRun(i, c)
    /\ record' = [record EXCEPT ![i].attempts = @ \union First({x \in Run : run[x] = NoRun})]
    /\ UNCHANGED <<nodes, admission, call, sweep, host>>

\* A user's own Run on the Agent of an instance: no lock is taken.
DirectRun(i) ==
    /\ "direct" \in Env /\ Serving
    /\ record[i].made /\ nodes[i] = "placed" /\ ~Closed(i)
    /\ StartRun(i, 0)
    /\ UNCHANGED <<record, nodes, admission, call, sweep, host>>

RunEnds(r) ==
    /\ host.up /\ Live(r)
    /\ run' = [run EXCEPT ![r].status = "ended"]
    /\ UNCHANGED <<record, nodes, admission, call, sweep, host>>

\* Its coroutine has unwound, and with it the summon it was in.
RunSettles(r) ==
    /\ host.up /\ run[r].status = "ended" /\ admission.caller # r
    /\ run' = [run EXCEPT ![r].status = "settled"]
    /\ UNCHANGED <<record, nodes, admission, call, sweep, host>>

-----------------------------------------------------------------------------
(* Teardown.                                                               *)

\* The instance and what was summoned below it, found in the order of the rows.
Family(i) ==
    LET Below[n \in 0..MaxInstances] ==
            IF n = 0 THEN {i}
            ELSE IF record[n].made /\ record[n].parent \in Below[n - 1]
                 THEN Below[n - 1] \union {n} ELSE Below[n - 1]
    IN Below[MaxInstances]

Marked(row, action) ==
    [row EXCEPT !.stopping = TRUE, !.cleanup = "pending", !.action = action]

\* The row of the instance is read under its cleanup lock alone; then the call
\* waits for the mutation lock.
Reads(i, action, swept) ==
    /\ call[i].phase = "idle" /\ ~record[i].reclaimed
    /\ "overlap" \notin Env => \A j \in Instance : i \notin call[j].family
    /\ call' = [call EXCEPT ![i] =
                   [NoCall EXCEPT !.phase = "wait", !.action = action, !.swept = swept,
                                  !.family = {i}, !.copy = [m \in {i} |-> record[m]]]]

Teardown(i, action) ==
    /\ Serving /\ record[i].made
    /\ host.teardowns < MaxTeardowns
    /\ host' = [host EXCEPT !.teardowns = @ + 1]
    /\ Reads(i, action, FALSE)
    /\ UNCHANGED <<record, nodes, run, admission, sweep>>

\* Under the mutation lock the whole family is closed before anything is stopped:
\* what was summoned below the instance is read now, the instance is saved as it
\* was read before.
Begins(i) ==
    LET family == Family(i)
        row == [record EXCEPT ![i] = call[i].copy[i]]
        marked == [m \in family |-> Marked(row[m], call[i].action)]
    IN
    /\ host.up /\ Unlocked /\ call[i].phase = "wait"
    /\ "overlap" \notin Env => \A j \in Instance \ {i} : call[j].family \intersect family = {}
    /\ record' = [m \in Instance |-> IF m \in family THEN marked[m] ELSE record[m]]
    /\ call' = [call EXCEPT ![i] =
                   [@ EXCEPT !.phase = "cancel", !.family = family, !.copy = marked,
                             !.left = UNION {row[m].attempts : m \in family},
                             !.agents = {m \in family : nodes[m] = "placed"}]]
    /\ UNCHANGED <<nodes, run, admission, sweep, host>>

Cancelled(set) ==
    [r \in Run |-> IF r \in set /\ Live(r) THEN [run[r] EXCEPT !.status = "ended"] ELSE run[r]]

\* cancel_run on an attempt: signalled, joined, then the Runs it has started.
Cancels(i) ==
    /\ host.up
    /\ \E r \in call[i].left :
          \/ /\ Live(r)
             /\ run' = Cancelled({r})
             /\ UNCHANGED call
          \/ /\ Settled(r)
             /\ call' = [call EXCEPT
                   ![i].left = (@ \ {r}) \union {x \in Run : run[x].by = r /\ ~Settled(x)}]
             /\ UNCHANGED run
    /\ UNCHANGED <<record, nodes, admission, sweep, host>>

\* cancel_agent_runs: every Run of one Agent of the family, signalled at once.
AgentCancels(i) ==
    /\ host.up /\ call[i].left = {}
    /\ \E m \in First(call[i].agents) :
          /\ run' = Cancelled(RunsOn(m))
          /\ call' = [call EXCEPT ![i].agents = @ \ {m}, ![i].left = RunsOn(m)]
    /\ UNCHANGED <<record, nodes, admission, sweep, host>>

\* Every attempt and every Run of an Agent has been joined.
AllJoined(i) ==
    call[i].phase \in {"cancel", "deleted"} /\ call[i].left = {} /\ call[i].agents = {}

\* delete_cards, which ends every Run of the Agents it deletes; the physical
\* cleanup may remain owed.
Deletes(i) ==
    /\ host.up /\ AllJoined(i) /\ Unlocked
    /\ call[i].action = "reclaim" /\ call[i].phase = "cancel"
    /\ \E debt \in {"gone"} \union (IF "fault" \in Env THEN {"debt"} ELSE {}) :
          nodes' = [m \in Instance |-> IF m \in call[i].family /\ nodes[m] = "placed"
                                       THEN debt ELSE nodes[m]]
    /\ call' = [call EXCEPT ![i].phase = "deleted"]
    /\ run' = [r \in Run |-> IF run[r].on \in call[i].family /\ ~Settled(r)
                             THEN [run[r] EXCEPT !.status = "settled"] ELSE run[r]]
    /\ UNCHANGED <<record, admission, sweep, host>>

\* Graph removal and completed physical cleanup are distinct.
DebtFree(i) == call[i].action = "reclaim" => \A m \in call[i].family : nodes[m] # "debt"

Confirmable(i) ==
    AllJoined(i) /\ (call[i].action = "reclaim" => call[i].phase = "deleted") /\ DebtFree(i)

Confirmed(i, m) ==
    [call[i].copy[m] EXCEPT !.stopping = FALSE, !.cleanup = "complete",
                            !.reclaimed = @ \/ call[i].action = "reclaim"]

\* The family is saved as it was read at the beginning.
Confirms(i) ==
    /\ host.up /\ Confirmable(i)
    /\ record' = [m \in Instance |-> IF m \in call[i].family THEN Confirmed(i, m) ELSE record[m]]
    /\ call' = [call EXCEPT ![i] = NoCall]
    /\ sweep' = IF call[i].swept THEN [m \in DOMAIN sweep \ {i} |-> sweep[m]] ELSE sweep
    /\ UNCHANGED <<nodes, run, admission, host>>

FailedCopy(i, m) == [call[i].copy[m] EXCEPT !.cleanup = "failed"]

\* An exception or a cancellation anywhere: the records stay closed, and the
\* sweep saves its own reading over the first of them.  A call that waits for
\* the mutation lock has marked nothing.
Fails(i) ==
    /\ host.up /\ call[i].phase # "idle"
    /\ \/ "fault" \in Env
       \/ call[i].phase = "deleted" /\ ~DebtFree(i)
    /\ record' = [m \in Instance |->
            IF m = i /\ call[i].swept THEN [sweep[i] EXCEPT !.cleanup = "failed"]
            ELSE IF m \in call[i].family /\ call[i].phase # "wait" THEN FailedCopy(i, m)
            ELSE record[m]]
    /\ call' = [call EXCEPT ![i] = NoCall]
    /\ sweep' = IF call[i].swept THEN [m \in DOMAIN sweep \ {i} |-> sweep[m]] ELSE sweep
    /\ UNCHANGED <<nodes, run, admission, host>>

\* The owed physical cleanup is retried and succeeds.
DebtPaid(i) ==
    /\ host.up /\ nodes[i] = "debt"
    /\ nodes' = [nodes EXCEPT ![i] = "gone"]
    /\ UNCHANGED <<record, run, admission, call, sweep, host>>

-----------------------------------------------------------------------------
(* The process.                                                            *)

\* The process dies, perhaps between two saves of a confirmation.
Crash ==
    /\ host.up /\ host.crashes < MaxCrashes
    /\ \/ UNCHANGED record
       \/ \E i \in Instance : \E m \in call[i].family :
             /\ Confirmable(i)
             /\ record' = [n \in Instance |-> IF n \in call[i].family /\ n <= m
                                              THEN Confirmed(i, n) ELSE record[n]]
    /\ host' = [host EXCEPT !.up = FALSE, !.crashes = @ + 1]
    /\ run' = [r \in Run |-> IF Settled(r) THEN run[r] ELSE [run[r] EXCEPT !.status = "settled"]]
    /\ admission' = Free
    /\ call' = [i \in Instance |-> NoCall]
    /\ sweep' = <<>>
    /\ UNCHANGED nodes

\* mutant: only failures that were recorded are taken up
Recorded == {i \in Instance : record[i].stopping /\ record[i].cleanup = "failed"}

\* recover() reads which records are still stopping.
Owed == {i \in Instance : record[i].stopping}

\* Startup: Runs are interrupted, pending deletions finished or owed again, and
\* the teardowns that were under way are listed.
Startup ==
    /\ ~host.up
    /\ \E paid \in BOOLEAN :
          /\ paid \/ "fault" \in Env
          /\ nodes' = [i \in Instance |-> IF nodes[i] = "debt" /\ paid THEN "gone" ELSE nodes[i]]
    /\ host' = [host EXCEPT !.up = TRUE]
    /\ sweep' = [i \in Owed |-> record[i]]
    /\ UNCHANGED <<record, run, admission, call>>

\* One after the other, each with the action it was begun with.
SweepBegins ==
    /\ host.up
    /\ \E i \in First(DOMAIN sweep) :
          /\ Reads(i, sweep[i].action, TRUE)
          /\ \A j \in Instance : ~call[j].swept
    /\ UNCHANGED <<record, nodes, run, admission, sweep, host>>

\* Reclaimed already, with the family of one before it.
SweepSkips ==
    /\ host.up
    /\ \E i \in First(DOMAIN sweep) :
          /\ record[i].reclaimed /\ call[i].phase = "idle"
          /\ sweep' = [m \in DOMAIN sweep \ {i} |-> sweep[m]]
    /\ UNCHANGED <<record, nodes, run, admission, call, host>>

-----------------------------------------------------------------------------
Step(i) ==
    \/ Begins(i) \/ Cancels(i) \/ AgentCancels(i) \/ Deletes(i)
    \/ Confirms(i) \/ Fails(i)

Progress ==
    \/ SummonAdmits \/ SummonFails \/ SummonDropped
    \/ \E r \in Run : RunSettles(r)
    \/ \E i \in Instance : Step(i)
    \/ Startup \/ SweepBegins \/ SweepSkips

Next ==
    \/ Progress
    \/ \E c \in 0..MaxRuns : SummonBegins(c)
    \/ \E i \in Instance, c \in 0..MaxRuns : SummonAgain(i, c)
    \/ \E i \in Instance : DirectRun(i)
    \/ \E r \in Run : RunEnds(r)
    \/ \E i \in Instance : DebtPaid(i)
    \/ \E i \in Instance, action \in {"stop", "reclaim"} : Teardown(i, action)
    \/ Crash

Spec == Init /\ [][Next]_vars

\* Tasks of the event loop run and a process that has died is started again;
\* Runs, users and Agents owe nothing.
FairSpec == Spec /\ WF_vars(Progress)

-----------------------------------------------------------------------------
(* Properties.                                                             *)

\* What a teardown is about to confirm is true: nothing summoned below the
\* instance is left out, and no Run of the family is live or unwinding,
\* whoever started it and whatever was being summoned when it began.
ConfirmedIsIdle ==
    \A i \in Instance :
        AllJoined(i) =>
            /\ \A m \in Instance : record[m].made /\ record[m].parent \in call[i].family
                                       => m \in call[i].family
            /\ \A r \in Run : run[r].on \in call[i].family => Settled(r)

\* A reclaimed instance never comes back: its nodes are gone, nothing is owed
\* for them, no Run is on it, and nothing it had summoned is still on the canvas.
ReclaimedIsGone ==
    \A i \in Instance :
        record[i].reclaimed =>
            /\ nodes[i] = "gone"
            /\ \A r \in RunsOn(i) : Settled(r)
            /\ \A m \in Instance : record[m].made /\ record[m].parent = i
                                       => nodes[m] # "placed"

TeardownSound == TypeOK /\ ConfirmedIsIdle /\ ReclaimedIsGone

\* No teardown stays pending: it is confirmed, or recorded as failed, by the
\* call that began it or by a later start of the process.  (An instance that is
\* reclaimed already has nothing to clean up.)
CleanupSettles ==
    []<>(\A i \in Instance : record[i].cleanup = "pending" => record[i].reclaimed)
=============================================================================
