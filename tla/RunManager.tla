----------------------------- MODULE RunManager -----------------------------
(***************************************************************************)
(* The authority for Run creation, execution, suspension, cancellation and *)
(* restart (RunManager in runs/manager.py, over RunStore).                 *)
(*                                                                         *)
(* Granularity.  The backend is one asyncio event loop over SQLite.  An    *)
(* action is the code between two points where a coroutine really yields:  *)
(* start_run, suspend_run and a status transition never yield (publishing  *)
(* an event is synchronous and their locks are uncontended there), so each *)
(* is one step; cancellation yields at every join and cleanup call, and a  *)
(* Run's provider coroutine yields at every event, at the watchdog's stop  *)
(* and while its stream closes.                                            *)
(***************************************************************************)
EXTENDS FiniteSets, Naturals

CONSTANTS
    Run,            \* run ids; an id fixes the agent and the parent it is started with
    Agent,          \* agent nodes
    None,           \* no run, no agent
    AgentOf,        \* run id -> the agent that executes it
    ParentOf,       \* run id -> parent run id, or None
    Ancestors,      \* run id -> the runs reached by following ParentOf
    Continuation,   \* runs admitted as continuations of a background job
    Limit,          \* agent -> max_concurrent_runs
    Env             \* what users, providers and the process may do besides the basics

\* suspension, agent deletion, a silent provider, a failing cleanup call, one
\* slower than its bounded join, an exception inside start_run, an orderly
\* shutdown, a restart at any point
EnvKind == {"suspend", "delete", "watchdog", "failure", "timeout", "abort", "shutdown", "restart"}

ASSUME RunConstants ==
    /\ AgentOf \in [Run -> Agent]
    /\ ParentOf \in [Run -> Run \union {None}]
    /\ Ancestors \in [Run -> SUBSET Run]
    /\ \A r \in Run : /\ r \notin Ancestors[r]
                      /\ ParentOf[r] \in Run =>
                            Ancestors[r] = {ParentOf[r]} \union Ancestors[ParentOf[r]]
                      /\ ParentOf[r] = None => Ancestors[r] = {}
    /\ Continuation \subseteq Run
    /\ Limit \in [Agent -> Nat \ {0}]
    /\ Env \subseteq EnvKind
    /\ None \notin Run /\ None \notin Agent /\ Run \intersect Agent = {}
    /\ IsFiniteSet(Run)

VARIABLES
    \* durable: the runs table and its lifecycle object
    status,         \* run -> RunRecord.status, "absent" before the row exists
    cleanup,        \* run -> lifecycle.cleanup
    execution,      \* run -> lifecycle.execution ("open": running or closing)
    stopReq,        \* run -> cancellation_requested with its origin
    lost,           \* run -> lifecycle.session_lost
    \* volatile: the manager's dictionaries, gone with the process
    occupied,       \* _occupied_runs: the runs that hold a slot of their agent
    suspension,     \* _suspensions: "none", "hold" or "release"
    task,           \* _runtime_tasks and the point its coroutine has reached
    cleaner,        \* _cleanup_tasks and the point that task has reached
    canceller,      \* the caller of cancel_run that holds the run's cancel lock
    by,             \* on whose behalf: None (a user), a parent run, an agent
    todo,           \* children a cancellation has yet to cancel
    agentState,     \* agent -> live, reserved, removing or failing (delete_agent), gone
    purge,          \* agent -> its runs cancel_agent_runs has yet to cancel
    mode,           \* "up", or "stopping" once shutdown has set shutting_down
    \* history
    yielded,        \* runs whose suspension explicitly gave their slot away
    answer          \* run -> what the last finished cancel_run call told its caller

durable == <<status, cleanup, execution, stopReq, lost>>
cancelling == <<cleaner, canceller, by, todo>>
agents == <<agentState, purge, mode>>
vars == <<durable, occupied, suspension, task, cancelling, agents, yielded, answer>>

Ledger == INSTANCE RunLifecycle WITH Run <- Run, status <- status
Terminal == Ledger!Terminal

Debt == {"pending", "failed"}
\* created and not yet begun, and cancelled before it began
Unbegun == {"fresh", "dropped"}
InLoop == {"streaming", "watchdog"}
\* the stream is closing / has closed, and how the turn left its event loop
Closing == {"ending", "erring", "cancelling"}
Closed == {"ended", "erred", "halted"}
Cleaning == {"queued", "children", "join"}

TypeOK ==
    /\ status \in [Run -> Ledger!RunStatus]
    /\ cleanup \in [Run -> {"none", "complete", "uncertain"} \union Debt]
    /\ execution \in [Run -> {"none", "open", "finished", "interrupted"}]
    /\ stopReq \in [Run -> {"no", "user", "shutdown"}]
    /\ lost \in [Run -> BOOLEAN]
    /\ occupied \subseteq Run
    /\ suspension \in [Run -> {"none", "hold", "release"}]
    /\ task \in [Run -> {"none"} \union Unbegun \union InLoop \union Closing \union Closed]
    /\ cleaner \in [Run -> {"none", "stop", "stopped", "stopfail", "ok", "failed"} \union Cleaning]
    /\ canceller \in [Run -> {"idle", "join", "tidy", "children", "wait", "ok", "error"}]
    /\ by \in [Run -> Run \union Agent \union {None}]
    /\ todo \in [Run -> SUBSET Run]
    /\ agentState \in [Agent -> {"live", "reserved", "removing", "failing", "gone"}]
    /\ purge \in [Agent -> SUBSET Run]
    /\ mode \in {"up", "stopping"}
    /\ yielded \subseteq Run
    /\ answer \in [Run -> {"none", "ok", "error"}]

Init ==
    /\ status = [r \in Run |-> "absent"]
    /\ cleanup = [r \in Run |-> "none"]
    /\ execution = [r \in Run |-> "none"]
    /\ stopReq = [r \in Run |-> "no"]
    /\ lost = [r \in Run |-> FALSE]
    /\ occupied = {}
    /\ suspension = [r \in Run |-> "none"]
    /\ task = [r \in Run |-> "none"]
    /\ cleaner = [r \in Run |-> "none"]
    /\ canceller = [r \in Run |-> "idle"]
    /\ by = [r \in Run |-> None]
    /\ todo = [r \in Run |-> {}]
    /\ agentState = [a \in Agent |-> "live"]
    /\ purge = [a \in Agent |-> {}]
    /\ mode = "up"
    /\ yielded = {}
    /\ answer = [r \in Run |-> "none"]

-----------------------------------------------------------------------------
(* Admission.                                                              *)

RunsOf(a) == {r \in Run : AgentOf[r] = a}
Children(r) == {c \in Run : ParentOf[c] = r /\ status[c] # "absent"}

AcceptsRuns(a) == agentState[a] = "live"

HasCapacity(a) ==
    /\ \A r \in RunsOf(a) : cleanup[r] \notin Debt
    /\ Cardinality(occupied \intersect RunsOf(a)) < Limit[a]

UserStopped(r) == stopReq[r] = "user"

\* The walk towards the root turns lenient at the first continuation it meets.
Recovering(r, x, resume) ==
    resume \/ \E y \in Ancestors[r] \intersect Continuation : y = x \/ x \in Ancestors[y]

\* mutant: the lineage is judged by its status alone
LineageOpenIgnoresStop(r, resume) ==
    \A x \in Ancestors[r] :
        Recovering(r, x, resume) \/ status[x] \notin {"cancelled", "interrupted", "failed"}

\* Every ancestor must be fit for dependent work: never stopped by a user, and
\* not ended badly unless a recovery continues its work.
LineageOpen(r, resume) ==
    \A x \in Ancestors[r] :
        /\ ~UserStopped(x)
        /\ Recovering(r, x, resume) \/ status[x] \notin {"cancelled", "interrupted", "failed"}

CanStart(r, resume) ==
    /\ status[r] = "absent"
    /\ \A x \in Ancestors[r] : status[x] # "absent"
    /\ AcceptsRuns(AgentOf[r])
    /\ HasCapacity(AgentOf[r])
    /\ LineageOpen(r, resume)

StartRun(r) ==
    /\ \E resume \in BOOLEAN : CanStart(r, resume)
    /\ status' = [status EXCEPT ![r] = "running"]
    /\ execution' = [execution EXCEPT ![r] = "open"]
    /\ task' = [task EXCEPT ![r] = "fresh"]
    /\ occupied' = occupied \union {r}
    /\ UNCHANGED <<cleanup, stopReq, lost, suspension, cancelling, agents, yielded, answer>>

\* start_run raises after the row was committed: before or after it has taken
\* the slot, and before its provider coroutine exists.
StartRunAborts(r) ==
    /\ "abort" \in Env
    /\ \E resume \in BOOLEAN : CanStart(r, resume)
    /\ status' = [status EXCEPT ![r] = "created"]
    /\ execution' = [execution EXCEPT ![r] = "open"]
    /\ occupied' \in {occupied, occupied \union {r}}
    /\ UNCHANGED <<cleanup, stopReq, lost, suspension, task, cancelling, agents, yielded, answer>>

-----------------------------------------------------------------------------
(* Transitions shared by several handlers.                                 *)

\* mutant: a terminal result alone frees the slot
ReleaseOnResult(r) ==
    occupied' = IF status'[r] \in Terminal /\ cleanup'[r] \notin Debt
                THEN occupied \ {r} ELSE occupied

\* _release_settled_capacity, over the state the step has just produced.
ReleaseSettled(r) ==
    occupied' = IF /\ status'[r] \in Terminal
                   /\ task'[r] = "none"
                   /\ cleanup'[r] \notin Debt
                THEN occupied \ {r}
                ELSE occupied

\* mutant: a released slot is taken back without counting
CanResumeUncounted(r) == status[r] = "waiting" /\ AcceptsRuns(AgentOf[r])

\* waiting -> running: admission is rechecked, and capacity unless the run
\* kept its slot while it was waiting.
CanResume(r) ==
    /\ status[r] = "waiting"
    /\ AcceptsRuns(AgentOf[r])
    /\ r \in occupied \/ HasCapacity(AgentOf[r])

Resume(r) ==
    /\ status' = [status EXCEPT ![r] = "running"]
    /\ suspension' = [suspension EXCEPT ![r] = "none"]
    /\ occupied' = occupied \union {r}
    /\ yielded' = yielded \ {r}

\* suspend_run, from a tool of the turn or from outside it.
SuspendRun(r, release) ==
    /\ "suspend" \in Env
    /\ status[r] \in {"running", "waiting"}
    /\ status' = [status EXCEPT ![r] = "waiting"]
    /\ suspension' = [suspension EXCEPT ![r] = IF release THEN "release" ELSE "hold"]
    /\ occupied' = IF release THEN occupied \ {r} ELSE occupied
    /\ yielded' = IF release THEN yielded \union {r} ELSE yielded
    /\ UNCHANGED <<cleanup, execution, stopReq, lost, task, cancelling, agents, answer>>

\* transition_run(RUNNING) by the owner of the wait.
ResumeRun(r) ==
    /\ CanResume(r)
    /\ Resume(r)
    /\ UNCHANGED <<cleanup, execution, stopReq, lost, task, cancelling, agents, answer>>

-----------------------------------------------------------------------------
(* One provider turn (_execute).                                           *)

ExecuteBegins(r) ==
    /\ task[r] = "fresh"
    /\ task' = [task EXCEPT ![r] = "streaming"]
    /\ UNCHANGED <<durable, occupied, suspension, cancelling, agents, yielded, answer>>

\* A coroutine cancelled before its first step never enters its body: only the
\* task's done callback runs, and lifecycle.execution stays "running".
TaskDropped(r) ==
    /\ task[r] = "dropped"
    /\ task' = [task EXCEPT ![r] = "none"]
    /\ UNCHANGED <<durable, suspension, cancelling, agents, yielded, answer>>
    /\ ReleaseSettled(r)

\* An event that carries a terminal run_status: recorded at once, and the
\* event loop of the turn is left.
ProviderFinishes(r) ==
    /\ task[r] = "streaming"
    /\ status[r] \notin Terminal
    /\ \E s \in Ledger!ValidTransitions[status[r]] \intersect Terminal :
           status' = [status EXCEPT ![r] = s]
    /\ suspension' = [suspension EXCEPT ![r] = "none"]
    /\ task' = [task EXCEPT ![r] = "ending"]
    /\ UNCHANGED <<cleanup, execution, stopReq, lost, cancelling, agents, yielded, answer>>
    /\ ReleaseSettled(r)

\* An event with run_status "waiting": no suspension is registered.
ProviderWaits(r) ==
    /\ "suspend" \in Env
    /\ task[r] = "streaming"
    /\ status[r] = "running"
    /\ status' = [status EXCEPT ![r] = "waiting"]
    /\ UNCHANGED <<cleanup, execution, stopReq, lost, occupied, suspension, task,
                   cancelling, agents, yielded, answer>>

\* An event with run_status "running" while the run waits.
ProviderResumes(r) ==
    /\ task[r] = "streaming"
    /\ CanResume(r)
    /\ Resume(r)
    /\ UNCHANGED <<cleanup, execution, stopReq, lost, task, cancelling, agents, answer>>

\* The stream ends, or raises (a provider error, or a status event that the
\* manager refuses): the turn goes on to close its stream.
StreamStops(r) ==
    /\ task[r] = "streaming"
    /\ \E exit \in {"ending", "erring"} : task' = [task EXCEPT ![r] = exit]
    /\ UNCHANGED <<durable, occupied, suspension, cancelling, agents, yielded, answer>>

\* Inactivity or the absolute deadline: the run fails, and the turn itself
\* asks the provider to stop, under the key of the run's cleanup task.
WatchdogFires(r) ==
    /\ "watchdog" \in Env
    /\ task[r] = "streaming"
    /\ cleanup' = [cleanup EXCEPT ![r] = "pending"]
    /\ status' = [status EXCEPT ![r] = IF @ \in Terminal THEN @ ELSE "failed"]
    /\ suspension' = [suspension EXCEPT ![r] = "none"]
    /\ task' = [task EXCEPT ![r] = "watchdog"]
    /\ cleaner' = [cleaner EXCEPT ![r] = "stop"]
    /\ UNCHANGED <<execution, stopReq, lost, occupied, canceller, by, todo, agents,
                   yielded, answer>>

WatchdogStopEnds(r) ==
    /\ cleaner[r] = "stop"
    /\ \E end \in {"stopped"} \union (IF "failure" \in Env THEN {"stopfail"} ELSE {}) :
           cleaner' = [cleaner EXCEPT ![r] = end]
    /\ UNCHANGED <<durable, occupied, suspension, task, canceller, by, todo, agents,
                   yielded, answer>>

\* The bounded wait for that stop is over, with or without its result.
WatchdogReturns(r) ==
    /\ task[r] = "watchdog"
    /\ cleaner[r] \in {"stopped", "stopfail"} \/ "timeout" \in Env
    /\ cleanup' = [cleanup EXCEPT ![r] = IF cleaner[r] = "stopped" THEN "complete" ELSE @]
    /\ task' = [task EXCEPT ![r] = "erring"]
    /\ UNCHANGED <<status, execution, stopReq, lost, occupied, suspension, cancelling,
                   agents, yielded, answer>>

Shut == [ending |-> "ended", erring |-> "erred", cancelling |-> "halted"]

StreamCloses(r) ==
    /\ task[r] \in Closing
    /\ task' = [task EXCEPT ![r] = Shut[@]]
    /\ UNCHANGED <<durable, occupied, suspension, cancelling, agents, yielded, answer>>

\* aclose() raises or times out, and its error replaces the reason the turn was
\* ending for; or the cancellation itself interrupts it.  Either way it is debt.
StreamCloseFails(r) ==
    /\ task[r] \in Closing
    /\ \/ "failure" \in Env /\ task' = [task EXCEPT ![r] = "erred"]
       \/ task[r] = "cancelling" /\ task' = [task EXCEPT ![r] = "halted"]
    /\ cleanup' = [cleanup EXCEPT ![r] = "failed"]
    /\ UNCHANGED <<status, execution, stopReq, lost, occupied, suspension, cancelling,
                   agents, yielded, answer>>

\* mutant: the name of the provider's event is recorded as the status
FinalStatusEventName(r) == IF status[r] \in Terminal THEN status[r] ELSE "completed"

\* mutant: the exit of the coroutine overwrites the recorded result
FinalStatusOverwrites(r) ==
    IF task[r] = "halted" THEN "cancelled"
    ELSE IF task[r] = "erred" THEN "failed" ELSE status[r]

\* The status a run ends its turn with: its own if it is terminal.
FinalStatus(r) ==
    IF status[r] \in Terminal THEN status[r]
    ELSE IF task[r] = "halted" THEN "cancelled"
    ELSE IF task[r] = "erred" \/ status[r] = "running" THEN "failed"
    ELSE status[r]

\* The end of _execute: a run still live gets the status the exit implies, the
\* task is forgotten and its slot released if nothing is owed.
ExecutionFinished(r) ==
    /\ task[r] \in Closed
    /\ status' = [status EXCEPT ![r] = FinalStatus(r)]
    /\ suspension' = [suspension EXCEPT ![r] = IF status'[r] \in Terminal THEN "none" ELSE @]
    /\ execution' = [execution EXCEPT ![r] = "finished"]
    /\ task' = [task EXCEPT ![r] = "none"]
    /\ UNCHANGED <<cleanup, stopReq, lost, cancelling, agents, yielded, answer>>
    /\ ReleaseSettled(r)

-----------------------------------------------------------------------------
(* Cancellation.                                                           *)

\* mutant: the local coroutine is not signalled
SignalledNever(t) == t

\* What task.cancel() makes of the coroutine: it leaves at its next resumption.
Signalled(t) == IF t \in InLoop \union Closing THEN "cancelling"
                ELSE IF t \in Closed THEN "halted"
                ELSE IF t = "fresh" THEN "dropped" ELSE t

StopOrigin == IF mode = "stopping" THEN "shutdown" ELSE "user"

\* cancel_run of a finished turn that owes nothing: it only revokes what the
\* run could still give rise to, and joins the tail of its stream.
RevokeFinished(r, who) ==
    /\ status[r] \in Terminal
    /\ cleanup[r] \in {"none", "complete"}
    /\ stopReq' = [stopReq EXCEPT ![r] = IF mode = "stopping" THEN @ ELSE "user"]
    /\ canceller' = [canceller EXCEPT ![r] = "join"]
    /\ by' = [by EXCEPT ![r] = who]
    /\ UNCHANGED <<status, cleanup, execution, lost, occupied, suspension, task, cleaner, todo,
                   yielded, mode, agentState>>

\* cancel_run of a live run, or of one with unresolved cleanup: the intent is
\* recorded, the run settled and its coroutine signalled before anything is
\* awaited; then the tracked cleanup task is joined, and created first unless
\* one is running or has finished without error.
StopRun(r, who) ==
    /\ status[r] \notin Terminal \/ cleanup[r] \in Debt \union {"uncertain"}
    /\ status' = [status EXCEPT ![r] = IF @ \in Terminal THEN @ ELSE "cancelled"]
    /\ suspension' = [suspension EXCEPT ![r] = IF status[r] \in Terminal THEN @ ELSE "none"]
    /\ cleanup' = [cleanup EXCEPT ![r] = "pending"]
    /\ stopReq' = [stopReq EXCEPT ![r] = StopOrigin]
    /\ task' = [task EXCEPT ![r] = Signalled(@)]
    /\ cleaner' = [cleaner EXCEPT ![r] =
                      IF @ \in {"none", "stopfail", "failed"} THEN "queued" ELSE @]
    /\ canceller' = [canceller EXCEPT ![r] = "wait"]
    /\ by' = [by EXCEPT ![r] = who]
    /\ UNCHANGED <<execution, lost, occupied, todo, yielded, mode, agentState>>

CancelRun(r, who) ==
    /\ status[r] # "absent"
    /\ canceller[r] = "idle"
    /\ RevokeFinished(r, who) \/ StopRun(r, who)
    /\ answer' = [answer EXCEPT ![r] = "none"]

UserCancels(r) == CancelRun(r, None) /\ UNCHANGED purge

\* The loop over list_child_runs, one awaited cancel_run at a time.
PropagateCancel(p, c) ==
    /\ cleaner[p] = "children" \/ canceller[p] = "children"
    /\ c \in todo[p]
    /\ \A d \in Run : by[d] # p
    /\ CancelRun(c, p)
    /\ UNCHANGED purge

\* cleanup(): children first, then processes and provider, then the coroutine.
CleanupStarts(r) ==
    /\ cleaner[r] = "queued"
    /\ cleaner' = [cleaner EXCEPT ![r] = "children"]
    /\ todo' = [todo EXCEPT ![r] = Children(r)]
    /\ UNCHANGED <<durable, occupied, suspension, task, canceller, by, agents, yielded, answer>>

CleanupStops(r) ==
    /\ cleaner[r] = "children"
    /\ todo[r] = {}
    /\ cleaner' = [cleaner EXCEPT ![r] = "join"]
    /\ UNCHANGED <<durable, occupied, suspension, task, canceller, by, todo, agents, yielded, answer>>

\* cleanup_execution or provider.stop raises.
CleanupFails(r) ==
    /\ "failure" \in Env
    /\ cleaner[r] = "children"
    /\ todo[r] = {}
    /\ cleaner' = [cleaner EXCEPT ![r] = "failed"]
    /\ cleanup' = [cleanup EXCEPT ![r] = "failed"]
    /\ UNCHANGED <<status, execution, stopReq, lost, occupied, suspension, task, canceller, by,
                   todo, agents, yielded, answer>>

\* mutant: a lost provider session is reported as cleaned up
VerdictOptimistic(r) == "complete"

Verdict(r) == IF lost[r] THEN "uncertain" ELSE "complete"

\* mutant: the tracked cleanup forgets to give the slot back
CleanupJoinsHolding(r) ==
    /\ cleaner[r] = "join"
    /\ task[r] = "none"
    /\ cleaner' = [cleaner EXCEPT ![r] = "ok"]
    /\ cleanup' = [cleanup EXCEPT ![r] = Verdict(r)]
    /\ UNCHANGED <<status, execution, stopReq, lost, occupied, suspension, task, canceller, by,
                   todo, agents, yielded, answer>>

CleanupJoins(r) ==
    /\ cleaner[r] = "join"
    /\ task[r] = "none"
    /\ cleaner' = [cleaner EXCEPT ![r] = "ok"]
    /\ cleanup' = [cleanup EXCEPT ![r] = Verdict(r)]
    /\ UNCHANGED <<status, execution, stopReq, lost, suspension, task, canceller, by, todo,
                   agents, yielded, answer>>
    /\ ReleaseSettled(r)

\* The caller's bounded join of that task: its result, its error, or neither.
JoinSucceeds(r) ==
    /\ canceller[r] = "wait"
    /\ cleaner[r] \in {"ok", "stopped"}
    /\ cleaner' = [cleaner EXCEPT ![r] = "none"]
    /\ cleanup' = [cleanup EXCEPT ![r] = Verdict(r)]
    /\ canceller' = [canceller EXCEPT ![r] = "ok"]
    /\ UNCHANGED <<status, execution, stopReq, lost, occupied, suspension, task, by, todo, agents,
                   yielded, answer>>

JoinFails(r) ==
    /\ canceller[r] = "wait"
    /\ cleaner[r] \in {"failed", "stopfail"}
    /\ cleanup' = [cleanup EXCEPT ![r] = "failed"]
    /\ canceller' = [canceller EXCEPT ![r] = "error"]
    /\ UNCHANGED <<status, execution, stopReq, lost, occupied, suspension, task, cleaner, by,
                   todo, agents, yielded, answer>>

JoinTimesOut(r) ==
    /\ "timeout" \in Env
    /\ \/ canceller[r] = "wait" /\ cleaner[r] \in Cleaning \union {"stop"}
       \/ canceller[r] = "join" /\ task[r] # "none"
    /\ cleanup' = [cleanup EXCEPT ![r] = "pending"]
    /\ canceller' = [canceller EXCEPT ![r] = "error"]
    /\ UNCHANGED <<status, execution, stopReq, lost, occupied, suspension, task, cleaner, by,
                   todo, agents, yielded, answer>>

\* The finished turn's path: join its coroutine, clean its processes, then
\* cancel the children.
TailJoined(r) ==
    /\ canceller[r] = "join"
    /\ task[r] = "none"
    /\ canceller' = [canceller EXCEPT ![r] = "tidy"]
    /\ UNCHANGED <<durable, occupied, suspension, task, cleaner, by, todo, agents, yielded, answer>>

ProcessesCleaned(r) ==
    /\ canceller[r] = "tidy"
    /\ \/ /\ canceller' = [canceller EXCEPT ![r] = "children"]
          /\ todo' = [todo EXCEPT ![r] = Children(r)]
       \/ /\ "failure" \in Env
          /\ canceller' = [canceller EXCEPT ![r] = "error"]
          /\ UNCHANGED todo
    /\ UNCHANGED <<durable, occupied, suspension, task, cleaner, by, agents, yielded, answer>>

ChildrenRevoked(r) ==
    /\ canceller[r] = "children"
    /\ todo[r] = {}
    /\ canceller' = [canceller EXCEPT ![r] = "ok"]
    /\ UNCHANGED <<durable, occupied, suspension, task, cleaner, by, todo, agents, yielded, answer>>

\* cancel_run returns, or raises, into whoever awaited it.
CancelReturns(r) ==
    /\ canceller[r] \in {"ok", "error"}
    /\ answer' = [answer EXCEPT ![r] = canceller[r]]
    /\ by' = [by EXCEPT ![r] = None]
    /\ LET p == by[r]
           ok == canceller[r] = "ok"
           fails == p \in Run /\ ~ok
           cleanerFails == fails /\ cleaner[p] = "children"
           callerFails == fails /\ canceller[p] = "children"
       IN /\ todo' = [q \in Run |-> IF q = p /\ ok THEN todo[q] \ {r} ELSE todo[q]]
          /\ cleaner' = [q \in Run |-> IF q = p /\ cleanerFails THEN "failed" ELSE cleaner[q]]
          /\ cleanup' = [q \in Run |-> IF q = p /\ cleanerFails THEN "failed" ELSE cleanup[q]]
          /\ canceller' = [q \in Run |-> IF q = r THEN "idle"
                                         ELSE IF q = p /\ callerFails THEN "error"
                                         ELSE canceller[q]]
          /\ purge' = [a \in Agent |-> IF a = p THEN purge[a] \ {r} ELSE purge[a]]
          /\ agentState' = [a \in Agent |-> IF a = p /\ ~ok THEN "failing" ELSE agentState[a]]
    /\ UNCHANGED <<status, execution, stopReq, lost, occupied, suspension, task, mode, yielded>>

-----------------------------------------------------------------------------
(* Agent deletion, shutdown and restart.                                   *)

ReserveAgentDeletion(a) ==
    /\ "delete" \in Env
    /\ agentState[a] = "live"
    /\ agentState' = [agentState EXCEPT ![a] = "reserved"]
    /\ UNCHANGED <<durable, occupied, suspension, task, cancelling, purge, mode, yielded, answer>>

ReleaseAgentDeletion(a) ==
    /\ agentState[a] = "reserved"
    /\ agentState' = [agentState EXCEPT ![a] = "live"]
    /\ UNCHANGED <<durable, occupied, suspension, task, cancelling, purge, mode, yielded, answer>>

\* mutant: only the live runs of the agent are cancelled
PurgeSetLive(a) == {r \in RunsOf(a) : status[r] \in Ledger!Live}

PurgeSet(a) == {r \in RunsOf(a) : status[r] # "absent"}

\* delete_agent: cancel every run the agent ever had, finished ones included.
DeleteAgentBegins(a) ==
    /\ agentState[a] = "reserved"
    /\ agentState' = [agentState EXCEPT ![a] = "removing"]
    /\ purge' = [purge EXCEPT ![a] = PurgeSet(a)]
    /\ UNCHANGED <<durable, occupied, suspension, task, cancelling, mode, yielded, answer>>

PurgeRun(a, r) ==
    /\ r \in purge[a]
    /\ CancelRun(r, a)
    /\ UNCHANGED purge

\* Every cancellation has come back: the provider's agent goes, or the first
\* error is raised and the deletion stays owed.
DeleteAgentEnds(a) ==
    /\ agentState[a] \in {"removing", "failing"}
    /\ purge[a] = {}
    /\ agentState' = [agentState EXCEPT ![a] = IF @ = "removing" THEN "gone" ELSE "reserved"]
    /\ UNCHANGED <<durable, occupied, suspension, task, cancelling, purge, mode, yielded, answer>>

BeginShutdown ==
    /\ "shutdown" \in Env
    /\ mode = "up"
    /\ mode' = "stopping"
    /\ UNCHANGED <<durable, occupied, suspension, task, cancelling, agentState, purge, yielded, answer>>

\* The last wait of shutdown is over: coroutines still running are cancelled.
ShutdownKills(r) ==
    /\ mode = "stopping"
    /\ task[r] # "none"
    /\ task' = [task EXCEPT ![r] = Signalled(@)]
    /\ UNCHANGED <<durable, occupied, suspension, cancelling, agents, yielded, answer>>

\* The process ends, at any point, and startup() repairs the ledger.
Restart ==
    /\ "restart" \in Env
    /\ LET live == {r \in Run : status[r] \in Ledger!Live}
           unsettled == live \union {r \in Run : cleanup[r] \in Debt \/ execution[r] = "open"}
       IN /\ status' = [r \in Run |-> IF r \in live THEN "interrupted" ELSE status[r]]
          /\ cleanup' = [r \in Run |-> IF r \in unsettled THEN "uncertain" ELSE cleanup[r]]
          /\ execution' = [r \in Run |-> IF r \in unsettled THEN "interrupted" ELSE execution[r]]
          /\ lost' = [r \in Run |-> lost[r] \/ r \in unsettled]
    /\ occupied' = {}
    /\ suspension' = [r \in Run |-> "none"]
    /\ task' = [r \in Run |-> "none"]
    /\ cleaner' = [r \in Run |-> "none"]
    /\ canceller' = [r \in Run |-> "idle"]
    /\ by' = [r \in Run |-> None]
    /\ todo' = [r \in Run |-> {}]
    /\ agentState' = [a \in Agent |-> IF agentState[a] = "gone" THEN "gone" ELSE "live"]
    /\ purge' = [a \in Agent |-> {}]
    /\ mode' = "up"
    /\ yielded' = {}
    /\ UNCHANGED <<stopReq, answer>>

-----------------------------------------------------------------------------
RunStep(r) ==
    \/ StartRun(r) \/ StartRunAborts(r)
    \/ SuspendRun(r, TRUE) \/ SuspendRun(r, FALSE) \/ ResumeRun(r)
    \/ ExecuteBegins(r) \/ TaskDropped(r)
    \/ ProviderFinishes(r) \/ ProviderWaits(r) \/ ProviderResumes(r) \/ StreamStops(r)
    \/ WatchdogFires(r) \/ WatchdogStopEnds(r) \/ WatchdogReturns(r)
    \/ StreamCloses(r) \/ StreamCloseFails(r) \/ ExecutionFinished(r)

CancelStep(r) ==
    \/ UserCancels(r) \/ \E c \in Run : PropagateCancel(r, c)
    \/ CleanupStarts(r) \/ CleanupStops(r) \/ CleanupFails(r) \/ CleanupJoins(r)
    \/ JoinSucceeds(r) \/ JoinFails(r) \/ JoinTimesOut(r)
    \/ TailJoined(r) \/ ProcessesCleaned(r) \/ ChildrenRevoked(r)
    \/ CancelReturns(r) \/ ShutdownKills(r)

AgentStep(a) ==
    \/ ReserveAgentDeletion(a) \/ ReleaseAgentDeletion(a) \/ DeleteAgentBegins(a)
    \/ DeleteAgentEnds(a) \/ \E r \in Run : PurgeRun(a, r)

Next ==
    \/ \E r \in Run : RunStep(r) \/ CancelStep(r)
    \/ \E a \in Agent : AgentStep(a)
    \/ BeginShutdown
    \/ Restart

Spec == Init /\ [][Next]_vars

\* The event loop runs every ready coroutine, a responsive provider closes its
\* stream, and asyncio.Lock serves its waiters in order (the strong fairness).
\* Users, providers' results, watchdogs and faults owe nothing.
Fairness ==
    \A r \in Run :
        /\ WF_vars(TaskDropped(r) \/ StreamCloses(r) \/ StreamCloseFails(r) \/ ExecutionFinished(r))
        /\ WF_vars(\/ CleanupStarts(r) \/ CleanupStops(r) \/ CleanupJoins(r)
                   \/ JoinSucceeds(r) \/ JoinFails(r) \/ TailJoined(r)
                   \/ ProcessesCleaned(r) \/ ChildrenRevoked(r) \/ CancelReturns(r))
        /\ SF_vars(\E c \in Run : PropagateCancel(r, c))

FairSpec == Spec /\ Fairness

-----------------------------------------------------------------------------
(* Properties.                                                             *)

\* An agent never has more slots taken than max_concurrent_runs, whatever
\* starts, resumptions and releases are interleaved.
CapacityRespected ==
    \A a \in Agent : Cardinality(occupied \intersect RunsOf(a)) <= Limit[a]

\* While a provider coroutine runs, closes its stream or unwinds, its run holds
\* a slot: only an explicit suspension may give it away earlier, never the
\* terminal result, a cancellation, a failed cleanup or a watchdog.
ExecutionHoldsSlot ==
    \A r \in Run : task[r] # "none" => r \in occupied \union yielded

\* A run that is over, has unwound and owes no cleanup holds no slot: nothing
\* else would ever free it before a restart.
SettledHoldsNothing ==
    \A r \in occupied :
        ~(status[r] \in Terminal /\ task[r] = "none" /\ cleanup[r] \notin Debt)

\* Once cancel_run has told a user that a run is stopped, nothing that depends
\* on that run is live, at any depth, and nothing becomes live again.
StopReachesFamily ==
    \A r, d \in Run :
        answer[r] = "ok" /\ UserStopped(r) /\ r \in Ancestors[d]
            => status[d] \in Terminal \union {"absent"}

\* A run whose provider session died with the process is never reported as
\* cleaned up, however often its cancellation is retried.
LostNeverComplete == \A r \in Run : lost[r] => cleanup[r] # "complete"

\* When delete_agent has removed the provider's agent, no coroutine of that
\* agent is left and none of its runs is live.
DeletedAgentIdle ==
    \A a \in Agent : agentState[a] = "gone" =>
        \A r \in RunsOf(a) : task[r] = "none" /\ status[r] \in Terminal \union {"absent"}

\* The manager implements the ledger's lifecycle: no transition outside the
\* table, no terminal run reopened, "interrupted" only by a restart.
LedgerSpec == Ledger!Spec

\* With a responsive provider, every run that was asked to stop gives its slot
\* back, whatever else is being cancelled: a request to stop is never withdrawn,
\* so again and again none of them holds one.
StopFreesSlot == []<>(\A r \in Run : stopReq[r] # "no" => r \notin occupied)
=============================================================================
