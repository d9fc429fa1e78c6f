------------------------------ MODULE Sandbox ------------------------------
(***************************************************************************)
(* Commands of one Sandbox: the gate between commands and captures of      *)
(* portable state (services.py), the host's operations                     *)
(* (sandbox/operations.py), one execution (sandbox/execution.py), and the  *)
(* stops, receipts and recovery of sandbox/history.py.  A command has an   *)
(* outer task, which holds the gate and waits, and an inner one, which     *)
(* drives the native back end and is shielded from the outer one's         *)
(* cancellation.  The back end is external: it refuses a command unless    *)
(* the Sandbox is running, and a cancelled execution is drained before it  *)
(* returns.                                                                *)
(***************************************************************************)
EXTENDS Naturals, FiniteSets

CONSTANTS
    Op,         \* commands
    Tool,       \* those submitted as operations of an Agent (the others call execute directly)
    Keep,       \* direct commands that outlive their caller (_keep_on_disconnect)
    Capture,    \* captures of portable state
    MaxStops,   \* bound on the calls of history.stop, numbered as they come
    MaxCancels, \* bound on the callers of commands that are cancelled, between two crashes
    MaxCrashes, \* bound on the crashes
    Env         \* what else may happen: "cancel", "timeout", "fault"; "late": processes
                \* survive the cancellation of a command of whose two tasks a stop joins
                \* the outer one

ASSUME SandboxConstants ==
    /\ Tool \subseteq Op
    /\ Keep \subseteq Op \ Tool
    /\ MaxStops \in Nat
    /\ MaxCancels \in Nat
    /\ MaxCrashes \in Nat

Stop == 1..MaxStops

VARIABLES
    op,        \* each command: where it is, its registered task, its cancellations, its end
    receipt,   \* its durable journal entry
    cap,       \* each capture
    native,    \* commands with processes in the back end
    running,   \* the back end admits commands
    stopping,  \* _sandbox_stopping
    stop,      \* each stop: where it is, what it joins, whose receipts it writes
    stopped,   \* history: commands that a confirmed stop has covered
    alive,     \* the process runs
    crashes    \* how often it died

vars == <<op, receipt, cap, native, running, stopping, stop, stopped, alive, crashes>>

Stages == {"new", "arrived", "asleep", "inside", "created", "prepared", "marked",
           "native", "ended", "done", "lost"}
\* Of a receipt's final states only "interrupted" is told apart.
States == {"none", "running", "closed", "interrupted"}

TypeOK ==
    /\ op \in [Op -> [at : Stages, task : {"none", "outer", "inner"},
                      kill : {"no", "asked", "leaving"}, cut : BOOLEAN,
                      fate : {"none", "ok", "error", "fault", "cancel"}]]
    /\ receipt \in [Op -> [state : States, req : BOOLEAN,
                           cleanup : {"none", "pending", "failed", "complete"}]]
    /\ cap \in [Capture -> {"new", "asleep", "awake", "active", "done"}]
    /\ native \subseteq Op
    /\ running \in BOOLEAN
    /\ stopping \in BOOLEAN
    /\ stop \in [Stop -> [at : {"idle", "marked", "joining", "closing", "over"},
                          all : BOOLEAN, tasks : SUBSET (Op \X {"outer", "inner"}),
                          ops : SUBSET Op]]
    /\ stopped \subseteq Op
    /\ alive \in BOOLEAN
    /\ crashes \in 0..MaxCrashes

NewOp == [at |-> "new", task |-> "none", kill |-> "no", cut |-> FALSE, fate |-> "none"]

Idle == [at |-> "idle", all |-> FALSE, tasks |-> {}, ops |-> {}]

\* A stop that has returned.
Over == [Idle EXCEPT !.at = "over"]

Init ==
    /\ op = [o \in Op |-> NewOp]
    /\ receipt = [o \in Op |-> [state |-> "none", req |-> FALSE, cleanup |-> "none"]]
    /\ cap = [c \in Capture |-> "new"]
    /\ native = {}
    /\ running = FALSE
    /\ stopping = FALSE
    /\ stop = [s \in Stop |-> Idle]
    /\ stopped = {}
    /\ alive = TRUE
    /\ crashes = 0

-----------------------------------------------------------------------------
(* The gate *)

Within == {"inside", "created", "prepared", "marked", "native", "ended"}

\* _executions > 0
Executing == \E o \in Op : op[o].at \in Within

\* _capture_active
Capturing == \E c \in Capture : cap[c] = "active"

\* _capture_waiters > 0
Waiting == \E c \in Capture : cap[c] \in {"asleep", "awake"}

\* mutant: only an active capture keeps commands out, and only another one a capture.
CaptureMayEnterAnytime == ~Capturing

CaptureMayEnter == ~Capturing /\ ~Executing

CommandMayEnter == ~Capturing /\ ~Waiting

\* notify_all: everyone who sleeps looks again.
WokenOps(f) == [o \in Op |-> IF f[o].at = "asleep" THEN [f[o] EXCEPT !.at = "arrived"] ELSE f[o]]
WokenCaptures(f) == [c \in Capture |-> IF f[c] = "asleep" THEN "awake" ELSE f[c]]

\* mutant: a capture that leaves the queue wakes nobody.
LeavesQuietly(c) ==
    /\ cap' = [cap EXCEPT ![c] = "done"]
    /\ op' = op

\* A capture that gives up or ends: the counter, then notify_all.
CaptureGone(c) ==
    /\ cap' = WokenCaptures([cap EXCEPT ![c] = "done"])
    /\ op' = WokenOps(op)

\* capture(): counted as a waiter first, so that new commands hold back.
CaptureTries(c) ==
    /\ alive
    /\ cap[c] \in {"new", "awake"}
    /\ IF CaptureMayEnter
       THEN /\ cap' = WokenCaptures([cap EXCEPT ![c] = "active"])
            /\ op' = WokenOps(op)
       ELSE /\ cap' = [cap EXCEPT ![c] = "asleep"]
            /\ op' = op
    /\ UNCHANGED <<receipt, native, running, stopping, stop, stopped, alive, crashes>>

CaptureCancelled(c) ==
    /\ alive
    /\ "cancel" \in Env
    /\ cap[c] \in {"asleep", "awake"}
    /\ CaptureGone(c)
    /\ UNCHANGED <<receipt, native, running, stopping, stop, stopped, alive, crashes>>

CaptureEnds(c) ==
    /\ alive
    /\ cap[c] = "active"
    /\ CaptureGone(c)
    /\ UNCHANGED <<receipt, native, running, stopping, stop, stopped, alive, crashes>>

-----------------------------------------------------------------------------
(* A command *)

\* submit(): admission, the reserved receipt and the task, under the mutation lock.
Submit(o) ==
    /\ alive
    /\ o \in Tool
    /\ op[o].at = "new"
    /\ ~stopping
    /\ receipt' = [receipt EXCEPT ![o].state = "running"]
    /\ op' = [op EXCEPT ![o].at = "arrived", ![o].task = "outer"]
    /\ UNCHANGED <<cap, native, running, stopping, stop, stopped, alive, crashes>>

\* A user's or a plugin's own call of execute_sandbox.
Calls(o) ==
    /\ alive
    /\ o \in Op \ Tool
    /\ op[o].at = "new"
    /\ op' = [op EXCEPT ![o].at = "arrived"]
    /\ UNCHANGED <<receipt, cap, native, running, stopping, stop, stopped, alive, crashes>>

\* execution(): enter the gate or sleep.
TriesGate(o) ==
    /\ alive
    /\ op[o].at = "arrived"
    /\ op[o].kill = "no"
    /\ op' = [op EXCEPT ![o].at = IF CommandMayEnter THEN "inside" ELSE "asleep"]
    /\ UNCHANGED <<receipt, cap, native, running, stopping, stop, stopped, alive, crashes>>

\* ensure_sandbox_running; a Sandbox that is being stopped is not started.
EnsureRunning(o) ==
    /\ alive
    /\ op[o].at = "inside"
    /\ op[o].kill = "no"
    /\ IF running \/ ~stopping
       THEN /\ running' = TRUE
            /\ op' = [op EXCEPT ![o].at = "created"]
       ELSE /\ running' = running
            /\ op' = [op EXCEPT ![o].at = "ended", ![o].fate = "error"]
    /\ UNCHANGED <<receipt, cap, native, stopping, stop, stopped, alive, crashes>>

\* _prepare of the inner task, up to _start_receipt: from here on the inner
\* task is the one that a stop cancels and joins.
Prepare(o) ==
    /\ alive
    /\ op[o].at = "created"
    /\ ~op[o].cut
    /\ IF stopping
       THEN /\ op' = [op EXCEPT ![o].at = "ended", ![o].fate = "error"]
            /\ receipt' = receipt
       ELSE /\ op' = [op EXCEPT ![o].at = "prepared", ![o].task = "inner"]
            /\ receipt' = [receipt EXCEPT ![o].state = "running"]
    /\ UNCHANGED <<cap, native, running, stopping, stop, stopped, alive, crashes>>

\* Where an inner task of a command that calls execute directly goes out of the books.
Unregistered(o) == IF o \in Tool THEN op[o].task ELSE "none"

\* How a command whose cancellation was asked for closes that request.
Cleanup(o, ok) ==
    IF ~receipt[o].req THEN receipt[o].cleanup ELSE IF ok THEN "complete" ELSE "failed"

\* The inner task ends by itself, with a result or with an error; an error
\* closes the Sandbox when a cancellation was under way.
InnerEnds(o, fate) ==
    /\ op' = [op EXCEPT ![o].at = "ended", ![o].fate = fate, ![o].cut = FALSE,
                         ![o].task = Unregistered(o)]
    /\ receipt' = [receipt EXCEPT ![o].state = "closed",
                                  ![o].cleanup = Cleanup(o, fate \in {"ok", "cancel"})]
    /\ stopping' = (stopping \/ (fate \in {"error", "fault"} /\ receipt[o].req))

\* _mark_command_started: admission once more, then the event is published.
MarkStarted(o) ==
    /\ alive
    /\ op[o].at = "prepared"
    /\ ~op[o].cut
    /\ IF stopping
       THEN InnerEnds(o, "error")
       ELSE /\ op' = [op EXCEPT ![o].at = "marked"]
            /\ UNCHANGED <<receipt, stopping>>
    /\ UNCHANGED <<cap, native, running, stop, stopped, alive, crashes>>

\* backend.execute
Launch(o) ==
    /\ alive
    /\ op[o].at = "marked"
    /\ ~op[o].cut
    /\ IF running
       THEN /\ native' = native \cup {o}
            /\ op' = [op EXCEPT ![o].at = "native"]
            /\ UNCHANGED <<receipt, stopping>>
       ELSE /\ InnerEnds(o, "error")
            /\ native' = native
    /\ UNCHANGED <<cap, running, stop, stopped, alive, crashes>>

\* The command ends by itself or by its own time limit, or the back end fails.
Finishes(o) ==
    /\ alive
    /\ op[o].at = "native"
    /\ ~op[o].cut
    /\ native' = native \ {o}
    /\ \/ InnerEnds(o, "ok")
       \/ "fault" \in Env /\ InnerEnds(o, "error")
    /\ UNCHANGED <<cap, running, stop, stopped, alive, crashes>>

\* Cancellation reaches the inner task before its command was launched.
CutBeforeLaunch(o) ==
    /\ alive
    /\ op[o].cut
    /\ \/ /\ op[o].at = "created"
          /\ op' = [op EXCEPT ![o].at = "ended", ![o].fate = "cancel", ![o].cut = FALSE]
          /\ UNCHANGED <<receipt, stopping>>
       \/ /\ op[o].at \in {"prepared", "marked"}
          /\ InnerEnds(o, IF receipt[o].req THEN "ok" ELSE "cancel")
    /\ UNCHANGED <<cap, native, running, stop, stopped, alive, crashes>>

\* It reaches a launched command, which returns when its processes are gone; they
\* may still be there when the back end fails.
Drained(o) ==
    /\ alive
    /\ op[o].cut
    /\ op[o].at = "native"
    /\ \/ /\ native' = native \ {o}
          /\ InnerEnds(o, IF receipt[o].req THEN "ok" ELSE "cancel")
       \/ /\ "fault" \in Env
          /\ "late" \in Env \/ \A s \in Stop : <<o, "outer">> \notin stop[s].tasks
          /\ native' = native
          /\ InnerEnds(o, "fault")
    /\ UNCHANGED <<cap, running, stop, stopped, alive, crashes>>

\* The outer task leaves the gate and wakes the others, if it was ever inside; an
\* operation its books, and its receipt is closed (_run, _finish).
Closed(o) == IF o \in Tool THEN "closed" ELSE receipt[o].state

Leave(o) ==
    /\ LET gone == [op EXCEPT ![o].at = "done", ![o].task = "none"]
       IN IF op[o].at \in Within
          THEN op' = WokenOps(gone) /\ cap' = WokenCaptures(cap)
          ELSE op' = gone /\ cap' = cap
    /\ receipt' = [receipt EXCEPT ![o].state = Closed(o)]

OuterEnds(o) ==
    /\ alive
    /\ op[o].at = "ended"
    /\ op[o].kill # "asked"
    /\ Leave(o)
    /\ UNCHANGED <<native, running, stopping, stop, stopped, alive, crashes>>

\* The request that waits for the command is cancelled.
CallerCancels(o) ==
    /\ alive
    /\ "cancel" \in Env
    /\ Cardinality({r \in Op : op[r].kill # "no"}) < MaxCancels
    /\ op[o].at \notin {"new", "done", "lost"}
    /\ op[o].kill = "no"
    /\ op' = [op EXCEPT ![o].kill = "asked"]
    /\ UNCHANGED <<receipt, cap, native, running, stopping, stop, stopped, alive, crashes>>

\* The outer task is cancelled before there is an inner one.
KilledOutside(o) ==
    /\ alive
    /\ op[o].kill = "asked"
    /\ op[o].at \in {"arrived", "asleep", "inside"}
    /\ Leave(o)
    /\ UNCHANGED <<native, running, stopping, stop, stopped, alive, crashes>>

\* mutant: the outer task does not wait for the one it has cancelled.
DisconnectsAtOnce(o) ==
    /\ op' = WokenOps([op EXCEPT ![o].at = "done", ![o].task = "none", ![o].cut = TRUE])
    /\ receipt' = [receipt EXCEPT ![o].state = Closed(o)]
    /\ cap' = WokenCaptures(cap)

\* _finish_disconnected_execution: the request is journalled for a registered
\* command, and the outer task stays in the gate until the inner one has ended.
Disconnects(o) ==
    /\ op' = [op EXCEPT ![o].kill = "leaving", ![o].cut = @ \/ (op[o].at # "ended" /\ o \notin Keep)]
    /\ receipt' = IF op[o].task = "inner" /\ o \notin Keep
                  THEN [receipt EXCEPT ![o].req = TRUE, ![o].cleanup = "pending"]
                  ELSE receipt
    /\ cap' = cap

KilledInside(o) ==
    /\ alive
    /\ op[o].kill = "asked"
    /\ op[o].at \in Within \ {"inside"}
    /\ Disconnects(o)
    /\ UNCHANGED <<native, running, stopping, stop, stopped, alive, crashes>>

-----------------------------------------------------------------------------
(* Stops *)

\* _sandbox_commands
Registered == {o \in Op : op[o].task # "none"}

Debts == {o \in Op : receipt[o].cleanup \in {"pending", "failed"}}

\* Whose tasks a stop of the Sandbox, or of one command, joins.
StopTargets(all) == IF all THEN {Registered} ELSE {{o} : o \in Registered}

\* Whose receipts it writes: with no command active a stop of the Sandbox takes
\* up a debt, if there is one.
TakenUp(targets) ==
    IF targets # {} \/ Debts = {} THEN {targets} ELSE {{o} : o \in Debts}

\* The intent is journalled, and admission closed.
Marks(s, all, targets, ops) ==
    /\ stop' = [stop EXCEPT ![s] = [at |-> "marked", all |-> all, ops |-> ops,
                                    tasks |-> {<<o, op[o].task>> : o \in targets}]]
    /\ receipt' = [o \in Op |-> IF o \in ops
                                THEN [receipt[o] EXCEPT !.req = TRUE, !.cleanup = "pending"]
                                ELSE receipt[o]]
    /\ stopping' = (stopping \/ all)

\* history.stop, up to where it leaves the mutation lock.
StopMarks(s) ==
    /\ alive
    /\ stop[s] = Idle
    /\ \A r \in 1..(s - 1) : stop[r] # Idle
    /\ \E all \in BOOLEAN : \E targets \in StopTargets(all) : \E ops \in TakenUp(targets) :
          Marks(s, all, targets, ops)
    /\ UNCHANGED <<op, cap, native, running, stopped, alive, crashes>>

\* The clean-up task cancels what was collected; more may have happened since.
StopCancels(s) ==
    /\ alive
    /\ stop[s].at = "marked"
    /\ op' = [o \in Op |->
                CASE <<o, "outer">> \in stop[s].tasks /\ op[o].kill = "no"
                         /\ op[o].at # "done" -> [op[o] EXCEPT !.kill = "asked"]
                  [] <<o, "inner">> \in stop[s].tasks
                         /\ op[o].at \notin {"ended", "done"} -> [op[o] EXCEPT !.cut = TRUE]
                  [] OTHER -> op[o]]
    /\ stop' = [stop EXCEPT ![s].at = "joining"]
    /\ UNCHANGED <<receipt, cap, native, running, stopping, stopped, alive, crashes>>

\* mutant: a stop does not wait for what it has cancelled.
JoinedAtOnce(s) == alive

Joined(s) == \A t \in stop[s].tasks :
    op[t[1]].at \in (IF t[2] = "inner" THEN {"ended", "done"} ELSE {"done"})

\* What gather() returns is raised again unless it is a cancellation.  An
\* operation returns some errors of its command as results.
Raised(s) == \E t \in stop[s].tasks :
    \/ t[2] = "inner" /\ op[t[1]].fate \in {"error", "fault"}
    \/ t[2] = "outer" /\ op[t[1]].fate = "fault" /\ op[t[1]].kill = "no"

MayRaise(s) == Raised(s) \/ \E t \in stop[s].tasks :
    op[t[1]].fate = "error" /\ op[t[1]].kill = "no"

\* The stop's outcome in the receipts it has taken up.
Outcome(s, cleanup) ==
    [o \in Op |-> IF o \in stop[s].ops THEN [receipt[o] EXCEPT !.cleanup = cleanup]
                  ELSE receipt[o]]

StopConfirmed(s) ==
    /\ stop' = [stop EXCEPT ![s] = Over]
    /\ receipt' = Outcome(s, "complete")
    /\ stopped' = stopped \cup stop[s].ops
    /\ stopping' = (stopping /\ ~stop[s].all)

\* Every task was joined without an error: one command's stop is complete, the
\* Sandbox's goes on to the back end.
StopJoins(s) ==
    /\ alive
    /\ stop[s].at = "joining"
    /\ Joined(s)
    /\ ~Raised(s)
    /\ IF stop[s].all
       THEN /\ stop' = [stop EXCEPT ![s].at = "closing"]
            /\ running' = FALSE
            /\ UNCHANGED <<receipt, stopped, stopping>>
       ELSE /\ StopConfirmed(s)
            /\ running' = running
    /\ UNCHANGED <<op, cap, native, alive, crashes>>

\* backend.terminate has waited for its executions and killed what was left.
StopTerminates(s) ==
    /\ alive
    /\ stop[s].at = "closing"
    /\ \A o \in Op : op[o].at # "native"
    /\ native' = {}
    /\ StopConfirmed(s)
    /\ UNCHANGED <<op, cap, running, alive, crashes>>

\* The bounded window closes: the tasks drain on, admission stays as it is.
StopTimesOut(s) ==
    /\ alive
    /\ "timeout" \in Env
    /\ stop[s].at \in {"joining", "closing"}
    /\ stop' = [stop EXCEPT ![s] = Over]
    /\ receipt' = Outcome(s, "pending")
    /\ UNCHANGED <<op, cap, native, running, stopping, stopped, alive, crashes>>

\* Anything else than a time-out ends a stop as failed: admission is closed.
StopEndsFailed(s) ==
    /\ stop' = [stop EXCEPT ![s] = Over]
    /\ receipt' = Outcome(s, "failed")
    /\ stopping' = TRUE
    /\ UNCHANGED <<op, cap, native, running, stopped, alive, crashes>>

\* A joined task raised, or the back end fails.
StopFails(s) ==
    /\ alive
    /\ \/ stop[s].at = "joining" /\ Joined(s) /\ MayRaise(s)
       \/ stop[s].at = "closing" /\ "fault" \in Env
    /\ StopEndsFailed(s)

\* The stop's own caller is cancelled: what it has cancelled drains on.
StopAbandoned(s) ==
    /\ alive
    /\ "cancel" \in Env
    /\ stop[s].at \in {"joining", "closing"}
    /\ StopEndsFailed(s)

-----------------------------------------------------------------------------
(* The process dies and starts again *)

Crash ==
    /\ alive
    /\ crashes < MaxCrashes
    /\ alive' = FALSE
    /\ crashes' = crashes + 1
    /\ op' = [o \in Op |-> IF op[o].at = "new" THEN op[o]
                           ELSE [NewOp EXCEPT !.at = "lost"]]
    /\ cap' = [c \in Capture |-> IF cap[c] = "new" THEN "new" ELSE "done"]
    /\ stop' = [s \in Stop |-> IF stop[s] = Idle THEN Idle ELSE Over]
    /\ stopping' = FALSE
    /\ running' = FALSE
    /\ UNCHANGED <<receipt, native, stopped>>

\* mutant: what was running is left as it is.
RecoveredRunning(settled) ==
    [o \in Op |-> IF o \in Debts
                  THEN [receipt[o] EXCEPT !.cleanup = IF o \in settled THEN "complete" ELSE "failed"]
                  ELSE receipt[o]]

\* A stop that was owed is done again; a command that was running reads as
\* interrupted and is never submitted again.
Recovered(settled) ==
    [o \in Op |-> [receipt[o] EXCEPT
        !.state = IF @ = "running" THEN "interrupted" ELSE @,
        !.cleanup = IF o \notin Debts THEN @ ELSE IF o \in settled THEN "complete" ELSE "failed"]]

\* history.recover, one debt after the other; the last one decides whether
\* admission is open.  The back end has reconciled its process trees before.
Recover ==
    /\ ~alive
    /\ alive' = TRUE
    /\ native' = {}
    /\ \E settled \in IF "fault" \in Env THEN SUBSET Debts ELSE {Debts} :
          /\ receipt' = Recovered(settled)
          /\ stopped' = stopped \cup settled
          /\ stopping' \in IF settled = Debts THEN {FALSE}
                           ELSE IF settled = {} THEN {TRUE} ELSE BOOLEAN
    /\ UNCHANGED <<op, cap, running, stop, crashes>>

-----------------------------------------------------------------------------
(* Specification *)

\* What the program does by itself, once asked.
OpStep(o) ==
    \/ TriesGate(o) \/ EnsureRunning(o) \/ Prepare(o) \/ MarkStarted(o) \/ Launch(o)
    \/ Finishes(o) \/ CutBeforeLaunch(o) \/ Drained(o)
    \/ OuterEnds(o) \/ KilledOutside(o) \/ KilledInside(o)

StopStep(s) == StopCancels(s) \/ StopJoins(s) \/ StopTerminates(s) \/ StopFails(s)

\* A stop that does not wait any longer.
StopGivesUp(s) == StopTimesOut(s) \/ StopAbandoned(s)

CaptureStep(c) == (cap[c] = "awake" /\ CaptureTries(c)) \/ CaptureEnds(c)

Progress ==
    \/ \E o \in Op : OpStep(o)
    \/ \E s \in Stop : StopStep(s)
    \/ \E c \in Capture : CaptureStep(c)
    \/ Recover

\* What users, Agents, time and the host do.
Demand ==
    \/ \E o \in Op : Submit(o) \/ Calls(o) \/ CallerCancels(o)
    \/ \E s \in Stop : StopMarks(s) \/ StopGivesUp(s)
    \/ \E c \in Capture : (cap[c] = "new" /\ CaptureTries(c)) \/ CaptureCancelled(c)
    \/ Crash

Next == Progress \/ Demand

Spec == Init /\ [][Next]_vars

FairSpec == Spec /\ WF_vars(Progress)

-----------------------------------------------------------------------------
(* Properties *)

\* A receipt reads "running" only while a task lives that will close it: an
\* operation cancelled before its first instruction, one whose inner task never
\* came to write, and one cut off by a restart all get a final state.
ReceiptsSound ==
    /\ TypeOK
    /\ alive => \A o \in Op : receipt[o].state = "running" => op[o].at \notin {"done", "lost"}

\* While portable state is captured no other capture is active, no command is
\* inside the gate, and no process of a command runs, unless its failed
\* clean-up is on record: the gate is held for the inner task although it
\* outlives the outer one's cancellation (services.py:168, execution.py:64).
CutIsStable ==
    Capturing => /\ ~Executing
                 /\ native \subseteq Debts
                 /\ Cardinality({c \in Capture : cap[c] = "active"}) = 1

\* A command that a confirmed stop has covered has no process, then or later:
\* whichever of its two tasks was registered when the stop collected them, and
\* whatever was launched between the intent and the cancellation
\* (history.py:136-168).
StoppedStaysStopped == stopped \cap native = {}

\* Every command and every capture that has begun comes to its end: a capture
\* that waits holds commands back, and whoever leaves wakes the others
\* (services.py:177-207).
GateServesAll ==
    []<>(/\ alive
         /\ \A o \in Op : op[o].at \in {"new", "done", "lost"}
         /\ \A c \in Capture : cap[c] \in {"new", "done"})
=============================================================================
