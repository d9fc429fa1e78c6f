--------------------------- MODULE BackgroundJobs ---------------------------
(***************************************************************************)
(* Durable external work (background_jobs.py) and its admission of         *)
(* continuation turns (node_continuations.py): submission under a request  *)
(* key, attachment of existing work, monitoring by the host's loop, user   *)
(* controls, and the wake-up of the Agent's session.                       *)
(*                                                                         *)
(* One Agent in one session; a job stands for its request_key.  A revision *)
(* counter only serves to tell a current read from a stale one, so the     *)
(* model keeps the set of reads that are still current (fresh).  An        *)
(* observation returns the state the remote work had when the call began,  *)
(* or the one it has when the call ends.                                   *)
(***************************************************************************)
EXTENDS FiniteSets, Naturals

CONSTANTS
    Job,                \* request keys
    External,           \* identities of remote work
    Existing,           \* remote work that exists beforehand
    UserTurn,           \* runs started by a user
    NextTurn,           \* runs the host may admit as continuations
    None,
    MaxProbes,          \* probes of the loop at a time (4 in the code)
    MaxContinuations,   \* MAX_CONTINUATION_TURNS
    Env                 \* what users and faults may do

EnvKind == {"attach", "parallel", "control", "stop", "revoke", "crash", "fault"}

ASSUME JobConstants ==
    /\ Existing \subseteq External
    /\ UserTurn \intersect NextTurn = {}
    /\ None \notin Job \union External \union UserTurn \union NextTurn
    /\ External \intersect {"idle", "preflight", "calling"} = {}
    /\ MaxProbes \in Nat \ {0} /\ MaxContinuations \in Nat
    /\ Env \subseteq EnvKind

Turn == UserTurn \union NextTurn

VARIABLES
    rec,        \* job -> its row of background_jobs
    remote,     \* remote work -> "absent", "active" or "over"
    turn,       \* run -> "absent", "live", "succeeded" or "broken"
    stopped,    \* runs a user asked to stop
    line,       \* run -> the runs above it
    access,     \* the grants that authorize() checks are in place
    submission, \* job -> how far its submit call has come (submissions)
    attaching,  \* attach calls in flight: job, identity, prior identity, state seen
    look,       \* job, observer -> remote state when its inspection began
    fresh,      \* reads of a row, as <<job, reader>>, that are still current
    snap,       \* the rows that the current tick read at its start
    todo,       \* jobs that tick has yet to handle
    delivering, \* the job whose delivery waits for the mutation lock
    calls,      \* history: provider.submit calls per job
    armed,      \* history: jobs whose wake-up is owed to the session
    woken       \* history: continuations admitted for a job since it was armed

turns == <<turn, stopped, line>>
loop == <<snap, todo, delivering>>
history == <<calls, armed, woken>>
vars == <<rec, remote, turns, access, submission, attaching, look, fresh, loop, history>>

ACTIVE == {"submitting", "running"}     \* "queued" is folded into "running"
Status == {"absent", "finished", "unknown"} \union ACTIVE
Observer == {"probe", "refresh", "cancel"}

Row == [status: Status, ext: External \union {None}, paused: BOOLEAN, wake: BOOLEAN,
        note: Turn \union {None}, run: Turn \union {None}, monitor: BOOLEAN]

NoRow == [status |-> "absent", ext |-> None, paused |-> FALSE, wake |-> FALSE,
          note |-> None, run |-> None, monitor |-> FALSE]

TypeOK ==
    /\ rec \in [Job -> Row]
    /\ remote \in [External -> {"absent", "active", "over"}]
    /\ turn \in [Turn -> {"absent", "live", "succeeded", "broken"}]
    /\ stopped \subseteq Turn
    /\ line \in [Turn -> SUBSET Turn]
    /\ access \in BOOLEAN
    /\ submission \in [Job -> {"idle", "preflight", "calling"} \union External]
    /\ attaching \subseteq Job \X External \X (External \union {None}) \X {"active", "over"}
    /\ look \in [Job -> [Observer -> {"idle", "active", "over"}]]
    /\ fresh \subseteq Job \X (Observer \union {"tick"})
    /\ snap \in [Job -> Row]
    /\ todo \subseteq Job
    /\ delivering \in Job \union {None}
    /\ calls \in [Job -> Nat]
    /\ armed \subseteq Job
    /\ woken \in [Job -> Nat]

Init ==
    /\ rec = [k \in Job |-> NoRow]
    /\ remote = [e \in External |-> IF e \in Existing THEN "active" ELSE "absent"]
    /\ turn = [t \in Turn |-> "absent"]
    /\ stopped = {}
    /\ line = [t \in Turn |-> {}]
    /\ access = TRUE
    /\ submission = [k \in Job |-> "idle"]
    /\ attaching = {}
    /\ look = [k \in Job |-> [o \in Observer |-> "idle"]]
    /\ fresh = {}
    /\ snap = [k \in Job |-> NoRow]
    /\ todo = {}
    /\ delivering = None
    /\ calls = [k \in Job |-> 0]
    /\ armed = {}
    /\ woken = [k \in Job |-> 0]

Live(t) == turn[t] = "live"
StoppedLine(t) ==
    t # None /\ ({t} \union line[t]) \intersect stopped # {}

\* Between two awaits the tick runs alone.
LoopYields == todo = {} \/ delivering # None

\* update(): the row changes and every earlier read of it is out of date.
Update(k, row) ==
    /\ rec' = [rec EXCEPT ![k] = row]
    /\ fresh' = {f \in fresh : f[1] # k}

\* mutant: an observation is recorded whatever happened meanwhile
UpdateAnyway(k, reader, row) == Update(k, row)

\* update(expected_revision=...): nothing happens on a stale read.
UpdateIfFresh(k, reader, row) ==
    IF <<k, reader>> \in fresh THEN Update(k, row) ELSE UNCHANGED <<rec, fresh>>

Arm(k) == armed' = armed \union {k} /\ woken' = [woken EXCEPT ![k] = 0]
Disarm(k) == armed' = armed \ {k} /\ UNCHANGED woken

-----------------------------------------------------------------------------
(* Turns of the Agent.                                                     *)

\* A stopped turn holds the Agent until its tool calls have unwound.
Busy == (\E t \in Turn : Live(t)) \/ attaching # {} \/ \E k \in Job : submission[k] # "idle"

\* A turn calls its tools one at a time, unless the provider asks for several.
Calling(t) ==
    /\ Live(t) /\ access
    /\ \/ "parallel" \in Env
       \/ attaching = {} /\ \A k \in Job : submission[k] = "idle"

UserStarts(t) ==
    /\ LoopYields
    /\ t \in UserTurn /\ turn[t] = "absent"
    /\ ~Busy
    /\ turn' = [turn EXCEPT ![t] = "live"]
    /\ UNCHANGED <<rec, remote, stopped, line, access, submission, attaching, look, fresh, loop, history>>

TurnEnds(t) ==
    /\ LoopYields
    /\ Live(t)
    /\ attaching = {} /\ \A k \in Job : submission[k] = "idle"
    /\ \E result \in {"succeeded", "broken"} : turn' = [turn EXCEPT ![t] = result]
    /\ UNCHANGED <<rec, remote, stopped, line, access, submission, attaching, look, fresh, loop, history>>

\* Stop, of a live turn or of one that has ended, with the turns below it.
UserStops(t) ==
    /\ LoopYields
    /\ "stop" \in Env
    /\ turn[t] # "absent" /\ t \notin stopped
    /\ LET family == {u \in Turn : t \in {u} \union line[u]}
       IN /\ turn' = [u \in Turn |-> IF u \in family /\ Live(u) THEN "broken" ELSE turn[u]]
          /\ stopped' = stopped \union family
          /\ armed' = {k \in armed : rec[k].run \notin family}
    /\ UNCHANGED <<rec, remote, line, access, submission, attaching, look, fresh, loop, calls, woken>>

AccessChanges ==
    /\ LoopYields
    /\ "revoke" \in Env
    /\ access' = ~access
    /\ UNCHANGED <<rec, remote, turns, submission, attaching, look, fresh, loop, history>>

RemoteEnds(e) ==
    /\ LoopYields
    /\ remote[e] = "active"
    /\ remote' = [remote EXCEPT ![e] = "over"]
    /\ UNCHANGED <<rec, turns, access, submission, attaching, look, fresh, loop, history>>

-----------------------------------------------------------------------------
(* Submission and attachment.                                              *)

\* mutant: a row whose outcome is unknown is taken for a free key
Unreserved(k) == rec[k].status \in {"absent", "unknown"}

\* reserve() creates a row only for a request key that has none.
Reservable(k) == rec[k].status = "absent"

Reserved(t) == [NoRow EXCEPT !.status = "submitting", !.wake = TRUE, !.run = t]

SubmitReserves(t, k) ==
    /\ LoopYields
    /\ Calling(t)
    /\ Reservable(k)
    /\ Update(k, Reserved(t))
    /\ submission' = [submission EXCEPT ![k] = "preflight"]
    /\ Arm(k)
    /\ UNCHANGED <<remote, turns, access, attaching, look, loop, calls>>

\* Preflight fails; or access went meanwhile, which leaves the row in "submitting".
SubmitRefused(k) ==
    /\ LoopYields
    /\ submission[k] = "preflight"
    /\ \/ Update(k, [rec[k] EXCEPT !.status = "finished"])
       \/ ~access /\ UNCHANGED <<rec, fresh>>
    /\ submission' = [submission EXCEPT ![k] = "idle"]
    /\ UNCHANGED <<remote, turns, access, attaching, look, loop, history>>

SubmitCalls(k) ==
    /\ LoopYields
    /\ submission[k] = "preflight" /\ access
    /\ submission' = [submission EXCEPT ![k] = "calling"]
    /\ calls' = [calls EXCEPT ![k] = @ + 1]
    /\ UNCHANGED <<rec, remote, turns, access, attaching, look, fresh, loop, armed, woken>>

SubmitLands(k, e) ==
    /\ LoopYields
    /\ submission[k] = "calling"
    /\ remote[e] = "absent"
    /\ remote' = [remote EXCEPT ![e] = "active"]
    /\ submission' = [submission EXCEPT ![k] = e]
    /\ UNCHANGED <<rec, turns, access, attaching, look, fresh, loop, history>>

SubmitReturns(k) ==
    /\ LoopYields
    /\ submission[k] \in External
    /\ Update(k, [rec[k] EXCEPT !.ext = submission[k], !.status = "running"])
    /\ submission' = [submission EXCEPT ![k] = "idle"]
    /\ UNCHANGED <<remote, turns, access, attaching, look, loop, history>>

\* An error, a timeout or a cancellation: the remote effect may have happened.
SubmitUncertain(k) ==
    /\ LoopYields
    /\ submission[k] \in {"calling"} \union External
    /\ Update(k, [rec[k] EXCEPT !.status = "unknown"])
    /\ submission' = [submission EXCEPT ![k] = "idle"]
    /\ UNCHANGED <<remote, turns, access, attaching, look, loop, history>>

Attachable(k, e) ==
    /\ \A o \in Job \ {k} : rec[o].ext # e
    /\ rec[k].ext \in {None, e}
    /\ submission[k] = "idle"

\* Everything attach() checks, it checks before it asks the provider.
AttachBegins(t, k, e) ==
    /\ LoopYields
    /\ "attach" \in Env
    /\ Calling(t)
    /\ remote[e] # "absent"
    /\ Attachable(k, e)
    /\ ~\E a \in attaching : a[1] = k /\ a[2] = e
    /\ attaching' = attaching \union {<<k, e, rec[k].ext, remote[e]>>}
    /\ \/ /\ Reservable(k)
          /\ Update(k, Reserved(t))
          /\ Arm(k)
       \/ /\ ~Reservable(k)
          /\ UNCHANGED <<rec, fresh, armed, woken>>
    /\ UNCHANGED <<remote, turns, access, submission, look, loop, calls>>

\* mutant: the provider's own word is stored
ObservedRaw(state) == state

Observed(state) == IF state = "over" THEN "finished" ELSE "running"

AttachRecords(a) ==
    /\ LoopYields
    /\ access
    /\ \E state \in {a[4], remote[a[2]]} :
           Update(a[1], [rec[a[1]] EXCEPT !.ext = a[2], !.status = Observed(state)])
    /\ attaching' = attaching \ {a}
    /\ UNCHANGED <<remote, turns, access, submission, look, loop, history>>

AttachFails(a) ==
    /\ LoopYields
    /\ IF a[3] = None THEN Update(a[1], [rec[a[1]] EXCEPT !.status = "unknown"])
                      ELSE UNCHANGED <<rec, fresh>>
    /\ attaching' = attaching \ {a}
    /\ UNCHANGED <<remote, turns, access, submission, look, loop, history>>

-----------------------------------------------------------------------------
(* Waiting and controls.                                                   *)

\* mutant: the claim of an earlier continuation outlives the new wait
AwaitedClaimed(row, t) == [row EXCEPT !.run = t, !.wake = TRUE]

Awaited(row, t) ==
    IF row.run # t THEN [row EXCEPT !.run = t, !.wake = TRUE, !.note = None]
                   ELSE [row EXCEPT !.wake = TRUE]

\* wait_background_jobs: a turn other than the one already waiting takes the
\* wake-up over.
Wait(t, k) ==
    /\ LoopYields
    /\ Calling(t)
    /\ rec[k].status # "absent" /\ ~rec[k].paused
    /\ Update(k, Awaited(rec[k], t))
    /\ Arm(k)
    /\ UNCHANGED <<remote, turns, access, submission, attaching, look, loop, calls>>

Controllable(k) == "control" \in Env /\ access /\ rec[k].status # "absent"

\* Pause, acknowledge and detach all end what the job owes the session.
Relinquish(k) ==
    /\ LoopYields
    /\ Controllable(k)
    /\ \E row \in {[rec[k] EXCEPT !.paused = TRUE],
                   [rec[k] EXCEPT !.wake = FALSE],
                   [rec[k] EXCEPT !.paused = TRUE, !.wake = FALSE]} : Update(k, row)
    /\ Disarm(k)
    /\ UNCHANGED <<remote, turns, access, submission, attaching, look, loop, calls>>

ResumeByTurn(t, k) ==
    /\ LoopYields
    /\ Controllable(k) /\ Calling(t)
    /\ Update(k, [rec[k] EXCEPT !.paused = FALSE, !.run = t, !.wake = TRUE, !.note = None,
                                !.monitor = FALSE])
    /\ Arm(k)
    /\ UNCHANGED <<remote, turns, access, submission, attaching, look, loop, calls>>

\* Resume from the Jobs board: monitoring goes on, a stopped turn is not revived.
ResumeByBoard(k) ==
    /\ LoopYields
    /\ Controllable(k)
    /\ Update(k, IF StoppedLine(rec[k].run)
                 THEN [rec[k] EXCEPT !.paused = FALSE, !.monitor = TRUE, !.wake = FALSE]
                 ELSE [rec[k] EXCEPT !.paused = FALSE])
    /\ UNCHANGED <<remote, turns, access, submission, attaching, look, loop, history>>

\* Cancellation of the remote work: recorded, requested, then observed.
CancelAsks(k) ==
    /\ LoopYields
    /\ Controllable(k)
    /\ rec[k].ext # None
    /\ look[k]["cancel"] = "idle"
    /\ rec' = [rec EXCEPT ![k].paused = TRUE, ![k].wake = FALSE]
    /\ fresh' = {f \in fresh : f[1] # k} \union {<<k, "cancel">>}
    /\ look' = [look EXCEPT ![k]["cancel"] = remote[rec[k].ext]]
    /\ Disarm(k)
    /\ UNCHANGED <<remote, turns, access, submission, attaching, loop, calls>>

\* Refresh from the Jobs board: a probe beside the loop's own.
RefreshBegins(k) ==
    /\ LoopYields
    /\ Controllable(k)
    /\ rec[k].ext # None
    /\ look[k]["refresh"] = "idle"
    /\ look' = [look EXCEPT ![k]["refresh"] = remote[rec[k].ext]]
    /\ fresh' = fresh \union {<<k, "refresh">>}
    /\ UNCHANGED <<rec, remote, turns, access, submission, attaching, loop, history>>

-----------------------------------------------------------------------------
(* Observation.                                                            *)

ObservationRecorded(k, o) ==
    /\ LoopYields
    /\ look[k][o] # "idle"
    /\ access
    /\ \E state \in {look[k][o], remote[rec[k].ext]} :
           UpdateIfFresh(k, o, [rec[k] EXCEPT !.status = Observed(state)])
    /\ look' = [look EXCEPT ![k][o] = "idle"]
    /\ UNCHANGED <<remote, turns, access, submission, attaching, loop, history>>

\* The provider fails, answers "unknown", or access went meanwhile: a probe
\* counts the failure, a cancellation records the "unknown" or nothing.
ObservationFails(k, o) ==
    /\ LoopYields
    /\ look[k][o] # "idle"
    /\ \/ o # "cancel" /\ UpdateIfFresh(k, o, rec[k])
       \/ o = "cancel" /\ access /\ UpdateIfFresh(k, o, [rec[k] EXCEPT !.status = "unknown"])
       \/ o = "cancel" /\ UNCHANGED <<rec, fresh>>
    /\ look' = [look EXCEPT ![k][o] = "idle"]
    /\ UNCHANGED <<remote, turns, access, submission, attaching, loop, history>>

-----------------------------------------------------------------------------
(* The host's loop.                                                        *)

\* tick() reads every row once, at its start.
TickStarts ==
    /\ todo = {} /\ delivering = None
    /\ \E k \in Job : rec[k].status # "absent" /\ ~rec[k].paused
    /\ todo' = {k \in Job : rec[k].status # "absent"}
    /\ snap' = rec
    /\ fresh' = fresh \union (todo' \X {"tick"})
    /\ UNCHANGED <<rec, remote, turns, access, submission, attaching, look, delivering, history>>

Ticks(k) ==
    /\ k \in todo /\ delivering = None
    /\ todo' = todo \ {k}
    /\ snap' = [snap EXCEPT ![k] = NoRow]

TickSkips(k) ==
    /\ Ticks(k)
    /\ snap[k].paused
    /\ fresh' = fresh \ {<<k, "tick">>}
    /\ UNCHANGED <<rec, remote, turns, access, submission, attaching, look, delivering, history>>

TickPauses(k) ==
    /\ Ticks(k)
    /\ ~snap[k].paused
    /\ \/ /\ ~access
          /\ Update(k, [rec[k] EXCEPT !.paused = TRUE])
          /\ Disarm(k)
       \/ /\ access
          /\ StoppedLine(snap[k].run) /\ ~snap[k].monitor
          /\ Update(k, [rec[k] EXCEPT !.paused = TRUE, !.wake = FALSE])
          /\ UNCHANGED <<armed, woken>>
    /\ UNCHANGED <<remote, turns, access, submission, attaching, look, delivering, calls>>

Monitored(k) ==
    /\ ~snap[k].paused /\ access
    /\ StoppedLine(snap[k].run) => snap[k].monitor

\* next_check_at may or may not have come.
TickProbes(k) ==
    /\ Ticks(k)
    /\ Monitored(k)
    /\ snap[k].status \in ACTIVE
    /\ \/ /\ snap[k].ext # None
          /\ look[k]["probe"] = "idle"
          /\ Cardinality({j \in Job : look[j]["probe"] # "idle"}) < MaxProbes
          /\ look' = [look EXCEPT ![k]["probe"] = remote[snap[k].ext]]
          /\ fresh' = IF <<k, "tick">> \in fresh
                      THEN (fresh \ {<<k, "tick">>}) \union {<<k, "probe">>} ELSE fresh
       \/ /\ UNCHANGED look
          /\ fresh' = fresh \ {<<k, "tick">>}
    /\ UNCHANGED <<rec, remote, turns, access, submission, attaching, delivering, history>>

Deliverable(row) == row.status \notin ACTIVE /\ row.wake /\ row.note = None

TickDelivers(k) ==
    /\ Ticks(k)
    /\ Monitored(k)
    /\ snap[k].status \notin ACTIVE
    /\ delivering' = IF Deliverable(snap[k]) THEN k ELSE None
    /\ fresh' = fresh \ {<<k, "tick">>}
    /\ UNCHANGED <<rec, remote, turns, access, submission, attaching, look, history>>

RootOf(t) == CHOOSE u \in {t} \union line[t] : line[u] = {}
Continuations(t) ==
    {u \in Turn : turn[u] # "absent" /\ line[u] # {} /\ RootOf(u) = RootOf(t)}

\* mutant: the delivery trusts the rows its tick had read
DueTrusting(k) == TRUE

\* What deliver() checks once it has the lock, on the row as it then is.
Due(k) ==
    /\ ~rec[k].paused /\ rec[k].wake /\ rec[k].note = None
    /\ ~StoppedLine(rec[k].run)

\* The waiting turn is over, nothing of the Agent runs, the budget is not spent.
Admissible(k) ==
    /\ Due(k) /\ access /\ ~Busy
    /\ Cardinality(Continuations(rec[k].run)) < MaxContinuations

Claimed(row, u) == [row EXCEPT !.note = u]
Below(t) == {t} \union line[t]

DeliverAdmits(k, u) ==
    /\ delivering = k /\ Admissible(k)
    /\ u \in NextTurn /\ turn[u] = "absent"
    /\ Update(k, [Claimed(rec[k], u) EXCEPT !.wake = FALSE])
    /\ turn' = [turn EXCEPT ![u] = "live"]
    /\ line' = [line EXCEPT ![u] = Below(rec[k].run)]
    /\ delivering' = None
    /\ armed' = armed \ {k}
    /\ woken' = [woken EXCEPT ![k] = @ + 1]
    /\ UNCHANGED <<remote, stopped, access, submission, attaching, look, snap, todo, calls>>

\* The exception leaves the tick: the rows it had yet to handle wait for the next.
TickFails(reads) ==
    /\ todo' = {}
    /\ snap' = [j \in Job |-> NoRow]
    /\ fresh' = {f \in reads : f[2] # "tick"}

\* Not due any more, not possible yet, refused for good, or the tick fails.
DeliverSkips(k) ==
    /\ delivering = k
    /\ delivering' = None
    /\ \/ /\ Due(k) /\ ~access
          /\ TickFails(fresh)
          /\ UNCHANGED <<rec, armed, woken>>
       \/ /\ Due(k) /\ access /\ ~Busy /\ ~Admissible(k)
          /\ Update(k, [rec[k] EXCEPT !.paused = TRUE])
          /\ Disarm(k)
          /\ UNCHANGED <<todo, snap>>
       \/ /\ ~Due(k) \/ (access /\ Busy)
          /\ UNCHANGED <<rec, fresh, armed, woken, todo, snap>>
    /\ UNCHANGED <<remote, turns, access, submission, attaching, look, calls>>

\* start_run raises: before the run exists the claim is released; afterwards it
\* stands, and what the run did is for the user to see.  Both write the row.
DeliverFails(k, u) ==
    /\ "fault" \in Env
    /\ delivering = k /\ Admissible(k)
    /\ u \in NextTurn /\ turn[u] = "absent"
    /\ delivering' = None
    /\ TickFails({f \in fresh : f[1] # k})
    /\ \/ UNCHANGED <<rec, turn, line, armed, woken>>
       \/ /\ rec' = [rec EXCEPT ![k] = Claimed(rec[k], u)]
          /\ turn' = [turn EXCEPT ![u] = "broken"]
          /\ line' = [line EXCEPT ![u] = Below(rec[k].run)]
          /\ armed' = armed \ {k}
          /\ woken' = [woken EXCEPT ![k] = @ + 1]
    /\ UNCHANGED <<remote, stopped, access, submission, attaching, look, calls>>

-----------------------------------------------------------------------------
(* Crash and startup.                                                      *)

\* mutant: startup releases the claim of a continuation that was interrupted
RecoveredReplaying(row, t) ==
    [row EXCEPT !.status = IF @ = "submitting" /\ row.ext = None THEN "unknown" ELSE @,
                !.note = None]

\* startup(): t is what became of the runs.
Recovered(row, t) ==
    [row EXCEPT !.status = IF @ = "submitting" /\ row.ext = None THEN "unknown" ELSE @,
                !.note = IF @ # None /\ t[@] = "absent" THEN None ELSE @,
                !.paused = @ \/ (row.note # None /\ t[row.note] = "broken")]

\* The process is gone and back, with these rows and these runs on disk.
RestartWith(rows, t, above) ==
    LET ended == [u \in Turn |-> IF t[u] = "live" THEN "broken" ELSE t[u]]
    IN /\ rec' = [k \in Job |-> Recovered(rows[k], ended)]
       /\ turn' = ended
       /\ line' = above
       /\ armed' = {k \in armed : ~rec'[k].paused}
       /\ submission' = [k \in Job |-> "idle"]
       /\ attaching' = {}
       /\ look' = [k \in Job |-> [o \in Observer |-> "idle"]]
       /\ fresh' = {}
       /\ snap' = [k \in Job |-> NoRow]
       /\ todo' = {}
       /\ delivering' = None
       /\ UNCHANGED <<remote, stopped, access, calls>>

Restart ==
    /\ "crash" \in Env
    /\ RestartWith(rec, turn, line)
    /\ UNCHANGED woken

\* The process dies inside a delivery: after the claim, or after the admission
\* of the run and before the wake-up is marked as delivered.
DeliverCut(k, u) ==
    /\ "crash" \in Env
    /\ delivering = k /\ Admissible(k)
    /\ u \in NextTurn /\ turn[u] = "absent"
    /\ LET claimed == [rec EXCEPT ![k] = Claimed(rec[k], u)]
       IN \/ /\ RestartWith(claimed, turn, line)
             /\ UNCHANGED woken
          \/ /\ RestartWith(claimed, [turn EXCEPT ![u] = "live"],
                            [line EXCEPT ![u] = Below(rec[k].run)])
             /\ woken' = [woken EXCEPT ![k] = @ + 1]

-----------------------------------------------------------------------------
TurnStep(t) ==
    \/ UserStarts(t) \/ TurnEnds(t) \/ UserStops(t)
    \/ \E k \in Job : SubmitReserves(t, k) \/ Wait(t, k) \/ ResumeByTurn(t, k)
    \/ \E k \in Job, e \in External : AttachBegins(t, k, e)

JobStep(k) ==
    \/ SubmitRefused(k) \/ SubmitCalls(k) \/ SubmitReturns(k)
    \/ SubmitUncertain(k) \/ \E e \in External : SubmitLands(k, e)
    \/ Relinquish(k) \/ ResumeByBoard(k)
    \/ CancelAsks(k) \/ RefreshBegins(k)
    \/ \E o \in Observer : ObservationRecorded(k, o) \/ ObservationFails(k, o)

LoopStep(k) ==
    \/ TickSkips(k) \/ TickPauses(k) \/ TickProbes(k) \/ TickDelivers(k)
    \/ DeliverSkips(k) \/ \E u \in NextTurn : DeliverAdmits(k, u) \/ DeliverFails(k, u) \/ DeliverCut(k, u)

Next ==
    \/ \E t \in Turn : TurnStep(t)
    \/ \E k \in Job : JobStep(k) \/ LoopStep(k)
    \/ \E a \in attaching : AttachRecords(a) \/ AttachFails(a)
    \/ \E e \in External : RemoteEnds(e)
    \/ AccessChanges \/ TickStarts \/ Restart

Spec == Init /\ [][Next]_vars

\* The loop wakes at least every 30 seconds and asyncio.Lock is fair; turns and
\* observations are bounded by their deadlines; a due probe is not put off for
\* ever.  Users, grants and remote work owe nothing.
Fairness ==
    /\ WF_vars(TickStarts)
    /\ \A k \in Job :
          /\ WF_vars(TickSkips(k) \/ TickPauses(k) \/ TickProbes(k) \/ TickDelivers(k))
          /\ SF_vars(TickProbes(k) /\ look'[k]["probe"] # "idle")
          /\ WF_vars(DeliverSkips(k) \/ \E u \in NextTurn : DeliverAdmits(k, u))
          /\ SF_vars(SubmitRefused(k) \/ SubmitCalls(k))
          /\ SF_vars(SubmitReturns(k) \/ SubmitUncertain(k))
          /\ SF_vars(ObservationRecorded(k, "probe"))
    /\ \A t \in Turn : SF_vars(TurnEnds(t))

FairSpec == Spec /\ Fairness

-----------------------------------------------------------------------------
(* Properties.                                                             *)

\* The provider is asked to submit a request key at most once, through
\* uncertainty, retries and restarts.
SubmittedOnce == \A k \in Job : calls[k] <= 1

\* The rows are well formed, and no request key was submitted twice.
RowsSound == TypeOK /\ SubmittedOnce

\* "External work is already tracked": two jobs never track one identity.
ExternalTrackedOnce ==
    \A j, k \in Job : rec[j].ext = rec[k].ext /\ rec[j].ext # None => j = k

\* A late answer to a probe, a refresh or a cancellation never takes a finished
\* job back to an active state; attach() records what it saw without comparing
\* revisions, and is left out.
ObservationsInOrder ==
    [][\A k \in Job :
          rec[k].status = "finished" /\ attaching \subseteq attaching'
              => rec'[k].status \notin ACTIVE]_vars

\* One arming admits at most one continuation, whatever crashes in between.
WokenOnce == \A k \in Job : woken[k] <= 1

\* A wake-up that is owed stays armed: only its delivery, an explicit control,
\* the stop of its turn, lost access or an exhausted budget may end it.
WakeKept ==
    \A k \in armed : rec[k].wake /\ rec[k].note = None /\ ~rec[k].paused

\* No continuation is admitted below a turn that a user has stopped.
NoRevival ==
    [][\A u \in NextTurn : turn[u] = "absent" /\ turn'[u] # "absent"
           => line'[u] \intersect stopped = {}]_vars

\* A wake-up owed for work that has ended does not stay owed.
WakeDelivered ==
    \A k \in Job :
        (k \in armed /\ rec[k].ext # None /\ remote[rec[k].ext] = "over") ~> (k \notin armed)
=============================================================================
