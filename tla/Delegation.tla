----------------------------- MODULE Delegation -----------------------------
(***************************************************************************)
(* A work board whose coordinator delegates its tasks to summoned workers  *)
(* (node_delegation.py, node_execution.py) and is woken by their results   *)
(* (node_continuations.py).  The board's ledger of attempts is durable;    *)
(* the process may die between any two of its transactions, and then finds *)
(* the instance by its dispatch id and the Run by its task.                *)
(*                                                                         *)
(* One board and one coordinator Agent are modelled.  A Run of the         *)
(* coordinator is a turn; a Run of a worker is named by the attempt, that  *)
(* is the position in the ledger, it was dispatched for.                   *)
(***************************************************************************)
EXTENDS Naturals, Sequences, FiniteSets

CONSTANTS
    Request,     \* the request ids the coordinator may use
    Item, ItemOf, \* request -> the task it asks for
    MaxParallel, \* max_parallel of the board's policy
    MaxAttempts, \* bound on the ledger
    MaxContinuations, \* MAX_CONTINUATION_TURNS of one root turn
    MaxTurns, MaxUserTurns, \* bounds on the coordinator's turns
    MaxStops,    \* bound on cancellations and stops
    MaxCrashes,
    MaxReports,  \* bound on the reports of work that waits for a job
    Env          \* "crash", "fail", "remove", "window", "unadmitted": stops of
                 \* instances whose Run was never admitted

ASSUME DelegationConstants ==
    /\ ItemOf \in [Request -> Item]
    /\ {MaxParallel, MaxAttempts, MaxContinuations, MaxTurns, MaxUserTurns, MaxStops,
      MaxCrashes, MaxReports} \subseteq Nat
    /\ Env \subseteq {"crash", "fail", "remove", "window", "unadmitted"}

Attempt == 1..MaxAttempts
Turn == 1..MaxTurns
Live == {"running"}
Terminal == {"succeeded", "failed", "cancelled", "interrupted"}

VARIABLES
    alive,   \* the process runs
    items,   \* task -> its status in the board's document
    board,   \* the ledger: a sequence of attempts
    notes,   \* attempt -> kind -> the notice it may send to the coordinator
    made,    \* attempts whose summoned instance is on record
    work,    \* attempt -> status of the worker's Run
    turns,   \* turn -> the coordinator's Run: status, parent, cancellation, notices
    op,      \* who holds the mutation lock across awaits
    look,    \* a collect of the coordinator between its two transactions
    stop,    \* a stop of the board or of one instance under way
    stops,   \* per cancellation and stop, the attempts whose notices it gave up
    crashes

vars == <<alive, items, board, notes, made, work, turns, op, look, stop, stops, crashes>>

NoTurn == 0
Silent == [open |-> FALSE, due |-> FALSE, turn |-> NoTurn, quiet |-> FALSE, seen |-> FALSE]
NoTurnRow == [status |-> "absent", parent |-> NoTurn, stopped |-> FALSE, told |-> {}]
Idle == [phase |-> "idle", n |-> 0, turn |-> NoTurn, told |-> {}]
NoLook == [turn |-> NoTurn, set |-> {}]
NoStop == [on |-> FALSE, all |-> FALSE, who |-> {}, tell |-> {}]
Kinds == {"done", "check"}

Init ==
    /\ alive = TRUE
    /\ items = [i \in Item |-> "pending"]
    /\ board = <<>>
    /\ notes = [n \in Attempt |-> [k \in Kinds |-> Silent]]
    /\ made = {}
    /\ work = [n \in Attempt |-> "absent"]
    /\ turns = [t \in Turn |-> NoTurnRow]
    /\ op = Idle
    /\ look = NoLook
    /\ stop = NoStop
    /\ stops = <<>> /\ crashes = 0

\* The mutation lock is free.  Only "window" lets another take it between the
\* two transactions of a collect.
Free == alive /\ op = Idle /\ (look = NoLook \/ "window" \in Env)

-----------------------------------------------------------------------------
(* collect_delegations, as a function of the ledger b and the Runs' status. *)

\* mutant: the lost handle is not looked for.
NotRecovered(n, entry, runs) == entry

\* An admission whose process stopped before the board saved its handle: the
\* instance is found by its dispatch id, its Run in the record or by the task.
Recovered(n, entry, runs) ==
    IF entry.link \/ n \notin made THEN entry
    ELSE [entry EXCEPT !.link = TRUE, !.known = (runs[n] # "absent")]

\* The status the ledger takes over: a dispatch without a Run was interrupted.
Outcome(n, entry, runs) == IF entry.known THEN runs[n] ELSE "interrupted"

\* An outcome never replaces that of a newer attempt at the task.
Superseded(b, n) == \E m \in DOMAIN b : m > n /\ b[m].item = b[n].item

\* mutant: the Run's status is written as it is.
WrittenVerbatim(status) == status

\* apply_outcome of the board's plugin: it refuses a task that was removed.
Written(status) ==
    CASE status = "running" -> "running"
      [] status = "succeeded" -> "review"
      [] OTHER -> "blocked"

Settled(b, n, runs) ==
    LET entry == Recovered(n, b[n], runs)
        status == Outcome(n, entry, runs)
    IN  [entry EXCEPT !.status = status,
            !.applied = status \notin Live /\ (Superseded(b, n) \/ items[entry.item] # "removed")]

\* record_report_check: the worker reported that it waits for an external job.
ChecksLater(n, entry) ==
    /\ entry.report = "waiting" /\ entry.known /\ entry.status = "succeeded"
    /\ ~notes[n]["done"].quiet

\* The first `last` entries are reconciled.
CollectedUpTo(last, b, runs) ==
    LET open == {n \in 1..last : ~b[n].applied}
        now == [n \in DOMAIN b |-> IF n \in open THEN Settled(b, n, runs) ELSE b[n]]
        writes == {n \in open : now[n].applied /\ ~Superseded(b, n)}
        checks == {n \in open : ChecksLater(n, now[n])}
    IN  [board |-> now,
         items |-> [i \in Item |->
            IF \E n \in writes : b[n].item = i
            THEN Written(now[CHOOSE n \in writes : b[n].item = i].status) ELSE items[i]],
         notes |-> [n \in Attempt |->
            IF n \in checks THEN [notes[n] EXCEPT !["check"].open = TRUE] ELSE notes[n]]]

Collected(b, runs) == CollectedUpTo(Len(b), b, runs)

Save(c) ==
    \E saved \in {c} : board' = saved.board /\ items' = saved.items /\ notes' = saved.notes

-----------------------------------------------------------------------------
(* delegate: what it saves, in order, while it holds the mutation lock.    *)

Running(t) == turns[t].status = "running"
Active == {n \in DOMAIN board : board[n].known /\ work[n] \in Live}

\* mutant: a request id is remembered only until its outcome is collected.
RequestedOpen(q) == \E n \in DOMAIN board : board[n].req = q /\ ~board[n].applied

\* mutant: an attempt blocks the next one only when it is both.
CollectedLive(i) ==
    \E n \in DOMAIN board :
        board[n].item = i /\ board[n].applied /\ board[n].status \in Live

Requested(q) == \E n \in DOMAIN board : board[n].req = q
Uncollected(i) ==
    \E n \in DOMAIN board :
        board[n].item = i /\ (~board[n].applied \/ board[n].status \in Live)

\* mutant: a stop closes no admission.
NeverStopping == FALSE

Stopping == stop.on /\ stop.all

Admissible(q) ==
    /\ ~Stopping
    /\ ~Requested(q) /\ ~Uncollected(ItemOf[q])
    /\ items[ItemOf[q]] \in {"pending", "blocked"}
    /\ Cardinality(Active) < MaxParallel

NewEntry(q, t) ==
    [req |-> q, item |-> ItemOf[q], coord |-> t, link |-> FALSE, known |-> FALSE,
     status |-> "running", applied |-> FALSE, report |-> "none"]

\* The attempt is on the ledger before anything is created for it.
DelegateReserves(q, t) ==
    /\ Free /\ Running(t) /\ Admissible(q)
    /\ Len(board) < MaxAttempts
    /\ LET n == Len(board) + 1
       IN  /\ board' = Append(board, NewEntry(q, t))
           /\ notes' = [notes EXCEPT ![n]["done"] = [Silent EXCEPT !.open = TRUE, !.due = TRUE]]
           /\ op' = [phase |-> "reserved", n |-> n, turn |-> t, told |-> {}]
    /\ UNCHANGED <<alive, items, made, work, turns, look, stop, stops, crashes>>

DelegateMarks ==
    /\ alive /\ op.phase = "reserved"
    /\ items' = [items EXCEPT ![board[op.n].item] = "running"]
    /\ op' = [op EXCEPT !.phase = "marked"]
    /\ UNCHANGED <<alive, board, notes, made, work, turns, look, stop, stops, crashes>>

\* Summoning instantiates the worker and saves the record with the dispatch id.
InstanceMade ==
    /\ alive /\ op.phase = "marked"
    /\ made' = made \union {op.n}
    /\ op' = [op EXCEPT !.phase = "made"]
    /\ UNCHANGED <<alive, items, board, notes, work, turns, look, stop, stops, crashes>>

\* start_run admits the worker's Run below the turn.
WorkerStarts ==
    /\ alive /\ op.phase = "made" /\ Running(op.turn)
    /\ work' = [work EXCEPT ![op.n] = "running"]
    /\ op' = [op EXCEPT !.phase = "started"]
    /\ UNCHANGED <<alive, items, board, notes, made, turns, look, stop, stops, crashes>>

\* The handle is saved, and the ledger collected on the way out.
HandleSaved ==
    /\ alive /\ op.phase = "started"
    /\ LET linked == [board EXCEPT ![op.n].link = TRUE, ![op.n].known = TRUE,
                                   ![op.n].status = work[op.n]]
       IN  Save(Collected(linked, work))
    /\ op' = Idle
    /\ UNCHANGED <<alive, made, work, turns, look, stop, stops, crashes>>

\* admission_error: start_run refuses, and the handle without a Run is saved.
WorkerRefused ==
    /\ alive /\ op.phase = "made"
    /\ Running(op.turn) => "fail" \in Env
    /\ LET linked == [board EXCEPT ![op.n].link = TRUE, ![op.n].status = "failed"]
       IN  Save(Collected(linked, work))
    /\ op' = Idle
    /\ UNCHANGED <<alive, made, work, turns, look, stop, stops, crashes>>

\* The call fails at its instantiation, or is cancelled with its turn.
DelegateAborts ==
    /\ alive /\ op.phase \in {"marked", "made", "started"}
    /\ Running(op.turn) => op.phase = "marked"
    /\ Save(Collected(board, work))
    /\ op' = Idle
    /\ UNCHANGED <<alive, made, work, turns, look, stop, stops, crashes>>

-----------------------------------------------------------------------------
(* Workers, and the coordinator's other calls.                             *)

WorkerEnds(n) ==
    /\ alive /\ work[n] = "running"
    /\ \E s \in {"succeeded", "failed"} : work' = [work EXCEPT ![n] = s]
    /\ UNCHANGED <<alive, items, board, notes, made, turns, op, look, stop, stops, crashes>>

\* report_delegated_task: only the assigned, live worker reports.
WorkerReports(n) ==
    /\ Free /\ n \in DOMAIN board
    /\ work[n] = "running" /\ board[n].known /\ board[n].report = "none"
    /\ Cardinality({m \in DOMAIN board : board[m].report # "none"}) < MaxReports
    /\ board' = [board EXCEPT ![n].report = "waiting"]
    /\ UNCHANGED <<alive, items, notes, made, work, turns, op, look, stop, stops, crashes>>

\* A poll of the interface, and a repeated request, collect and observe nothing.
Poll ==
    /\ Free
    /\ Save(Collected(board, work))
    /\ UNCHANGED <<alive, made, work, turns, op, look, stop, stops, crashes>>

Applied(b) == {n \in DOMAIN b : b[n].applied}

Unseen(c) == {n \in Applied(c.board) : ~c.notes[n]["done"].seen}

\* collect or wait of a turn: the result it will return.  One that returns
\* nothing new does what Poll does, unless others come between.
CollectReads(t) ==
    /\ Free /\ look = NoLook /\ Running(t)
    /\ \E c \in {Collected(board, work)} :
        /\ Unseen(c) # {} \/ "window" \in Env
        /\ Save(c) /\ look' = [turn |-> t, set |-> Unseen(c)]
    /\ UNCHANGED <<alive, made, work, turns, op, stop, stops, crashes>>

\* In a second transaction, what the ledger holds by then counts as observed.
CollectMarks ==
    /\ alive /\ op = Idle /\ look # NoLook
    /\ notes' = [n \in Attempt |->
                    IF n \in Applied(board) THEN [notes[n] EXCEPT !["done"].seen = TRUE]
                    ELSE notes[n]]
    /\ look' = NoLook
    /\ UNCHANGED <<alive, items, board, made, work, turns, op, stop, stops, crashes>>

\* The turn that was to collect ended first.
CollectDropped ==
    /\ alive /\ look # NoLook /\ ~Running(look.turn)
    /\ look' = NoLook
    /\ UNCHANGED <<alive, items, board, notes, made, work, turns, op, stop, stops, crashes>>

\* update_task and remove_task: a running task is not accepted, but may be
\* returned or removed while its worker goes on.
Edit(i) ==
    /\ Free /\ items[i] # "removed"
    /\ \/ items[i] # "running" /\ items' = [items EXCEPT ![i] = "done"]
       \/ items' = [items EXCEPT ![i] = "pending"]
       \/ "remove" \in Env /\ items' = [items EXCEPT ![i] = "removed"]
    /\ UNCHANGED <<alive, board, notes, made, work, turns, op, look, stop, stops, crashes>>

-----------------------------------------------------------------------------
(* The coordinator's turns and their cancellation.                         *)

Busy == \E t \in Turn : Running(t)

Roots == {t \in Turn : turns[t].status # "absent" /\ turns[t].parent = NoTurn}

\* The Run id used next: the first that no Run has and no notice of ns names.
Named(ns) == {ns[n][k].turn : n \in Attempt, k \in Kinds}
Unused(ns) == {t \in Turn : turns[t].status = "absent" /\ t \notin Named(ns)}
NextId(ns, t) == t \in Unused(ns) /\ \A s \in Unused(ns) : t <= s

UserStarts ==
    /\ alive /\ ~Busy /\ Cardinality(Roots) < MaxUserTurns
    /\ \E t \in Turn :
        /\ NextId(notes, t)
        /\ turns' = [turns EXCEPT ![t].status = "running"]
    /\ UNCHANGED <<alive, items, board, notes, made, work, op, look, stop, stops, crashes>>

\* A turn ends when none of its calls is under way.
TurnEnds(t) ==
    /\ alive /\ Running(t) /\ op.turn # t /\ look.turn # t
    /\ \E s \in {"succeeded", "failed"} :
        /\ s = "failed" => "fail" \in Env
        /\ turns' = [turns EXCEPT ![t].status = s]
    /\ UNCHANGED <<alive, items, board, notes, made, work, op, look, stop, stops, crashes>>

\* A turn with the turns above it.
Line(t) ==
    LET line[s \in 0..MaxTurns] == IF s = 0 THEN {} ELSE {s} \union line[turns[s].parent]
    IN  line[t]

Below(t) == {t} \union {s \in Turn : t \in Line(s)}

Cancelled(T) ==
    [s \in Turn |-> IF s \in T /\ Running(s)
                    THEN [turns[s] EXCEPT !.status = "cancelled", !.stopped = TRUE]
                    ELSE turns[s]]

\* The workers of the turns T, and those of the attempts N, are cancelled.
Ended(T, N) ==
    [n \in Attempt |->
        IF work[n] \in Live /\ (n \in N \/ (n \in DOMAIN board /\ board[n].coord \in T))
        THEN "cancelled" ELSE work[n]]

\* cancel_run by the user: also of a finished turn, and of everything below it.
UserCancels(t) ==
    /\ alive /\ turns[t].status # "absent" /\ ~turns[t].stopped /\ Len(stops) < MaxStops
    /\ stops' = Append(stops, {})
    /\ turns' = [Cancelled(Below(t)) EXCEPT ![t].stopped = TRUE]
    /\ work' = Ended(Below(t), {})
    /\ UNCHANGED <<alive, items, board, notes, made, op, look, stop, crashes>>

-----------------------------------------------------------------------------
(* The continuation of the board: one pass of the loop under the lock.     *)

Stopped(t) ==
    \E s \in Line(t) :
        turns[s].stopped \/ turns[s].status \in {"cancelled", "failed", "interrupted"}

Reported(entry) == entry.applied /\ entry.status \in Terminal

\* mutant: every claim is taken back.
TakesBack(c, n, k) ==
    LET note == c.notes[n][k]
        freed == [note EXCEPT !.turn = NoTurn]
    IN  IF ~note.open \/ note.quiet \/ note.seen THEN note
        ELSE IF Stopped(c.board[n].coord) THEN [freed EXCEPT !.quiet = TRUE]
        ELSE freed

\* mutant: a claim counts as delivered whether its Run exists or not.
KeepsClaim(c, n, k) ==
    LET note == c.notes[n][k]
    IN  IF ~note.open \/ note.quiet \/ note.seen \/ note.turn # NoTurn THEN note
        ELSE IF Stopped(c.board[n].coord) THEN [note EXCEPT !.quiet = TRUE]
        ELSE note

\* What the pass does to a notice before it groups the rest: a claim whose Run
\* was never admitted is taken back, and what nobody needs is suppressed.
TidyNote(c, n, k) ==
    LET note == c.notes[n][k]
        freed == [note EXCEPT !.turn = NoTurn]
    IN  IF ~note.open \/ note.quiet \/ note.seen THEN note
        ELSE IF note.turn # NoTurn /\ turns[note.turn].status # "absent" THEN note
        ELSE IF Stopped(c.board[n].coord) THEN [freed EXCEPT !.quiet = TRUE]
        ELSE IF k = "check" /\ (c.items[c.board[n].item] \in {"done", "removed"} \/ Superseded(c.board, n))
        THEN [freed EXCEPT !.quiet = TRUE]
        ELSE freed

Tidied(c) ==
    [c EXCEPT !.notes = [n \in Attempt |->
        IF n \in DOMAIN c.board THEN [k \in Kinds |-> TidyNote(c, n, k)] ELSE @[n]]]

\* The notices a continuation of turn p would carry.
Ready(c, p) ==
    {x \in (DOMAIN c.board) \X Kinds :
        LET entry == c.board[x[1]]
            note == c.notes[x[1]][x[2]]
        IN  /\ entry.coord = p /\ turns[p].status = "succeeded"
            /\ note.open /\ note.due /\ ~note.quiet /\ ~note.seen /\ note.turn = NoTurn
            /\ x[2] = "done" => Reported(entry)}

Claimed(ns, told, t) ==
    [n \in Attempt |-> [k \in Kinds |->
        IF <<n, k>> \in told THEN [ns[n][k] EXCEPT !.turn = t] ELSE ns[n][k]]]

Suppressed(ns, told) ==
    [n \in Attempt |-> [k \in Kinds |->
        IF <<n, k>> \in told THEN [ns[n][k] EXCEPT !.quiet = TRUE] ELSE ns[n][k]]]

Root(t) == CHOOSE s \in Line(t) : turns[s].parent = NoTurn

Exhausted(p) ==
    Cardinality({t \in Turn : turns[t].parent # NoTurn /\ Root(p) \in Line(t)}) >= MaxContinuations

\* Reserve: the notices name the Run before it is admitted.
PassClaims(c, p) ==
    /\ ~Busy /\ ~Exhausted(p)
    /\ \E told \in {Ready(c, p)}, t \in Turn :
        /\ told # {} /\ NextId(c.notes, t)
        /\ Save([c EXCEPT !.notes = Claimed(@, told, t)])
        /\ op' = [phase |-> "claimed", n |-> p, turn |-> t, told |-> told]

\* The limit on automatic turns: the notices are given up, with an error.
PassGivesUp(c, p) ==
    /\ ~Busy /\ Exhausted(p)
    /\ \E told \in {Ready(c, p)} :
        /\ told # {}
        /\ Save([c EXCEPT !.notes = Suppressed(@, told)])
    /\ UNCHANGED op

\* Nobody is to be woken.
PassTidies(c) ==
    /\ Busy \/ \A p \in Turn : Ready(c, p) = {}
    /\ Save(c)
    /\ UNCHANGED op

\* One pass over the board, c being what it collects and tidies first.
Pass ==
    /\ Free
    /\ UNCHANGED <<alive, made, work, turns, look, stop, stops, crashes>>
    /\ \E c \in {Tidied(Collected(board, work))} :
        \/ PassTidies(c)
        \/ \E p \in Turn : turns[p].status = "succeeded" /\ (PassClaims(c, p) \/ PassGivesUp(c, p))

ContinuationStarts ==
    /\ alive /\ op.phase = "claimed" /\ ~Stopped(op.n)
    /\ turns' = [turns EXCEPT ![op.turn] =
            [status |-> "running", parent |-> op.n, stopped |-> FALSE, told |-> op.told]]
    /\ op' = Idle
    /\ UNCHANGED <<alive, items, board, notes, made, work, look, stop, stops, crashes>>

\* start_run refuses; the claim is released.
ContinuationRefused ==
    /\ alive /\ op.phase = "claimed"
    /\ Stopped(op.n) \/ "fail" \in Env
    /\ notes' = Claimed(notes, op.told, NoTurn)
    /\ op' = Idle
    /\ UNCHANGED <<alive, items, board, made, work, turns, look, stop, stops, crashes>>

\* The time of a scheduled check comes; of one that is suppressed nobody asks.
Ripen(n) ==
    /\ notes[n]["check"].open /\ ~notes[n]["check"].due /\ ~notes[n]["check"].quiet
    /\ notes' = [notes EXCEPT ![n]["check"].due = TRUE]
    /\ UNCHANGED <<alive, items, board, made, work, turns, op, look, stop, stops, crashes>>

-----------------------------------------------------------------------------
(* Stopping the board, or one instance; crash and restart.                 *)

OpenOf(N) == {x \in N \X Kinds : notes[x[1]][x[2]].open}

StopBegins ==
    /\ Free /\ ~stop.on /\ Len(stops) < MaxStops /\ board # <<>>
    /\ notes' = Suppressed(notes, OpenOf(DOMAIN board))
    /\ stop' = [on |-> TRUE, all |-> TRUE, who |-> {n \in DOMAIN board : board[n].known},
                tell |-> {notes[n][k].turn : n \in DOMAIN board, k \in Kinds} \ {NoTurn}]
    /\ stops' = Append(stops, DOMAIN board)
    /\ UNCHANGED <<alive, items, board, made, work, turns, op, look, crashes>>

\* The notices of an instance's outcome and of its scheduled check are found by
\* the Run id, and the other attempts have none to compare: without a Run, a
\* stop silences the outcomes of all of them.
Silenced(n) == OpenOf({n}) \union {x \in (DOMAIN board) \X {"done"} : ~board[n].known}

InstanceStopBegins(n) ==
    /\ Free /\ ~stop.on /\ Len(stops) < MaxStops /\ n \in DOMAIN board /\ board[n].link
    /\ board[n].known \/ "unadmitted" \in Env
    /\ notes' = Suppressed(notes, Silenced(n))
    /\ stop' = [NoStop EXCEPT !.on = TRUE, !.who = {n} \ {m \in Attempt : work[m] = "absent"}]
    /\ stops' = Append(stops, {n})
    /\ UNCHANGED <<alive, items, board, made, work, turns, op, look, crashes>>

\* The workers are cancelled one after the other, then the continuations.
StopCancels(n) ==
    /\ alive /\ n \in stop.who
    /\ work' = Ended({}, {n})
    /\ stop' = [stop EXCEPT !.who = @ \ {n}]
    /\ UNCHANGED <<alive, items, board, notes, made, turns, op, look, stops, crashes>>

StopCancelsTurn(t) ==
    /\ alive /\ stop.who = {} /\ t \in stop.tell /\ turns[t].status # "absent"
    /\ turns' = [Cancelled(Below(t)) EXCEPT ![t].stopped = TRUE]
    /\ work' = Ended(Below(t), {})
    /\ stop' = [stop EXCEPT !.tell = @ \ {t}]
    /\ UNCHANGED <<alive, items, board, notes, made, op, look, stops, crashes>>

StopEnds ==
    /\ Free /\ stop.on /\ stop.who = {} /\ stop.tell = {}
    /\ Save(Collected(board, work))
    /\ stop' = NoStop
    /\ UNCHANGED <<alive, made, work, turns, op, look, stops, crashes>>

\* A notice names a Run that was never admitted, which cancel_run does not find,
\* or a worker's provider does not settle: the stop ends with an error.
StopFails ==
    /\ alive /\ stop.on
    /\ IF stop.who = {} THEN \E t \in stop.tell : turns[t].status = "absent" ELSE "fail" \in Env
    /\ stop' = NoStop
    /\ UNCHANGED <<alive, items, board, notes, made, work, turns, op, look, stops, crashes>>

\* The process dies, possibly between the outcomes a collect writes to the
\* document and its save of the ledger.
Crash ==
    /\ "crash" \in Env /\ alive /\ crashes < MaxCrashes
    /\ \E last \in 0..Len(board) :
        /\ op # Idle => last = 0
        /\ items' = CollectedUpTo(last, board, work).items
    /\ alive' = FALSE /\ crashes' = crashes + 1
    /\ op' = Idle /\ look' = NoLook /\ stop' = NoStop
    /\ UNCHANGED <<board, notes, made, work, turns, stops>>

\* Startup: live Runs are interrupted, and every board is collected.
Restart ==
    /\ ~alive
    /\ work' = [n \in Attempt |-> IF work[n] \in Live THEN "interrupted" ELSE work[n]]
    /\ turns' = [t \in Turn |-> IF Running(t) THEN [turns[t] EXCEPT !.status = "interrupted"] ELSE turns[t]]
    /\ Save(Collected(board, work'))
    /\ alive' = TRUE
    /\ UNCHANGED <<made, op, look, stop, stops, crashes>>

\* The holder of the lock goes on.
Holder ==
    \/ DelegateMarks \/ InstanceMade \/ WorkerStarts \/ HandleSaved \/ WorkerRefused \/ DelegateAborts
    \/ ContinuationStarts \/ ContinuationRefused

StopGoesOn ==
    \/ StopEnds \/ StopFails
    \/ \E n \in Attempt : StopCancels(n)
    \/ \E t \in Turn : StopCancelsTurn(t)

\* What happens by itself: Runs end, timers fire, the event loop goes on, and a
\* process that died is started again.
Progress ==
    \/ \E n \in Attempt : WorkerEnds(n) \/ Ripen(n)
    \/ \E t \in Turn : TurnEnds(t)
    \/ Restart \/ CollectMarks \/ CollectDropped \/ StopGoesOn \/ Holder \/ Pass

Next ==
    \/ \E q \in Request, t \in Turn : DelegateReserves(q, t)
    \/ Progress \/ Poll \/ UserStarts \/ StopBegins \/ Crash
    \/ \E n \in Attempt : WorkerReports(n) \/ InstanceStopBegins(n)
    \/ \E i \in Item : Edit(i)
    \/ \E t \in Turn : CollectReads(t) \/ UserCancels(t)

Spec == Init /\ [][Next]_vars

\* Something that can happen by itself does: all that the scheduling of one
\* event loop, and Runs that end, justify.
FairSpec == Spec /\ WF_vars(Progress)

-----------------------------------------------------------------------------
(* Properties.                                                             *)

Note == [open : BOOLEAN, due : BOOLEAN, turn : 0..MaxTurns, quiet : BOOLEAN, seen : BOOLEAN]

\* Types of the ledger, the notices, the Runs and the calls under way.
TypeOK ==
    /\ alive \in BOOLEAN
    /\ items \in [Item -> {"pending", "running", "review", "blocked", "done", "removed"}]
    /\ \A n \in DOMAIN board :
        board[n] \in [req : Request, item : Item, coord : Turn, link : BOOLEAN, known : BOOLEAN,
                      status : Live \union Terminal, applied : BOOLEAN, report : {"none", "waiting"}]
    /\ notes \in [Attempt -> [Kinds -> Note]]
    /\ made \subseteq Attempt
    /\ work \in [Attempt -> {"absent"} \union Live \union Terminal]
    /\ turns \in [Turn -> [status : {"absent"} \union Live \union Terminal, parent : 0..MaxTurns,
                          stopped : BOOLEAN, told : SUBSET (Attempt \X Kinds)]]
    /\ op.phase \in {"idle", "reserved", "marked", "made", "started", "claimed"}
    /\ look \in [turn : 0..MaxTurns, set : SUBSET Attempt]
    /\ stop \in [on : BOOLEAN, all : BOOLEAN, who : SUBSET Attempt, tell : SUBSET Turn]

\* A request id starts at most one worker, whatever is retried and wherever the
\* process dies between the reservation, the instance, its Run and the handle.
OneRunPerRequest ==
    \A m, n \in DOMAIN board :
        m # n /\ board[m].req = board[n].req => "absent" \in {work[m], work[n]}

\* No two workers are at one task, and no more than the policy allows are at
\* the board, though the handle of a worker may not be on the ledger yet.
OneWorkerPerTask ==
    /\ \A m, n \in DOMAIN board :
        m # n /\ board[m].item = board[n].item => ~({work[m], work[n]} \subseteq Live)
    /\ Cardinality({n \in Attempt : work[n] \in Live}) <= MaxParallel

\* The ledger is well formed, and neither a request nor a task has two workers.
RowsSound == TypeOK /\ OneRunPerRequest /\ OneWorkerPerTask

\* What the ledger settled is what the worker's Run ended with; "interrupted"
\* without a Run is written only when there was none.
SettledTruthfully ==
    \A n \in DOMAIN board :
        board[n].applied =>
            board[n].status = (IF work[n] = "absent" THEN "interrupted" ELSE work[n])

\* A notice wakes the coordinator in at most one turn: a claim survives the
\* crash, and is taken back only when its turn was never admitted.
ToldOnce ==
    \A s, t \in Turn : s # t => turns[s].told \intersect turns[t].told = {}

\* When a stop of the board returns, no worker and no turn it woke is running.
StopMeansStopped ==
    [][StopEnds /\ stop.all =>
        /\ \A n \in Attempt : work'[n] \notin Live
        /\ \A t \in Turn : turns'[t].told # {} => turns'[t].status # "running"]_vars

\* A turn counts as having observed the outcome of a task that an earlier turn
\* delegated only if its collect returned it; any other still wakes the coordinator.
\* (What a turn delegates itself, delegate may also return.)
ObservedWasReturned ==
    [][\A n \in DOMAIN board :
            board[n].coord # look.turn /\ ~notes[n]["done"].seen /\ notes'[n]["done"].seen
                => n \in look.set]_vars

\* The user or the coordinator stopped this attempt or the turn it was
\* delegated in, that turn ended badly, or the limit on automatic turns is reached.
GivenUp(n) ==
    \/ \E i \in DOMAIN stops : n \in stops[i]
    \/ Stopped(board[n].coord) \/ Exhausted(board[n].coord)

\* "Unobserved completed tasks wake the coordinator after its turn ends"
\* (node_delegation.py:232): the outcome of every worker is collected by the
\* coordinator or wakes it, unless that very work was given up.  A notice that is
\* suppressed for any other reason is lost.  Again and again nothing is left to
\* hand over.
OutcomesReachCoordinator ==
    []<>(\A n \in Attempt :
            work[n] \in Terminal =>
                \/ \E t \in Turn : <<n, "done">> \in turns[t].told
                \/ notes[n]["done"].seen \/ GivenUp(n))
=============================================================================
