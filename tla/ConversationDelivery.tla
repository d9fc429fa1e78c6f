------------------------ MODULE ConversationDelivery ------------------------
(***************************************************************************)
(* How the messages that users address to one Agent reach its Runs:        *)
(* conversation_deliveries, the ledger of deliveries.py, and the code of   *)
(* services.py that bridges it into the run manager.  A message is queued  *)
(* when it is posted; a drain starts one Run on the oldest session's burst,*)
(* or a live Run of the session takes the message in at a model boundary;  *)
(* the end of the Run settles what it claimed and drains again.            *)
(*                                                                         *)
(* The run manager is reduced to what admission and the ledger see of it.  *)
(* Starting a Run does not yield between the drain's checks and the        *)
(* admission, unless a message of the burst is a user's "Continue", whose  *)
(* recovery facts are awaited in between.                                  *)
(***************************************************************************)
EXTENDS FiniteSets, Naturals, Sequences

CONSTANTS
    Message,
    Session,
    SessionOf,          \* message -> the session it is posted in
    Continue,           \* the messages that ask to continue an ended Run
    ConvRun,            \* the Runs that drains start
    OtherRun,           \* the Runs that anything else starts
    None,
    MaxConcurrentRuns,
    MaxCrashes,
    Env                 \* what else happens, see EnvKinds

EnvKinds == {"direct",        \* Runs of the Agent outside any conversation
             "handoff",       \* turns another Agent requests in a session
             "continuation",  \* turns admitted for ended background work
             "cancel",        \* users stop Runs
             "stuck",         \* the cleanup of a stopped Run may fail
             "pause",         \* the Agent's team is paused and resumed
             "revoke"}        \* the Agent is disconnected and reconnected

Run == ConvRun \cup OtherRun
Kinds == {"conversation", "direct", "handoff", "continuation"}

ASSUME DeliveryConstants ==
    /\ SessionOf \in [Message -> Session]
    /\ Continue \subseteq Message
    /\ ConvRun \cap OtherRun = {}
    /\ None \notin Run \cup Session \cup Kinds
    /\ IsFiniteSet(Message) /\ IsFiniteSet(Run)
    /\ MaxConcurrentRuns \in Nat \ {0} /\ MaxCrashes \in Nat
    /\ Env \subseteq EnvKinds

VARIABLES
    delivery,   \* message -> its row of the ledger: status and claiming Run
    posted,     \* the messages in the order of their rows
    run,        \* Run -> what the store and the manager know of it
    seen,       \* Run -> the messages its model has been given
    taken,      \* Run -> the messages it has claimed, its delivery_message_ids
    peeked,     \* Run -> the messages read at a model boundary, not yet claimed
    persist,    \* Run -> progress of the task that persists its outcome
    outcome,    \* Run -> number of final entries in the transcript
    drains,     \* drain calls that wait for the Agent's delivery lock
    recovering, \* the drain that holds the lock and awaits recovery facts
    waiter,     \* the task in _conversation_delivery_waiters
    host        \* the process, the team's pause, the Agent's connection

ledger == <<delivery, posted>>
draining == <<drains, recovering, waiter>>
input == <<seen, taken, peeked>>
ending == <<persist, outcome>>
vars == <<ledger, run, input, ending, draining, host>>

Terminal == {"succeeded", "failed", "cancelled", "interrupted"}
NoRun == [status |-> "absent", executing |-> FALSE, cleanup |-> "none",
          kind |-> None, session |-> None]
NoWaiter == [kind |-> "none", runs |-> {}, joining |-> None]
NoBurst == [run |-> None, burst |-> {}]
Queued == [status |-> "queued", run |-> None]

TypeOK ==
    /\ delivery \in [Message -> [status : {"unsent", "queued"}, run : {None}]
                                \cup [status : {"claimed", "done"}, run : Run]]
    /\ posted \in UNION {[1..n -> Message] : n \in 0..Cardinality(Message)}
    /\ run \in [Run -> [status : Terminal \cup {"absent", "running"},
                        executing : BOOLEAN,
                        cleanup : {"none", "pending", "failed", "complete"},
                        kind : Kinds \cup {None}, session : Session \cup {None}]]
    /\ seen \in [Run -> SUBSET Message]
    /\ taken \in [Run -> SUBSET Message]
    /\ peeked \in [Run -> SUBSET Message]
    /\ persist \in [Run -> {"none", "waiting", "posted"}]
    /\ outcome \in [Run -> 0..2]
    /\ drains \in 0..(Cardinality(Message) + Cardinality(Run) + 1)
    /\ recovering \in [run : Run \cup {None}, burst : SUBSET Message]
    /\ waiter \in [kind : {"none", "capacity", "cleanup"}, runs : SUBSET Run,
                   joining : Run \cup {None}]
    /\ host \in [up : {"up", "down", "interrupted", "reported"}, crashes : 0..MaxCrashes,
                 paused : BOOLEAN, connected : BOOLEAN]

Init ==
    /\ delivery = [m \in Message |-> [status |-> "unsent", run |-> None]]
    /\ posted = <<>>
    /\ run = [r \in Run |-> NoRun]
    /\ seen = [r \in Run |-> {}]
    /\ taken = [r \in Run |-> {}]
    /\ peeked = [r \in Run |-> {}]
    /\ persist = [r \in Run |-> "none"]
    /\ outcome = [r \in Run |-> 0]
    /\ drains = 0
    /\ recovering = NoBurst
    /\ waiter = NoWaiter
    /\ host = [up |-> "up", crashes |-> 0, paused |-> FALSE, connected |-> TRUE]

Up == host.up = "up"
QueuedIn(s) == {m \in Message : delivery[m].status = "queued" /\ SessionOf[m] = s}
AnyQueued == \E m \in Message : delivery[m].status = "queued"
ClaimedBy(r) == {m \in Message : delivery[m] = [status |-> "claimed", run |-> r]}

Live(r) == run[r].status = "running"
Ended(r) == run[r].status \in Terminal
Settled(r) == Ended(r) /\ ~run[r].executing
Active == {r \in Run : Live(r) \/ run[r].executing}
Indebted == {r \in Run : run[r].cleanup \in {"pending", "failed"}}

-----------------------------------------------------------------------------
(* The ledger.                                                             *)

Claim(burst, r) ==
    delivery' = [m \in Message |->
                    IF m \in burst /\ delivery[m].status = "queued"
                    THEN [status |-> "claimed", run |-> r] ELSE delivery[m]]

\* mutant: the row goes back into the queue under the name of the Run
NamedRequeued(r) ==
    [m \in Message |-> IF m \in ClaimedBy(r) THEN [delivery[m] EXCEPT !.status = "queued"]
                                            ELSE delivery[m]]

\* requeue_run
Requeued(r) == [m \in Message |-> IF m \in ClaimedBy(r) THEN Queued ELSE delivery[m]]

\* mark_run_done
Done(r) == [m \in Message |-> IF m \in ClaimedBy(r)
                              THEN [delivery[m] EXCEPT !.status = "done"] ELSE delivery[m]]

\* mutant: a claim is consumed whatever became of its Run
AllConsumed(m) ==
    IF delivery[m].status = "claimed" THEN [delivery[m] EXCEPT !.status = "done"]
                                      ELSE delivery[m]

\* mutant: a claim whose Run was never created is left alone
RunsOnly(m) ==
    IF delivery[m].status # "claimed" \/ run[delivery[m].run] = NoRun THEN delivery[m]
    ELSE IF run[delivery[m].run].status = "interrupted" THEN Queued
    ELSE [delivery[m] EXCEPT !.status = "done"]

\* recover_after_restart, once incomplete Runs are interrupted: a claim
\* without a Run or of an interrupted one goes back, another one is consumed.
Recovered(m) ==
    IF delivery[m].status # "claimed" THEN delivery[m]
    ELSE IF run[delivery[m].run].status \in {"absent", "interrupted"} THEN Queued
    ELSE [delivery[m] EXCEPT !.status = "done"]

-----------------------------------------------------------------------------
(* Admission by the run manager.                                           *)

\* _check_concurrency: no cleanup debt, no paused team, a free slot.
CanStart ==
    /\ Indebted = {} /\ ~host.paused
    /\ Cardinality(Active) < MaxConcurrentRuns

Admitted(r, kind, s) ==
    run' = [run EXCEPT ![r] = [NoRun EXCEPT !.status = "running", !.executing = TRUE,
                                            !.kind = kind, !.session = s]]

-----------------------------------------------------------------------------
(* Posting and draining.                                                   *)

\* A Continue names a failed or interrupted Run of the session.
Continuable(s) ==
    \E r \in Run : /\ run[r].kind = "conversation" /\ run[r].session = s
                   /\ run[r].status \in {"failed", "interrupted"}

\* post_conversation_message: the row is durable before any admission, then a
\* drain is created for it.
Post(m) ==
    /\ Up /\ host.connected
    /\ delivery[m].status = "unsent"
    /\ m \in Continue => Continuable(SessionOf[m])
    /\ delivery' = [delivery EXCEPT ![m] = Queued]
    /\ posted' = Append(posted, m)
    /\ drains' = drains + 1
    /\ UNCHANGED <<run, input, ending, recovering, waiter, host>>

\* mutant: the newest message is started on first
NewestFirst(burst) ==
    \E i \in DOMAIN posted :
        /\ delivery[posted[i]].status = "queued"
        /\ \A j \in (i + 1)..Len(posted) : delivery[posted[j]].status # "queued"
        /\ burst = {posted[i]}

\* next_batch: the burst of the session whose queued message has the oldest row.
NextBurst(burst) ==
    \E i \in DOMAIN posted :
        /\ delivery[posted[i]].status = "queued"
        /\ \A j \in 1..(i - 1) : delivery[posted[j]].status # "queued"
        /\ burst = QueuedIn(SessionOf[posted[i]])

InSession(burst) == {SessionOf[m] : m \in burst}

\* mutant: a Run that has ended, but whose stream is still closing, is over
LiveOnly(burst) == {r \in Run : Live(r) /\ run[r].session \in InSession(burst)}

\* The Runs of the burst's session that a follow-up belongs to.
Engaged(burst) == {r \in Active : run[r].session \in InSession(burst)}

DrainTakesLock == Up /\ drains > 0 /\ recovering = NoBurst

\* Nothing is queued, or the Agent has lost the conversation: it returns.
DrainReturns ==
    /\ DrainTakesLock
    /\ \/ ~AnyQueued
       \/ /\ ~host.connected
          /\ \E burst \in SUBSET Message : NextBurst(burst) /\ Engaged(burst) = {} /\ CanStart
    /\ drains' = drains - 1
    /\ UNCHANGED <<ledger, run, input, ending, recovering, waiter, host>>

\* mutant: a Run that has ended is not waited for
LiveRuns == {r \in Run : Live(r)}

\* What a refused drain waits for.
Blocking == Active

\* The burst is refused: unless a waiter exists, one is created for what is
\* active, or else for the cleanup debt; with neither the drain just returns.
DrainWaits ==
    /\ DrainTakesLock
    /\ \E burst \in SUBSET Message :
          /\ NextBurst(burst)
          /\ Engaged(burst) # {} \/ ~CanStart
          /\ waiter' =
                IF waiter # NoWaiter THEN waiter
                ELSE IF Blocking # {}
                     THEN [kind |-> "capacity", runs |-> Blocking, joining |-> None]
                ELSE IF Indebted # {}
                     THEN [kind |-> "cleanup", runs |-> Indebted, joining |-> None]
                ELSE waiter
    /\ drains' = drains - 1
    /\ UNCHANGED <<ledger, run, input, ending, recovering, host>>

Startable(burst) ==
    /\ NextBurst(burst)
    /\ Engaged(burst) = {} /\ CanStart /\ host.connected

\* Claim and start in one go; the outcome of the Run gets a task.
DrainStarts(r) ==
    /\ DrainTakesLock
    /\ run[r] = NoRun
    /\ \E burst \in SUBSET Message :
          /\ Startable(burst) /\ burst \intersect Continue = {}
          /\ Claim(burst, r)
          /\ Admitted(r, "conversation", SessionOf[CHOOSE m \in burst : TRUE])
          /\ seen' = [seen EXCEPT ![r] = burst]
          /\ taken' = [taken EXCEPT ![r] = burst]
    /\ persist' = [persist EXCEPT ![r] = "waiting"]
    /\ drains' = drains - 1
    /\ UNCHANGED <<posted, peeked, outcome, recovering, waiter, host>>

\* The burst asks to continue a Run: the claim is committed, then the drain
\* awaits what became of that Run's effects.
DrainRecovers(r) ==
    /\ DrainTakesLock
    /\ run[r] = NoRun
    /\ \E burst \in SUBSET Message :
          /\ Startable(burst) /\ burst \intersect Continue # {}
          /\ Claim(burst, r)
          /\ recovering' = [run |-> r, burst |-> burst]
    /\ drains' = drains - 1
    /\ UNCHANGED <<posted, run, input, ending, waiter, host>>

RecoveredStarts ==
    /\ Up /\ recovering # NoBurst /\ CanStart
    /\ Admitted(recovering.run, "conversation",
                SessionOf[CHOOSE m \in recovering.burst : TRUE])
    /\ seen' = [seen EXCEPT ![recovering.run] = recovering.burst]
    /\ taken' = [taken EXCEPT ![recovering.run] = recovering.burst]
    /\ persist' = [persist EXCEPT ![recovering.run] = "waiting"]
    /\ recovering' = NoBurst
    /\ UNCHANGED <<ledger, peeked, outcome, drains, waiter, host>>

\* start_run refuses: the claim is undone and the drain fails.
RecoveredRefused ==
    /\ Up /\ recovering # NoBurst /\ ~CanStart
    /\ delivery' = Requeued(recovering.run)
    /\ recovering' = NoBurst
    /\ UNCHANGED <<posted, run, input, ending, drains, waiter, host>>

\* _wait_for_conversation_capacity: the first of its Runs has settled.
CapacityFrees ==
    /\ Up /\ waiter.kind = "capacity"
    /\ \E r \in waiter.runs : Settled(r)
    /\ waiter' = NoWaiter
    /\ drains' = drains + 1
    /\ UNCHANGED <<ledger, run, input, ending, recovering, host>>

\* _join_conversation_cleanup: each Run is cancelled again, which joins its
\* cleanup or retries one that has failed.
JoinBegins(r) ==
    /\ Up /\ waiter.kind = "cleanup" /\ waiter.joining = None
    /\ r \in waiter.runs
    /\ run' = [run EXCEPT ![r].cleanup = IF @ = "failed" THEN "pending" ELSE @]
    /\ waiter' = [waiter EXCEPT !.joining = r, !.runs = @ \ {r}]
    /\ UNCHANGED <<ledger, input, ending, drains, recovering, host>>

JoinSucceeds ==
    /\ Up /\ waiter.joining # None
    /\ run[waiter.joining].cleanup = "complete"
    /\ waiter' = IF waiter.runs = {} THEN NoWaiter ELSE [waiter EXCEPT !.joining = None]
    /\ drains' = IF waiter.runs = {} THEN drains + 1 ELSE drains
    /\ UNCHANGED <<ledger, run, input, ending, recovering, host>>

\* The cleanup fails again: the waiter ends without a drain.
JoinFails ==
    /\ Up /\ waiter.joining # None
    /\ run[waiter.joining].cleanup = "failed"
    /\ waiter' = NoWaiter
    /\ UNCHANGED <<ledger, run, input, ending, drains, recovering, host>>

-----------------------------------------------------------------------------
(* A Run of the Agent.                                                     *)

\* mutant: the inbox is not limited to what is still queued
EverUnsettled(s) ==
    {m \in Message : delivery[m].status \in {"queued", "claimed"} /\ SessionOf[m] = s}

\* pending_messages
Pending(s) == QueuedIn(s)

\* pending_conversation_input: before a model call, the provider reads what
\* is queued for the Run's session.
InputRead(r) ==
    /\ Up /\ Live(r) /\ run[r].executing
    /\ run[r].session # None /\ host.connected
    /\ peeked[r] = {} /\ Pending(run[r].session) # {}
    /\ peeked' = [peeked EXCEPT ![r] = Pending(run[r].session)]
    /\ UNCHANGED <<ledger, run, seen, taken, ending, draining, host>>

\* What was read is on its way to the model before it is claimed: steered into
\* the running turn, or included in the next request.
InputGiven(r) ==
    /\ Up /\ run[r].executing
    /\ peeked[r] # {} /\ ~(peeked[r] \subseteq seen[r])
    /\ seen' = [seen EXCEPT ![r] = @ \cup peeked[r]]
    /\ UNCHANGED <<ledger, run, taken, peeked, ending, draining, host>>

\* acknowledge_conversation_input: the Run claims what it has been given, as
\* far as it is still queued.
InputAccepted(r) ==
    /\ Up /\ Live(r) /\ host.connected
    /\ peeked[r] # {} /\ peeked[r] \subseteq seen[r]
    /\ Claim(peeked[r], r)
    /\ taken' = [taken EXCEPT ![r] = @ \cup {m \in peeked[r] : delivery[m].status = "queued"}]
    /\ peeked' = [peeked EXCEPT ![r] = {}]
    /\ UNCHANGED <<posted, run, seen, ending, draining, host>>

\* A Run that is over acknowledges nothing, given or not: the acknowledgement
\* returns silently, or the boundary is cancelled with the turn.
InputDropped(r) ==
    /\ Up /\ peeked[r] # {} /\ ~Live(r)
    /\ peeked' = [peeked EXCEPT ![r] = {}]
    /\ UNCHANGED <<ledger, run, seen, taken, ending, draining, host>>

\* The provider reports the end while its stream is still open, in the middle
\* of a model boundary too: a rejected steer, an acknowledgement that fails
\* for a disconnected Agent, a compaction that fails, a turn that is complete.
Ends(r) ==
    /\ Up /\ Live(r)
    /\ \E end \in {"succeeded", "failed"} : run' = [run EXCEPT ![r].status = end]
    /\ UNCHANGED <<ledger, input, ending, draining, host>>

StreamCloses(r) ==
    /\ Up /\ Ended(r) /\ run[r].executing /\ peeked[r] = {}
    /\ run' = [run EXCEPT ![r].executing = FALSE]
    /\ UNCHANGED <<ledger, input, ending, draining, host>>

\* A user stops the Run, or stops it again after a cleanup that failed.
Stop(r) ==
    /\ Up /\ "cancel" \in Env
    /\ Live(r) \/ run[r].cleanup = "failed"
    /\ run' = [run EXCEPT ![r].cleanup = "pending",
                          ![r].status = IF Live(r) THEN "cancelled" ELSE @]
    /\ UNCHANGED <<ledger, input, ending, draining, host>>

CleanupEnds(r) ==
    /\ Up /\ run[r].cleanup = "pending"
    /\ \/ /\ ~run[r].executing
          /\ run' = [run EXCEPT ![r].cleanup = "complete"]
       \/ /\ "stuck" \in Env
          /\ run' = [run EXCEPT ![r].cleanup = "failed"]
    /\ UNCHANGED <<ledger, input, ending, draining, host>>

\* mutant: a success without text leaves no notice
EntryForText(r, text) ==
    IF run[r].status = "succeeded" /\ (~text \/ ~host.connected) THEN 0 ELSE 1

\* What becomes visible: the answer if the Agent may still post it, and a
\* notice for any other end.
Entry(r, text) ==
    IF run[r].status = "succeeded" /\ text /\ ~host.connected THEN 0 ELSE 1

\* _persist_conversation_run, once the turn has ended and is terminal.
OutcomePosted(r) ==
    /\ Up /\ persist[r] = "waiting" /\ Settled(r)
    /\ \E text \in BOOLEAN : outcome' = [outcome EXCEPT ![r] = @ + Entry(r, text)]
    /\ persist' = [persist EXCEPT ![r] = "posted"]
    /\ UNCHANGED <<ledger, run, input, draining, host>>

\* Its finally clause: the claim is consumed and the next burst drained.
OutcomeSettles(r) ==
    /\ Up /\ persist[r] = "posted"
    /\ delivery' = Done(r)
    /\ persist' = [persist EXCEPT ![r] = "none"]
    /\ drains' = drains + 1
    /\ UNCHANGED <<posted, run, input, outcome, recovering, waiter, host>>

-----------------------------------------------------------------------------
(* Runs that no drain starts.                                              *)

Starts(r, kind, s, task) ==
    /\ Up /\ run[r] = NoRun /\ CanStart
    /\ Admitted(r, kind, s)
    /\ persist' = [persist EXCEPT ![r] = task]
    /\ UNCHANGED <<ledger, input, outcome, draining, host>>

DirectRun(r) == "direct" \in Env /\ Starts(r, "direct", None, "none")

\* request_conversation_turn: the other Agent awaits the Run itself.
Handoff(r, s) == "handoff" \in Env /\ host.connected /\ Starts(r, "handoff", s, "none")

\* admit_continuation: only for an idle Agent with no message queued.
Continuation(r, s) ==
    /\ "continuation" \in Env /\ host.connected
    /\ Active = {} /\ ~AnyQueued
    /\ \E p \in Run : run[p].kind = "conversation" /\ run[p].session = s
                      /\ run[p].status = "succeeded"
    /\ Starts(r, "continuation", s, "waiting")

-----------------------------------------------------------------------------
(* Users and the process.                                                  *)

Toggle(kind, field) ==
    /\ kind \in Env /\ Up
    /\ host' = [host EXCEPT ![field] = ~@]
    /\ UNCHANGED <<ledger, run, input, ending, draining>>

PauseOrResume == Toggle("pause", "paused")
RevokeOrReconnect == Toggle("revoke", "connected")

Forgotten ==
    /\ peeked' = [r \in Run |-> {}]
    /\ persist' = [r \in Run |-> "none"]
    /\ drains' = 0
    /\ recovering' = NoBurst
    /\ waiter' = NoWaiter

Crash ==
    /\ Up /\ host.crashes < MaxCrashes
    /\ host' = [host EXCEPT !.up = "down", !.crashes = @ + 1]
    /\ Forgotten
    /\ UNCHANGED <<ledger, run, seen, taken, outcome>>

\* The process dies between the claim of a burst and the row of its Run.
CrashAfterClaim(r) ==
    /\ DrainTakesLock /\ host.crashes < MaxCrashes
    /\ run[r] = NoRun
    /\ \E burst \in SUBSET Message : Startable(burst) /\ Claim(burst, r)
    /\ host' = [host EXCEPT !.up = "down", !.crashes = @ + 1]
    /\ Forgotten
    /\ UNCHANGED <<posted, run, seen, taken, outcome>>

\* mutant: startup posts an outcome for every Run that has ended
Repeated(r) == Ended(r)

\* Startup looks for an ended Run of the conversation without a final entry.
Unreported(r) == Ended(r) /\ outcome[r] = 0

\* startup: incomplete Runs are interrupted.
StartupInterrupts ==
    /\ host.up = "down"
    /\ run' = [r \in Run |->
                  [run[r] EXCEPT !.status = IF Live(r) THEN "interrupted" ELSE @,
                                 !.executing = FALSE,
                                 !.cleanup = IF r \in Indebted THEN "complete" ELSE @]]
    /\ host' = [host EXCEPT !.up = "interrupted"]
    /\ UNCHANGED <<ledger, input, ending, draining>>

\* Every Run of a conversation that has ended without an outcome gets one.
StartupReports ==
    /\ host.up = "interrupted"
    /\ outcome' = [r \in Run |->
                      IF run[r].kind \in {"conversation", "continuation"} /\ Unreported(r)
                      THEN outcome[r] + 1 ELSE outcome[r]]
    /\ host' = [host EXCEPT !.up = "reported"]
    /\ UNCHANGED <<ledger, run, input, persist, draining>>

\* The claims are reconciled and what is queued is drained.
StartupDrains ==
    /\ host.up = "reported"
    /\ delivery' = [m \in Message |-> Recovered(m)]
    /\ drains' = IF \E m \in Message : Recovered(m).status = "queued" THEN 1 ELSE 0
    /\ host' = [host EXCEPT !.up = "up"]
    /\ UNCHANGED <<posted, run, input, ending, recovering, waiter>>

CrashInStartup ==
    /\ host.up \in {"interrupted", "reported"} /\ host.crashes < MaxCrashes
    /\ host' = [host EXCEPT !.up = "down", !.crashes = @ + 1]
    /\ UNCHANGED <<ledger, run, input, ending, draining>>

-----------------------------------------------------------------------------
DrainStep(r) == DrainStarts(r) \/ DrainRecovers(r)

RunStep(r) ==
    \/ InputRead(r) \/ InputGiven(r) \/ InputAccepted(r) \/ InputDropped(r)
    \/ Ends(r) \/ StreamCloses(r)
    \/ Stop(r) \/ CleanupEnds(r)
    \/ OutcomePosted(r) \/ OutcomeSettles(r)

Next ==
    \/ \E m \in Message : Post(m)
    \/ DrainReturns \/ DrainWaits
    \/ \E r \in ConvRun : DrainStarts(r) \/ DrainRecovers(r) \/ CrashAfterClaim(r)
    \/ RecoveredStarts \/ RecoveredRefused
    \/ CapacityFrees \/ JoinSucceeds \/ JoinFails
    \/ \E r \in Run : JoinBegins(r) \/ RunStep(r)
    \/ \E r \in OtherRun : DirectRun(r)
    \/ \E r \in OtherRun, s \in Session : Handoff(r, s) \/ Continuation(r, s)
    \/ PauseOrResume \/ RevokeOrReconnect
    \/ Crash \/ CrashInStartup
    \/ StartupInterrupts \/ StartupReports \/ StartupDrains

Spec == Init /\ [][Next]_vars

\* Tasks of the event loop run, a turn ends (deadlines see to it), a stream
\* and a cleanup that do not fail come to their end, and startup completes.
\* Nothing obliges users, other Agents or a provider's model boundaries.
Fairness ==
    /\ WF_vars(DrainReturns) /\ WF_vars(DrainWaits)
    /\ WF_vars(\E r \in ConvRun : DrainStep(r))
    /\ WF_vars(RecoveredStarts) /\ WF_vars(RecoveredRefused)
    /\ WF_vars(CapacityFrees) /\ WF_vars(JoinSucceeds) /\ WF_vars(JoinFails)
    /\ \A r \in Run :
          /\ WF_vars(JoinBegins(r))
          /\ WF_vars(InputDropped(r)) /\ WF_vars(Ends(r))
          /\ WF_vars(StreamCloses(r)) /\ WF_vars(CleanupEnds(r))
          /\ WF_vars(OutcomePosted(r)) /\ WF_vars(OutcomeSettles(r))
    /\ WF_vars(StartupInterrupts) /\ WF_vars(StartupReports) /\ WF_vars(StartupDrains)

FairSpec == Spec /\ Fairness

-----------------------------------------------------------------------------
(* Properties.                                                             *)

\* While the process runs, every claim has someone who will settle it: the
\* drain that made it, or the task that persists the outcome of its Run
\* ("A terminal attempt consumes its claimed input", services.py:3429).
ClaimOwned ==
    Up => \A m \in Message :
             delivery[m].status = "claimed" =>
                delivery[m].run = recovering.run \/ persist[delivery[m].run] # "none"

\* The ledger consumes a message only for an ended Run whose model was given
\* it, whatever crash, refusal or stop came between the claim and the end.
ConsumedWasGiven ==
    \A m \in Message :
        delivery[m].status = "done" =>
            LET r == delivery[m].run IN
            /\ m \in seen[r]
            /\ run[r].status \in {"succeeded", "failed", "cancelled"}

\* A Run leaves at most one final entry in the transcript, although both its
\* own task and a later startup may write it.
OutcomeOnce == \A r \in Run : outcome[r] <= 1

\* The ledger and the transcript are well formed and tell one story.
RowsSound == TypeOK /\ ConsumedWasGiven /\ OutcomeOnce

\* A consumed message has an answer or a notice in the transcript: "Every Run
\* started from a conversation ends with a visible transcript entry [...]
\* Nothing is dropped silently" (services.py:3376-3381).
AnswerVisible ==
    \A m \in Message :
        delivery[m].status = "done" /\ run[delivery[m].run].kind # "handoff" =>
            outcome[delivery[m].run] > 0

\* "A new Run in the same session is not admitted just because the Agent has
\* spare capacity" (docs/runs.md:315): a drain starts a Run only when no other
\* Run of the session is live or still unwinding.
NoSecondRun ==
    [][\A q, r \in Run :
          (/\ q # r /\ run[r] = NoRun /\ run'[r].kind = "conversation"
           /\ run[q].session = run'[r].session) => q \notin Active]_vars

\* What a Run has taken into its delivery_message_ids is not given to the model
\* of another Run, not at a model boundary and not in a burst, unless a restart
\* interrupted the Run that took it ("A terminal attempt other than restart
\* interruption already consumed its input", deliveries.py:133-134).
GivenOnce ==
    [][\A m \in Message : \A q, r \in Run :
          (q # r /\ m \in taken[q] /\ m \in seen'[r] \ seen[r])
          => run[q].status = "interrupted"]_vars

\* What the model of a Run has been given is not given to another Run once that
\* one is over: "A terminal attempt other than restart interruption already
\* consumed its input. Do not replay failed/cancelled/succeeded work."
\* (deliveries.py:133-134).  It fails for what a Run was given and did not come
\* to acknowledge.
NotReplayed ==
    [][\A m \in Message : \A q, r \in Run :
          (q # r /\ m \in seen[q] /\ m \in seen'[r] \ seen[r])
          => run[q].status \notin {"succeeded", "failed", "cancelled"}]_vars

\* No message of a session is given to a model while an earlier message of it
\* has been given to none: restarts requeue and model boundaries take in, but
\* the order of posting is kept.
NoOvertaking ==
    [][\A r \in Run : \A i, j \in DOMAIN posted :
          (/\ i < j /\ SessionOf[posted[i]] = SessionOf[posted[j]]
           /\ posted[j] \in seen'[r] \ seen[r])
          => \E q \in Run : posted[i] \in seen'[q]]_vars

\* No message stays queued for ever while its Agent is connected, its team is
\* not paused and no cleanup debt closes admission (docs/runs.md:317-318).
NoneStranded ==
    \A m \in Message :
        ~<>[](/\ delivery[m].status = "queued"
              /\ host.connected /\ ~host.paused /\ Indebted = {})
=============================================================================
