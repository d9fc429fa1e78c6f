# Formal models of Open Agent World

Open Agent World runs AI agents that a user arranges on a canvas. The back end
(`src/backend`) is one Python process: one asyncio event loop, SQLite for what
must survive it, and dictionaries for what need not. This directory holds TLA+
models of its coordination core and of the way a browser follows it, the TLC
configurations that check them on small instances, and TLAPS proofs about seven
of them.

Line numbers below are those of the files under `src/`.

- [1 The system](#1-the-system): the inventory
- [2 Modules](#2-modules): what models what, at which granularity
- [3 Runs](#3-runs): questions, bounds, results
- [4 Fairness](#4-fairness)
- [5 Proofs](#5-proofs)
- [6 Disagreements](#6-disagreements-between-the-code-and-its-texts)
- [7 What is not covered](#7-what-is-not-covered)
- [8 Plan](#8-plan)

## 1 The system

### Components that keep coordination state

| component | state | operations | hard behaviours |
| --- | --- | --- | --- |
| Run manager, `backend/runs/manager.py` | rows of `runs` with a lifecycle object (durable); `_occupied_runs`, `_suspensions`, `_runtime_tasks`, `_cleanup_tasks`, cancel locks (volatile) | `start_run`, suspend and resume, provider turns, watchdogs, `cancel_run` down the family, agent deletion, shutdown, startup | a stop meets a coroutine at any point; slots are released by whichever of three events comes last; joins time out and are retried; restart between two writes |
| Run ledger, `backend/runs/store.py` | status column of `runs` | create, update, interrupt incomplete rows | late transitions after a terminal one |
| Background jobs, `backend/background_jobs.py`, `backend/node_continuations.py` | rows of `background_jobs` with revisions; probes in flight | submit, attach, wait, pause, resume, acknowledge, detach, cancel, refresh; the loop's probes and deliveries; startup | one submission per request key in spite of timeouts; probes, refreshes and cancellations side by side; a delivery cut by a crash; stale rows in a tick |
| Node deletion, `backend/services.py:1221-1757` | `pending_node_deletions` (the journal), the graph, what plugins did | staged delete, commit, graph drop, rollback, finalization, recovery at startup | failure or crash after any step, dependencies between nodes, timeouts of plugin code |
| Conversation deliveries, `backend/conversations/deliveries.py`, `backend/services.py:2740-3440`, `backend/capabilities/provider.py:560-640` | rows of `conversation_deliveries`, a shared waiter, persist tasks | post, drain, claim, requeue, live input at model boundaries, persisting an outcome, startup | drains, boundaries and other admissions race for the slot and for the same rows; crash after a claim |
| Delegation on a task board, `backend/node_delegation.py`, `backend/node_execution.py` | the board's document: attempts, notices, statuses of tasks | delegate, collect, report, stop, the coordinator's wake-ups, startup | a dispatch is four transactions; outcomes, wake-ups and stops of one attempt race; restart between any two |
| Summoning, `backend/summoning.py` | rows of `summoned_instances`, cleanup locks | summon, run again, tear down (stop, reclaim), recover | a teardown works outside the lock while others summon, start Runs and tear down; crash amid it; debts of node deletion |
| Portable state gate, `backend/services.py:168-207` | two counters, a flag and one condition | run a command, capture | captures wait for commands and commands for waiting captures; cancellation of either |
| Sandbox commands, `backend/sandbox/operations.py`, `execution.py`, `history.py` | receipts (durable); tasks, `_sandbox_stopping` (volatile) | submit, execute, cancel, stop a command or the Sandbox, recover | two tasks per command, one shielded from the other's cancellation; a stop collects tasks under a lock and joins them outside |
| Event hub and browser, `backend/events/hub.py`, `backend/api/websocket.py`, `frontend/src/state/worldStore.ts`, `graphEvents.ts` | sequence and bounded queues; the canvas, its tombstones and its position in the stream | publish, drop, reconnect; apply, notice a gap, refresh, edit | snapshots, events and replies overtake each other; dropped events; restarted servers |
| Idempotency, `backend/idempotency.py` | one row per key | run once, replay | two requests with one key |

The remaining parts (state and resource stores, packs, hosting, deployments,
runtimes, traces, the HTTP API, views, desktop shell, bundled plugins) are
listed in `PROJECT.json` with the reason why they are not modelled.

### How they interact

- A **drain** of conversation deliveries, a **direct start**, a **turn another
  Agent requests**, a **summon** and a **continuation** (for a background job or
  for a coordinator) all end in `RunManager.start_run`, and compete for
  `max_concurrent_runs` of an Agent.
- A Run's provider calls tools; tools submit and attach **background jobs**,
  which name the Run to continue. The loop in `node_continuations.py` takes the
  world mutation lock for each delivery and admits a Run below the one that waited.
- A coordinator's Run **delegates** a task of its board: the attempt is written,
  an instance is **summoned**, its Run started and its handle saved. The end of
  that Run wakes the coordinator through the same loop.
- **Stopping** a Run cancels its dependent children one after the other; a
  stopped line admits no continuation (`manager.py:306-315`) and pauses the jobs
  that wait for it (`background_jobs.py:351-353`). Tearing an instance down
  stops every Run of its family, and reclaiming it deletes its nodes.
- **Deleting** nodes reserves Agents in the run manager, commits plugins'
  removals under the mutation lock, and drops the whole batch from the graph.
  A Run that starts or ends writes its Agent's card without that lock.
- Commands of a **Sandbox** hold the portable state gate from before the Sandbox
  is started until their inner task has ended; deployments and packs capture
  portable state under it.
- Every change of the graph is published by the **hub**; a browser applies the
  events and reads the world again when it notices that it missed one.
- **Startup** runs in a fixed order: incomplete Runs are interrupted, deletions
  recovered, teardowns, jobs, boards and deliveries reconciled with the
  interrupted Runs.

### What makes each component correct

- Run manager: limits are never exceeded and slots never leak; a stop ends
  everything below the stopped Run and frees its slot; a deleted Agent has no
  coroutine; a lost provider session is never reported as cleaned up.
- Run ledger: transitions follow the table, terminal results are final.
- Background jobs: one submission per key; one continuation per arming, and no
  arming is dropped silently; no revival below a stop; old answers do not
  overwrite newer ones; a wake-up that is owed is delivered.
- Node deletion: every reversible effect is in the journal; nothing
  irreversible happens to a live node; dependencies hold at every point; a
  start never meets a batch it must refuse.
- Deliveries: every claim has an owner; what is consumed was given to a model
  and answered visibly; nothing is given twice, overtaken or stranded.
- Delegation: one worker per request and per task; the ledger says what the
  worker's Run did; each outcome is told once and reaches the coordinator; a
  stop that has returned has stopped everything.
- Summoning: what a teardown confirms is true, a reclaimed instance is gone,
  and no teardown stays pending.
- Gate and commands: nothing writes the home that is being captured; a receipt
  reads "running" only while something will close it; what a confirmed stop
  covered has no process; nobody waits for ever.
- Client: the canvas shows versions the world had, never goes back, never
  resurrects what it knows to be deleted, and ends at the world's state.

## 2 Modules

```
RunLifecycle     <--INSTANCE--  RunManager  <--EXTENDS--  RunManagerProof
                                                          RunCancellationProof
ReplicatedWorld  <--INSTANCE--  ClientSync
                  BackgroundJobs        <--EXTENDS--  BackgroundJobsProof
                  NodeDeletion          <--EXTENDS--  NodeDeletionProof
                  ConversationDelivery  <--EXTENDS--  ConversationDeliveryProof
                  Sandbox               <--EXTENDS--  SandboxProof
                  Delegation            <--EXTENDS--  DelegationProof
                  Summoning             <--EXTENDS--  SummoningProof
```

Each detailed module has an `MC` module beside it (`MCRunManager`, ...), which
defines only values of constants and symmetry sets. Operators marked
`\* mutant:` are altered forms of the definition that follows them: each
property is known to fail when the definition is replaced by that form.

In every module `Env` is the set of what the environment may do besides normal
operation. It is how an instance is kept small without losing a question: what
a run leaves out is named in section 3.

### RunLifecycle and RunManager

`RunLifecycle` is the abstract ledger: a status per Run, the transition table
`_VALID_TRANSITIONS` (`manager.py:49-62`), and the interruption of incomplete
Runs at a restart (`store.py:125-145`).

`RunManager` models `RunManager` in `runs/manager.py` whole. Durable and
volatile state are separate variables, and `Restart` keeps the first and clears
the second.

| variable | code |
| --- | --- |
| `status`, `cleanup`, `execution`, `stopReq`, `lost` | `RunRecord.status` and its `lifecycle` object |
| `occupied` | `_occupied_runs` |
| `suspension` | `_suspensions`, with or without its capacity released |
| `task` | `_runtime_tasks[run]` and how far its coroutine has come: created, streaming, in the watchdog, closing the stream, closed |
| `cleaner` | `_cleanup_tasks[run]`: the manager's own `cleanup()` or the watchdog's plain `provider.stop` task |
| `canceller`, `by`, `todo` | who holds the Run's cancel lock, for whom, and which children are left |
| `agentState`, `purge`, `mode` | reservation and deletion of Agents, shutdown |
| `yielded`, `answer` | history: slots given away explicitly; what `cancel_run` told its caller |

An action is the code between two points where a coroutine really yields.
`start_run`, `suspend_run` and status transitions do not yield (publication is
synchronous and their locks are free there), so each is one action.
`cancel_run` yields at every join, at each provider call and for each child.
`StartRunAborts` is `start_run` raising after the row was committed.

Abstracted: the Legion pause, summoning admission and trace records; a
provider is always present; a crash does not split two database writes of one
handler that lie between yields.

### BackgroundJobs

One Agent and one session. A row of `background_jobs` is a record; the reads
of it that are still current are the set `fresh`, which stands for the revision
that `update(expected_revision=...)` compares: any update removes all of them.
`snap` and `todo` are the rows that a tick read at its start and has yet to
handle: the tick keeps the event loop except while it waits for the mutation
lock (`delivering`), which is what `LoopYields` says. `DeliverCut` and
`Restart` are a crash inside a delivery and anywhere else.

Abstracted: "queued" counts as "running"; `records()` has no ORDER BY, so the
tick's order is arbitrary; `next_check_at` may or may not have come; a stop
ends the turn at once (its unwinding is RunManager's business); at most
`MaxProbes` probes (4 in the code) and `MaxContinuations` continuations of one
root (64 in the code). `tracking_released` and the deletion guard are left out.

### NodeDeletion

`plug[n]` is what the plugin of `n` has really done, `row[n]` what the journal
says, and between the two a crash may come: each commit, compensation and
finalization is three steps (`at = ready, calling, acted`). A batch is the
sequence that `_order_delete_transactions` yields. Finalizations (`tails`) go
on after the lock is released, beside other deletions. A card's revision counts
edits and status changes apart; the code compares their sum.

Abstracted: incompatible plugin versions and other refusals at startup are the
same failure; the startup time budget is nondeterministic.

### ConversationDelivery

All the messages to one Agent, over one or more sessions. `delivery` is the
ledger, `posted` the order of its rows; a drain (`drains` waiting for the
Agent's delivery lock) claims the oldest session's burst, or waits
(`waiter`), or returns. A model boundary is three steps: `InputRead`, then, possibly
after a context compaction, `InputGiven`, and `InputAccepted`, the acknowledgement
that claims. In the Codex runtime the awaited `turn/steer` lies between the first two
and the third (`runtime.py:218-228`), and a Run that ends there leaves the message
given and queued (`InputDropped`). `seen` is what a Run's model was given, `taken`
what the Run has claimed. `persist` is the task
that writes the answer (`OutcomePosted`) and settles the claim
(`OutcomeSettles`). Startup is three steps, and a crash may come between any
two of them or right after a claim was committed.

The run manager is reduced to what a drain sees: `Active` Runs and `Indebted`
ones. Between a drain's checks and the admission nothing yields, unless a
message of the burst is a user's "Continue": then `recovery_context` is awaited
(`services.py:2918`), and that is the action pair `DrainRecovers` and
`RecoveredStarts` or `RecoveredRefused`.

Abstracted: suspended Runs, a `start_run` that raises after creating its row,
time-outs of joins, cancelled drains; posting and notifying are one action.

### ReplicatedWorld and ClientSync

`ReplicatedWorld` is what a canvas promises from outside: it shows versions the
world had, moves forward while an object stays on it, and takes nothing back
that it knows to be deleted. `ClientSync` is one browser: `queue` and `wire` are
the hub's bounded queue and the socket, `seen` the position of
`sequenceEvents`, `shown` and `tomb` the cards and tombstones of `worldStore.ts`,
`load` and `refresh` the requests of `initialize` and `refreshWorld` (a second
attempt included), `own` an edit, creation or deletion of the client's own.
Everybody else's changes, dropped events, lost connections, failed requests
and a restart of the server (a new stream) are the environment.

Abstracted: accepting a socket and subscribing is one step; the active chunks
cover the world; the mutation epoch is only compared with the one a request
began with, so each request carries `moved`; a pong appears only when it tells
something new; a deleted card is restored only by who deleted it;
`waitForPositionCommits` is left out; events that arrive together are of one
kind.

### Delegation

One board, one coordinator Agent, workers named by the attempt they serve.
`board` is the ledger of attempts, `notes` the notices each may send, `made` and
`work` the instances and their Runs, `turns` the coordinator's Runs. `op` is who
holds the mutation lock across an await: a dispatch (reserved, marked, made,
started, saved) or a continuation under way; `look` is a collect between its two
transactions (`node_delegation.py:193-210` and the read before it), `stop` a stop of
the board or of an instance. `stops` records, for each, the attempts it gave up, as
against those whose notices it merely silenced (`Silenced`). `Collected` is
`collect_delegations` with its recovery of a handle that was never saved, `Pass` one
pass of the continuation loop. `Crash` may come between any two of these.

Abstracted: the hooks of the plugin behind the board (`apply_outcome`,
`update_task`) are those of the example in `tests/research_tasks.py`; a user's
cancellation reaches everything below in one step (that is RunManager's
business); one stop at a time; reports other than "waiting", `inspect`, `defer`
(so the wake-ups it schedules) and the limit of 16 entries are left out.

### Sandbox

One Sandbox with its gate. A command is at one of the stages `arrived`,
`asleep` (waiting in the gate), `inside`, `created` (the inner task exists),
`prepared`, `marked`, `native` (the back end runs it), `ended` (the inner task is
over), `done`. `task` is which of its two tasks `_sandbox_tasks` holds: an
operation registers the outer one, `_start_receipt` replaces it by the inner
one. `kill` and `cut` are the cancellations of the outer and the inner task.
`receipt` is the journal of `history.py`, `stop` the calls of `history.stop` with
the tasks and receipts each has collected. `native` is what really runs;
`Finishes`, `Drained` and `StopTerminates` are what the back end answers.

Abstracted: a section under a lock is one step; starting the Sandbox is one step
under the mutation lock; a command's own time limit is one of the ways it
finishes; the back end reconciles its process trees before `recover`; of a
receipt's final states only "interrupted" is told apart (the others are `closed`,
for no property distinguishes them); a stop that finds nothing to do writes no
receipt of its own; retention of 20 receipts, waiting and observing, package
installation, mounts and permissions are left out.

### Summoning

Instances in the order of their rows, Runs in the order of their starts; caller
0 stands for a user or an Agent that is not summoned. `admission` is the summon
that holds the mutation lock (record saved, nodes placed, Run started), `call`
the teardown that holds an instance's cleanup lock. It reads the instance's row under
that lock alone (`Reads`), waits for the mutation lock (phase `wait`), and then marks
the family (`Begins`), saving the row as it was read before. It keeps its own `copy`
of the family's records, as `teardown` does, what is `left` to cancel and the Agents
whose Runs it cancels afterwards (`agents`). `sweep` is `recover()`, which works on the
records it has read at its start. `DebtPaid` is a retried deletion.

Abstracted: budgets and depth, layout, session workspaces, authorization,
waiting; node executions that are stopped first (`summoning.py:69-71`); one set of
private nodes per instance; deletion is one step that may leave a debt.

## 3 Runs

All configurations turn deadlock checking off: users may simply stop asking,
identities are finite pools, and a stopped process stays stopped.

| run | question and properties | instance | distinct states |
| --- | --- | --- | --- |
| RunSafety | slots, ledger and lost sessions under suspension, failures, watchdogs, aborted starts, shutdown and restarts: `CapacityRespected`, `ExecutionHoldsSlot`, `LostNeverComplete`, `LedgerSpec` | parent and child, one Agent with one slot | 1,701,150 |
| RunFamily | does a stop reach everything below, whatever starts meanwhile, and free every slot: `StopReachesFamily`, and `StopFreesSlot` under `FairSpec` | chain of three over two Agents, the middle one a continuation | 268,375 |
| RunDeletion | deletion of an Agent beside stops, with failing and slow cleanup: `DeletedAgentIdle`, `SettledHoldsNothing` | parent and child, two slots | 1,704,199 |
| JobSafety | everything that can happen to a job: `RowsSound`, `WokenOnce`, `WakeKept`, `NoRevival`, `ObservationsInOrder` | one job, one user turn, two continuations | 663,988 |
| JobLiveness | `WakeDelivered` under `FairSpec` | two jobs, one probe slot, one Agent slot | 19,122 |
| DeleteBatch | failures and crashes everywhere: `JournalSound`, `CleanupOwed`, `DependencyOrder`, `BatchWhole`, `RestorePossible` | batches over three nodes, two of them dependent, one an Agent | 234,872 |
| DeliverySafety | stops, pauses, failed cleanup, lost connections and two crashes: `RowsSound`, `ClaimOwned`, `GivenOnce`, `NoOvertaking`, `NoSecondRun` | three messages of a session, the last a Continue, two slots, three Runs of drains | 1,601,664 |
| DeliveryLiveness | `AnswerVisible`, and `NoneStranded` under `FairSpec` | two sessions, one slot, turns requested by others, a crash | 732,412 |
| ClientSync | `CanvasSound`, the refinement `ShowsTheWorld`, and `CatchesUp` under fairness | one card with an edge, a queue and a socket of one, one break, one failed request, one own mutation | 657,644 |
| Delegation | `RowsSound`, `SettledTruthfully`, `ToldOnce`, `StopMeansStopped`, and `OutcomesReachCoordinator` under `FairSpec` | two requests for one task, four turns, one stop, one crash | 707,974 |
| Sandbox | `ReceiptsSound`, `CutIsStable`, `StoppedStaysStopped`, and `GateServesAll` under `FairSpec` | an operation, a direct command that outlives its caller, a capture, two stops, one crash | 1,706,171 |
| Summoning | `TeardownSound`, and `CleanupSettles` under `FairSpec` | two instances, three Runs, two teardowns, one crash | 1,574,634 |

`RowsSound`, `JournalSound`, `CanvasSound`, `ReceiptsSound` and `TeardownSound`
include the type invariant of their module; that of RunManager is a theorem.

### Why the bounds suffice

- *RunManager.* Two Runs of one Agent are the smallest instance in which a
  slot is contended, and parent and child the smallest in which one
  cancellation works inside another. The chain of three adds propagation
  through a Run that is itself admitted while the stop travels. The instance is
  split by `Env` since all of it together multiplies to hundreds of millions of
  states; `ExecutionHoldsSlot`, `CapacityRespected`, `LostNeverComplete` and
  `LedgerSpec` are proved for every `Env`, the other invariants for every `Env`
  without `"watchdog"`, which never meets them for the reason in 6.
- *BackgroundJobs.* One job with all its observers covers the races about one
  row, two continuations the delivery that is replayed. Two jobs are needed for
  the loop's own order and for the contention of JobLiveness. `WakeKept` with
  two jobs is a disagreement (6).
- *NodeDeletion.* Three nodes give batches with a first, a middle and a last,
  a dependency, and a second batch beside the first one's tail. `MaxRev` = 1: a
  single change decides whether the snapshot matches.
- *ConversationDelivery.* Two messages make an order, a burst and an overtake;
  the third is a user's "Continue", whose drain yields before it admits. Two
  crashes in DeliverySafety: the second may come inside the startup after the
  first. A third Run of drains leaves a successor to two Runs that were stopped or
  interrupted. Runs of drains are interchangeable (`Alike`, DeliverySafety only).
  Runs outside drains take part in DeliveryLiveness only.
- *ClientSync.* A queue of one drops at the second event; two incarnations of
  two revisions are the least with which a deleted card can return and an old
  version can overtake a new one; the edge goes with its card. Breaks, failures
  and own mutations are one each and may come in any order.
- *Delegation.* Two requests for one task are a retry or a newer attempt that a
  late outcome must not overtake; two slots let both run where a check is
  missing; two continuations per root reach the limit.
- *Sandbox.* An operation and a direct command are the two ways to register a
  task; with two stops one can close admission while another joins, and one can
  take up what the other left behind. Either may time out, fail, or be abandoned by
  its own caller (`StopAbandoned`). A restart recovers what either left.
- *Summoning.* An instance and the one that it summons make a family, which the
  child may join between a teardown's reading of the row and its marking; three Runs
  are those of both and one more on either, which may join then too; two teardowns
  are a failed or cut one and its retry, or two of unrelated instances. Longer chains
  are left to the theorem, which holds for every number of instances.

What the runs leave out because it fails there, as section 6 says:
`NoSecondRun`, `NoOvertaking` and `NoneStranded` are not checked with `Continue`
beside continuations (or, `NoneStranded`, beside direct Runs), `ClaimOwned` and
`GivenOnce` not with requested turns, `AnswerVisible` not with revocation,
`NoneStranded` not with pauses or revocation, ClientSync without "overtake",
Delegation without "window" and "unadmitted" (a stop of an instance without a Run),
Sandbox without "late", Summoning without "overlap", RunFamily and RunDeletion without
"watchdog", JobSafety with one job only. The hazards that lie in what is left out are
listed in `PROJECT.json` without a property.
Delegation's "fail" and "remove" (a refused admission, a removed task) are left
out of the run for its size only.

## 4 Fairness

- `RunManager!FairSpec`: weak fairness, for each Run, of its coroutine once it
  has been told to end (with a provider that closes its stream) and of its
  cancellation and cleanup (with a provider that answers a stop); strong fairness
  of `PropagateCancel`, whose lock is an `asyncio.Lock` that serves waiters in
  order. Users, results, watchdogs and faults owe nothing. Under it every
  requested stop frees the slot, when no provider call fails.
- `BackgroundJobs!FairSpec`: the loop wakes at least every 30 seconds (weak
  fairness of the tick); turns, submissions and observations are bounded by
  deadlines and the lock is fair, so their ends are strongly fair although the
  tick disables them again and again. A due probe is not put off for ever
  (`next_check_at` has an upper bound). Remote work may go on for ever:
  `WakeDelivered` is about work that is over.
- `ConversationDelivery!FairSpec`: weak fairness of drains, waiters, persist
  tasks and startup; Runs end because of their deadlines. Posting, stopping,
  continuing and model boundaries owe nothing. `NoneStranded` is conditional on
  a connected Agent, a team that is not paused and no failed cleanup, since
  each of these lawfully holds a message back.
- `ClientSync!FairSpec`: the server sends and answers, the client ingests what
  arrives and reconnects after a loss (`RuntimeConnection.tsx` retries for ever).
  The sender is strongly fair, since a connection that breaks disables it.
  `CatchesUp` exempts a refresh that ended without landing, see 6.
- `Delegation`, `Sandbox` and `Summoning` have one weak fairness condition,
  `WF_vars(Progress)`, over everything the program does by itself once it was
  asked: coroutines on one event loop, commands and Runs with time limits, a
  loop that wakes at least every 30 seconds, recovery at a start. No step of
  `Progress` can repeat for ever, so this is no stronger than fairness of each.
  Demands of users and Agents, cancelled callers, time-outs and crashes owe nothing;
  but a process
  that died is started again, or nothing could be promised about it.
- `NodeDeletion` has no liveness: a commit has no deadline in the code and a
  restart is the user's decision.

## 5 Proofs

| theorem | module | statement |
| --- | --- | --- |
| `TypeCorrect` | RunManagerProof | `Spec => []TypeOK` |
| `SlotCorrect` | RunManagerProof | `Spec => []ExecutionHoldsSlot` |
| `CapacityCorrect` | RunManagerProof | `Spec => []CapacityRespected` |
| `LedgerImplemented` | RunManagerProof | `Spec => LedgerSpec`, the refinement of `RunLifecycle` |
| `LostCorrect` | RunManagerProof | `Spec => []LostNeverComplete` |
| `SettledCorrect` | RunCancellationProof | `Spec => []SettledHoldsNothing`, without "watchdog" in `Env` |
| `DeletionCorrect` | RunCancellationProof | `Spec => []DeletedAgentIdle`, without "watchdog" |
| `StopCorrect` | RunCancellationProof | `Spec => []StopReachesFamily`, without "watchdog" |
| `JournalCorrect` | NodeDeletionProof | `Spec => []JournalSound` |
| `CleanupCorrect` | NodeDeletionProof | `Spec => []CleanupOwed` |
| `DependencyCorrect` | NodeDeletionProof | `Spec => []DependencyOrder` |
| `BatchCorrect` | NodeDeletionProof | `Spec => []BatchWhole` |
| `RestoreCorrect` | NodeDeletionProof | `Spec => []RestorePossible` |
| `RowsCorrect` | BackgroundJobsProof | `Spec => []RowsSound` |
| `WokenCorrect` | BackgroundJobsProof | `Spec => []WokenOnce` |
| `RevivalNever` | BackgroundJobsProof | `Spec => NoRevival` |
| `AnswersInOrder` | BackgroundJobsProof | `Spec => ObservationsInOrder` |
| `WakeUpKept` | BackgroundJobsProof | `Spec => []WakeKept`, for one job or without "stop" in `Env` |
| `RowsCorrect` | ConversationDeliveryProof | `Spec => []RowsSound` |
| `ClaimsOwned` | ConversationDeliveryProof | `Spec => []ClaimOwned`, without "handoff" in `Env` |
| `OneRunPerSession` | ConversationDeliveryProof | `Spec => NoSecondRun`, if `Undisturbed` |
| `OrderKept` | ConversationDeliveryProof | `Spec => NoOvertaking`, if `Undisturbed` |
| `GivenToOne` | ConversationDeliveryProof | `Spec => GivenOnce`, if `Undisturbed` and without "handoff" |
| `ConsumedIsAnswered` | ConversationDeliveryProof | `Spec => []AnswerVisible`, without "revoke" in `Env` |
| `LedgerCorrect` | DelegationProof | `Spec => []RowsSound` |
| `SettlesTruthfully` | DelegationProof | `Spec => []SettledTruthfully` |
| `TellsOnce` | DelegationProof | `Spec => []ToldOnce` |
| `StopsTruly` | DelegationProof | `Spec => StopMeansStopped` |
| `TypeCorrect` | SandboxProof | `Spec => []TypeOK` |
| `ReceiptsCorrect` | SandboxProof | `Spec => []ReceiptsSound` |
| `CutCorrect` | SandboxProof | `Spec => []CutIsStable`, when "late" is not in `Env` |
| `StoppedCorrect` | SandboxProof | `Spec => []StoppedStaysStopped`, when "late" is not in `Env` |
| `TypeCorrect` | SummoningProof | `Spec => []TypeOK` |
| `TeardownCorrect` | SummoningProof | `Spec => []TeardownSound`, without "overlap" in `Env` |

Each condition excludes a disagreement of section 6 and nothing else: in what it
leaves out, TLC finds the property violated in one of the configurations named there.
`Undisturbed` says that no message asks to continue a Run, or that neither requested
turns ("handoff") nor continuations happen.

### Runs

The theorems of RunManagerProof hold for every finite set of Runs, every forest,
every assignment to Agents, every limit and every `Env`, from the one assumption
`RunConstants` (types of the constants; `Ancestors` is the closure of `ParentOf` and
has no cycles; Runs are finitely many).

- *Types.* One lemma per group of actions (`TypeRunStep`, `TypeCancelRun`,
  `TypeCancelReturns`, `TypeCancelStep`, `TypeAgentStep`), one step per action.
- *Slots.* `ExecutionHoldsSlot` is inductive with `TypeOK`. Steps of a Run are
  taken one by one; steps of cancellation and of Agents share the lemma
  `CancelSlot`: they signal at most one coroutine, create none, and release
  slots only through `ReleaseSettled`, which asks for an ended coroutine.
- *Capacity.* `SlotsTaken`: every step shrinks `occupied`, or adds one Run whose
  Agent has capacity at that moment. With the finiteness of the slots of an
  Agent (`SlotsFinite`) the cardinality argument is one case split.
- *Ledger.* That a coroutine exists says nothing in `TypeOK` about its Run's
  status, and a transition from "absent" would be no step of the ledger. The
  strengthening `BegunRuns` (a Run with a coroutine is past "created") is
  inductive, and with it each step maps to `Begin`, `Move`, `Interrupt` or a
  stutter.
- *Lost sessions.* `LostNeverComplete` alone is not inductive, for a cleanup
  under way could complete it, or a Run id that has no row yet could inherit the
  mark. `LostInv` adds that a Run without a row is not lost and takes part in
  nothing, and that a lost Run has no coroutine; what a cleanup task then
  reports is "uncertain".

RunCancellationProof adds what a cancellation that has come back guarantees. It
assumes besides that "watchdog" is not in `Env`: with it all three properties fail
(section 6), since a plain stop task is then taken for the cleanup.

- *Progress.* A cancellation is under way only for a Run that is over
  (`StoppedIsOver`); once it has gone on to the children, the coroutine has ended
  and the slot is free (`Unwound`). This is inductive with `BegunRuns`, `LostInv`
  and `OwnCleanup`, by which every cleanup task is the manager's own (`CancelInv`).
- *Settled slots.* `SettledHoldsNothing` is then inductive: whichever of the result,
  the end of the coroutine and the cleanup comes last releases the slot.
- *Deletion.* A Run that has been struck off a deletion's list is `Gone`, and no Run
  of a closing Agent begins (`Purged`). `Deletion` says what one step can make of one
  deletion.
- *Stops.* Below a Run that a user has stopped nothing starts (`Barred`), and what its
  cancellation has passed is still, at any depth (`Revoked`). A cancellation that has
  finished with each child knows this of the whole subtree: whatever is below a Run is
  a child or below one (`BelowAChild`, by the well-foundedness of the number of
  ancestors). Steps of other cancellations of the family, which may join, overtake or
  give up this one, must keep those claims (`Granted`, `Claims`).

### Node deletion

`NodeDeletionProof` assumes `DeletionConstants`: the types of the constants and
finitely many nodes. The finiteness is what makes a batch a bounded sequence; that
`Before` can be followed is in the definition of a batch. No property of NodeDeletion
is inductive alone; one invariant, `Inv`, carries all five:

- how the rows of the journal belong together: a row names the batch that its node
  is in (`RowNamed`), batches of rows and of finalizations do not overlap (`Apart`), a
  batch is in the graph or out of it as a whole and then wholly committed (`Whole`),
  and one batch of live nodes is pending at most (`OneLive`);
- how far the deletion that holds the lock has come: rows before its position are
  committed and their plugins removed, rows after it are untouched, and `op.at` tells
  the one between them (`Selected`, `Attempt`); a compensation has undone all beyond
  its position (`Undo`);
- what a start has undone and not yet written down (`Redo`), and which node a
  finalization is at (`TailSane`).

A finalization and a recovery work on the *first* node that is due, by `CHOOSE`; that
there is one is the lemma `DueFacts`, from the well-foundedness of the naturals.
Most steps only clear rows or leave their batches alone, and share the lemma about
`JournalKept`.

### Background jobs

`BackgroundJobsProof` assumes `JobConstants` (types of the constants) only.
`Inv` says for each key what may be under way for it (`Data`: the submission that
owns the row, attachments, inspections and the reads of it that are still current) and
how its row relates to turns (`Waiting`: a claimed wake-up belongs to a turn that is
over, and stands for the one continuation it was counted for), and for turns what a
stop leaves behind (`LineSane`, `LiveFree`). An action changes one row; for all others
the lemma `UntouchedStep` holds. `RowsSound` and `WokenOnce` follow from `Inv`;
`NoRevival` and `ObservationsInOrder` are action properties and are proved action by
action: only a delivery admits a continuation, and it looks for a stop above in the
same step, and an answer is applied only while the read that it belongs to is current.

`WakeKept` needs more (`WakeInv`): a job that is armed belongs to a turn that nobody
has stopped, and a tick works on the current row. The second is true of one job, where
a tick excludes everything else, but not of two, where a tick waits for the lock with a
row it read before (section 6). Hence the hypothesis of `WakeUpKept`.

### Conversation deliveries

`ConversationDeliveryProof` assumes `DeliveryConstants`: the types of the constants,
finitely many messages and Runs, and that a drain does not take the identity of
another Run. `Inv` is inductive for every `Env`:

- a Run that has not begun has left no trace (`Unbegun`), and a process that is down
  has no tasks (`Asleep`);
- a claim names a Run whose model was given the message, or one that does not exist
  yet: then, while the process is up, it is the Run of the drain that awaits recovery
  facts (`Claims`), and that drain holds exactly these claims (`Recovering`). A crash
  leaves such claims behind, and `StartupDrains` returns them;
- a task that persists an outcome belongs to a Run that has begun and was not
  interrupted by a restart, and has written nothing before it says so (`Persisting`);
- the bound of `TypeOK` on waiting drains is a counting argument (`Counted`): every
  message that is not posted, every Run that has not settled and the waiter stand for
  one future drain each.

The other properties are invariants relative to `Inv`, in environments where the
code keeps them. For these, the lemma `StepCases` reduces every step to a few shapes
(`Taken`, `Begun`, `Accepts`, `Settles`, ...) that say field by field what it does.
*Owned*: without requested turns every live Run of a session has its persist task.
*Ordered*: what is about to be given is a prefix of what nobody was given yet
(`Prefix`), and no Run of the session begins while a drain awaits recovery facts; the
latter is `Undisturbed`: no message asks to continue a Run, or neither requested turns
nor continuations happen. *Singular*: then one Run of a session is active at a time, so
that no two of them read the same queue, and what a Run has taken is claimed by it or
consumed (`TakenIsClaimed`), so no other Run finds it there. What a Run was given
without acknowledging it is outside this, and lawfully so: section 6. *Answered*: while the Agent is connected the
persist task always writes something, and so does startup.

### Delegation

`DelegationProof` assumes `DelegationConstants` (types of the constants) only, and its
four theorems hold for every `Env`, "window" included. None of the properties is
inductive, and they need each other; `Inv` has three parts.

- *Settlement* carries `RowsSound` and `SettledTruthfully`. A row that has a handle
  knows its worker's Run exactly when there is one, and a row that was applied is final
  (`Row`). Every Run belongs to an instance on record and every instance to a row
  (`Dispatched`), so that a handle which was lost is found again; an older attempt at a
  task is applied and no request has two rows (`Ordered`). A dispatch under way works
  on the last row, which nobody else touches, and `op.phase` says whether its instance
  and its Run exist (`Dispatcher`). The limit is about Runs, while admission counts
  handles: while the process is up the two differ by the one Run whose handle is about
  to be saved, for which there is room (`Parallel`). After a crash they may differ by
  more; but a restart interrupts every Run before anything is admitted.
- *Who was told* carries `ToldOnce`: a notice names the turn that carries it (`Told`), and
  the turn that a pass has claimed but not yet started is absent and named by nobody
  else (`Claiming`).
- *Halting* carries `StopMeansStopped`: while a board is stopped nothing holds the lock
  across an await, every notice is suppressed, and whatever worker or woken turn is
  running is still on the stop's lists. A pass and a collect under the stop must keep
  this, among them a report that would schedule a new check of a suppressed outcome.

What a collect computes is described once (`CollectRows`, `CollectKeeps`,
`CollectedItems`), and every action that saves one goes through `SavesCollected`. Other
actions fall into a few shapes, each with its lemma: workers only end (`Ceases`,
`Wanes`), rows and Runs stay (`Still`, `Aside`, `Tame`), notices keep what they name
(`Heard`), and under a stop nothing comes up (`Calm`).

### Sandbox commands

`SandboxProof` covers the commands of a Sandbox, for every set of commands and
captures and every number of stops, cancellations and crashes, from
`SandboxConstants` alone. `TypeCorrect` and `ReceiptsCorrect` hold for every
`Env`: a receipt that says "running" belongs to a command whose inner task is at
work, or to an operation whose own task has not ended (`ReceiptOwned`), and
`_run`, `_finish` and `recover` close it on every way out.

`CutCorrect` and `StoppedCorrect` assume that "late" is not in `Env` (with it, both
fail: section 6). Neither property is inductive. A
capture may begin as soon as no command is counted, so that one must know of
every process whose command has left the gate; and a stop confirms on what it has
joined, so that one must know what became of everything it has *not* joined. The
invariant `Inv` therefore has a part for the gate (`GateHeld`), one for each command
and one for each stop:

- `Sane`: the inner task is registered while it is at work and is cancelled only
  after the intent is journalled; a command whose clean-up is owed is registered,
  or past launching.
- `Survives`: the processes of a command that has ended are those of a failed back
  end; its error and its owed clean-up are on record, and no stop has collected
  its outer task, whose cancellation would hide the error. This is where "late"
  enters (`Drained`), and why `StopJoins` cannot settle the debt.
- `Covered`: a command that a confirmed stop has covered is past and has no
  processes; it cannot be launched again.
- `StopSane`: what a stop joins it has also journalled; what it writes without
  joining is the debt of a command that is past; and while the back end
  terminates, everything collected stays joined.

A step of one command leaves the others as bystanders (`Same`, `Awakened`), and a
step of a living process takes nothing back (`Later`), so that a stop which the
step does not touch stays sane (`StopKept`); only the actions of the stop itself,
the crash and the restart are looked at one by one.

### Summoning

`SummoningProof` assumes `SummoningConstants` (types of the constants) only.
`TypeCorrect` holds for every `Env`; it needs that a call of the sweep is about a
record which the sweep still has, and that a process which is down has no calls.

`TeardownCorrect` assumes that no teardowns of overlapping families run side by
side (with "overlap" it fails: section 6). What a teardown confirms concerns
instances that were being summoned when it began, so that `TeardownInv` speaks of
summons as well:

- *Nodes and rows.* Where no nodes are placed no Run is live or unwinding
  (`NodesInv`); a parent's row comes before its children's (`RowsInv`), so that one
  walk over the rows finds the whole family. A call that waits for the mutation lock
  knows only its own instance (`Empties`), and what it has read still says what the
  row says of `made`, `parent` and `reclaimed` (`Reading`). `FamilyFacts` states what `Family`, a
  recursive function, computes: its walk is built row by row up to the first one at
  which it could not be.
- *Pending.* While the mutation lock is held for a summon, the instance that is being
  summoned has no Run and the one it is summoned from is open (`PendingInv`): closing a
  family and deleting nodes need the same lock. Hence no row appears below a family.
- *Families.* The members are closed and their rows are what the teardown has copied;
  nothing is summoned below them but members; and a Run that has not settled on one of
  them is still on the list of what is to be joined (`FamilyInv`). Families of distinct
  teardowns are disjoint (`Disjoint`).
- *Sweep.* What `recover()` read at its start still describes the row, except that an
  earlier teardown may have reclaimed it (`SweepInv`): saving that reading over the row
  after a failure then reopens nothing.

A confirmation, or the part of it that is saved before a crash, reclaims only members
whose nodes the deletion has removed (`SavesKept`). Steps that save no member of a
family share `QuietKept`, `PendingKept` and `CallsKept`, from what they do to Runs
(`Stirs`), nodes (`Clears`) and rows (`KeepsRows`).

### Only model-checked

- All liveness: ENABLED and temporal reasoning under fairness are beyond the prover.
- The properties of `ClientSync` and its refinement of `ReplicatedWorld`: the canvas is
  a fold over the events received, and what a fold computes needs induction over data.

## 6 Disagreements between the code and its texts

These were met while modelling. Each is shown by one of the modules when the
configuration named here is changed; no passing run covers one up, for the
combination is the one that the run leaves out.

Runs:

- *SettledHoldsNothing with "watchdog"*: the watchdog leaves its plain
  `provider.stop` task in `_cleanup_tasks` (`manager.py:895`). When the stream
  then fails to close, a later `cancel_run` finds that finished task
  (`manager.py:603-607`), takes it for its own cleanup and reports success without
  releasing the slot. The Agent stays full until a restart.
  `docs/lifecycle-artifacts.md:38-39`: "Failures retain their reason and block
  fresh Agent admission until resolved".
- *StopReachesFamily with "watchdog"*: the same join also confirms a
  parent's stop without cancelling its children (`manager.py:607`, against
  `docs/lifecycle-artifacts.md:31-32`).
- *DeletedAgentIdle with "watchdog"*: so does the deletion of the Agent. Its
  cancellation of a Run whose watchdog has fired joins the finished stop task, and the
  Agent is removed while the coroutine of that Run is still there
  (`manager.py:603-607`, `manager.py:895`).
- A provider that reports `run_status` "waiting" and ends its stream leaves the
  Run waiting without a suspension (`ProviderWaits`; `manager.py:1006`, against
  `docs/runs.md:17-20`).

Background jobs:

- Two jobs and one remote identity: `attach()` looks for the identity in other
  rows before it awaits `provider.inspect`, and not again before it writes
  (`background_jobs.py:212-238`): two overlapping calls track the same remote work
  twice. `background_jobs.py:215`: "External work is already tracked". The second
  call on one uncertain job likewise replaces the identity that the first has
  recorded, although line 220 refuses to replace one.
- *WakeKept with two jobs, two user turns and "stop"*: a tick that waited for
  the mutation lock pauses a job on the row it had read before, although a live
  turn has asked to be woken meanwhile (`background_jobs.py:346-353`).

Deletion and deliveries:

- A Run that starts or ends between staging and recovery changes its Agent's
  card without the mutation lock (`runs/manager.py:1350`), and the start then
  refuses to restore the node (`services.py:1518-1524`); `RestorePossible`
  therefore speaks of edits only.
- *NoSecondRun, NoOvertaking with Continue and "continuation" or "handoff"*: while
  a drain awaits recovery facts (`services.py:2918`), ended background work or
  another Agent's request admits a Run in the same session; with a second slot both
  run, and the other one may answer a later message first (`docs/runs.md:315`).
  *GivenOnce* fails in the same way, with three Runs of drains and four messages
  (the third is the Continue): both Runs read the fourth at their model boundaries
  before either has claimed it.
- *NotReplayed*, in DeliverySafety as it is: the Codex runtime awaits `turn/steer`, which
  gives the text to the model, and only then acknowledges it (`runtime.py:218-228`).
  For a Run that became terminal in between the acknowledgement returns silently
  (`provider.py:593-596`): the message stays queued and the next Run of the session, on
  the same thread, is given it again. `docs/runs.md:322-325` asks adapters to
  acknowledge after giving, and `deliveries.py:133-134` says: "A terminal attempt other
  than restart interruption already consumed its input. Do not replay
  failed/cancelled/succeeded work." `GivenOnce` is therefore about what a Run has
  taken.
- *GivenOnce with "handoff"*, without any Continue: a requested turn asks only
  whether the target is active earlier in the caller's own lineage
  (`services.py:3025-3047`), not whether it already has a Run in the session, and is
  admitted beside that Run when there is a second slot. Both take the same message in.
- *NoneStranded with Continue and "direct"*: a Run outside conversations takes
  the slot during that await; the drain requeues and fails without a waiter
  (`services.py:2936`).
- *NoneStranded with "pause"*: a refusal for a paused team leaves no waiter, and
  resuming drains nobody (`services.py:2894-2895`, `docs/runs.md:317-318`). So does
  an Agent that was disconnected and is connected again (*"revoke"*).
- *ClaimOwned with "handoff"*: a turn that another Agent requested claims user
  messages at its model boundaries, but nothing settles them when it ends
  (`services.py:3043`).
- *AnswerVisible with "revoke"*: an Agent disconnected before its answer is
  persisted consumes the message without an entry (`services.py:3392-3407`,
  against the comment at 3378-3382).

Delegation:

- *ObservedWasReturned with "window"*, one request, two user turns: `collect` reads
  its result in one transaction and marks in a second one, as observed, whatever is
  applied by then (`node_delegation.py:193-208`). An outcome that the loop applies
  between the two is not in the result and wakes nobody, against
  `node_delegation.py:232`: "Unobserved completed tasks wake the coordinator after its
  turn ends." A later collect still returns it. `OutcomesReachCoordinator` takes the
  mark at its word.
- *OutcomesReachCoordinator with "unadmitted"*, two tasks and two user turns: the stop of one
  instance suppresses every attempt and deferred wake-up whose `source_run_id` equals
  the attempt's `run_id` (`node_delegation.py:339-341`). When the Run of the stopped
  instance was refused, or the process died before it was admitted, both are None for
  every attempt, none of which has a `source_run_id`, and for every wake-up that the
  coordinator deferred (these are not modelled): the whole board is silenced, against the sentence of
  `node_delegation.py:232` quoted above.
- Two stops of one board side by side: the first that returns clears the mark
  that refuses new work. A stop that meets a notice whose Run was never admitted
  fails (`StopFails`).

Summoning:

- *TeardownSound with "overlap"*: teardowns of a parent and of its child hold
  different cleanup locks and write their own copies of the records. The one
  that confirms first opens the admission of the child while the other is still
  under way, whose confirmation is then false, and may overwrite `reclaimed`
  (`summoning.py:51-101`, against `docs/lifecycle-artifacts.md:51-52`: "It closes
  Run, command and transfer admission for that family").
- A teardown saves the row of its instance as it was read before it waited for the
  mutation lock (`summoning.py:53-66`): an attempt that joined meanwhile is struck from
  the record. Its Run is still stopped with the Agent's other Runs
  (`summoning.py:75-77`), so that `TeardownSound` holds.
- A caller that is cancelled during placement leaves copies on the canvas that
  no record names: `except Exception` at `summoning.py:355` does not meet a
  cancellation (`SummonDropped`).
- A crash between the two saves of a confirmation can leave a reclaimed member
  "pending" for ever, for recovery returns early (`summoning.py:54-55`);
  `CleanupSettles` therefore exempts reclaimed instances. A "stop" of a child
  whose family is half reclaimed opens a record whose nodes are gone.

Sandbox commands:

- *StoppedStaysStopped, CutIsStable with "late"*: a stop of one command that has
  collected the outer task, while the inner one registers and launches afterwards,
  confirms the termination although the back end failed to end the processes: the
  outer task ends as cancelled, and its error is not raised (`history.py:141-153`).
  A capture may then begin beside these processes, with no debt on record.
- A command whose caller is cancelled in the very tick in which it ended gets its
  clean-up marked "pending" although nothing runs (`execution.py:100-106`).

Client:

- *CatchesUp without its exemption* (`SnapshotArrives` in `ClientSync`): a refresh
  that was overtaken twice gives up and reports "online" (`worldStore.ts:557-565`),
  against `docs/architecture.md:95` and `docs/canvas-control.md:147`. The canvas is
  then behind until the next gap.
- *ShowsTheWorld with "overtake"*: `initialize` awaits three requests and replaces
  the cards wholesale, so that a first load which lands after a newer refresh takes
  the canvas back; and a late reply to the client's own creation, after a
  reconnect, shows a card again that was deleted meanwhile.

## 7 What is not covered

- Parsing, files, processes, archives, operating-system back ends and plugin
  code: data transformation or pure input and output. They are the bulk of the
  repository's lines.
- Idempotent API mutations: look-up, mutation and stored answer are one immediate
  transaction, which is one atomic step at the granularity of the models.
- Executions that a plugin runs in place, tool receipts, artifacts and relocation
  of a Sandbox's directory: mostly steps of one transaction or of the file system.
- Wording, pages, views, hosting and deployment.
- Crashes between two database writes of one handler of the run manager that no
  yield separates; SQLite transactions are atomic everywhere.
- More than one process on one database: the program does not support it.

## 8 Plan

The modules planned for the coordination core exist. What would add most next:

1. Proofs: `ShowsTheWorld` of ClientSync, for which the fold over a burst would have to
   become a recursive function that a walk like `FamilyFacts` describes.
2. Compositions: deliveries, delegation and summoning over the full run manager
   instead of their reductions; deletion of an Agent over the run manager's
   reservation.
3. Modules: relocation of a Sandbox, recovery of artifacts, and the idempotent
   creation of conversation sessions as a refinement of a single execution.
