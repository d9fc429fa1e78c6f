-------------------------- MODULE RunManagerProof --------------------------
(* What RunManager guarantees for every forest of runs, every capacity and *)
(* every combination of environment behaviours.                            *)
EXTENDS RunManager, FiniteSetTheorems, TLAPS

USE RunConstants DEF Terminal, Ledger!Terminal, Debt, Unbegun, InLoop, Closing, Closed, Cleaning

LEMMA TypeInit == Init => TypeOK
    BY DEF Init, TypeOK, Ledger!RunStatus, Ledger!Live

LEMMA SignalledType ==
    ASSUME NEW t \in {"none"} \union Unbegun \union InLoop \union Closing \union Closed
    PROVE  /\ Signalled(t) \in {"none"} \union Unbegun \union InLoop \union Closing \union Closed
           /\ Signalled(t) = "none" <=> t = "none"
    BY DEF Signalled

LEMMA TypeRunStep ==
    ASSUME TypeOK, NEW r \in Run, RunStep(r)
    PROVE  TypeOK'
<1> USE DEF TypeOK, Ledger!RunStatus, Ledger!Live, durable, cancelling, agents
<1>1. CASE StartRun(r) BY <1>1 DEF StartRun
<1>2. CASE StartRunAborts(r) BY <1>2 DEF StartRunAborts
<1>3. CASE SuspendRun(r, TRUE) BY <1>3 DEF SuspendRun
<1>3a. CASE SuspendRun(r, FALSE) BY <1>3a DEF SuspendRun
<1>4. CASE ResumeRun(r) BY <1>4 DEF ResumeRun, Resume
<1>4a. CASE ExecuteBegins(r) BY <1>4a DEF ExecuteBegins
<1>4b. CASE TaskDropped(r) BY <1>4b DEF TaskDropped, ReleaseSettled
<1>5. CASE ProviderFinishes(r) BY <1>5 DEF ProviderFinishes, ReleaseSettled
<1>6. CASE ProviderWaits(r) BY <1>6 DEF ProviderWaits
<1>7. CASE ProviderResumes(r) BY <1>7 DEF ProviderResumes, Resume
<1>8. CASE StreamStops(r) BY <1>8 DEF StreamStops
<1>9. CASE WatchdogFires(r) BY <1>9 DEF WatchdogFires
<1>10. CASE WatchdogStopEnds(r) BY <1>10 DEF WatchdogStopEnds
<1>11. CASE WatchdogReturns(r) BY <1>11 DEF WatchdogReturns
<1>12. CASE StreamCloses(r) BY <1>12 DEF StreamCloses, Shut
<1>13. CASE StreamCloseFails(r) BY <1>13 DEF StreamCloseFails
<1>14. CASE ExecutionFinished(r) BY <1>14 DEF ExecutionFinished, FinalStatus, ReleaseSettled
<1> QED BY <1>1, <1>2, <1>3, <1>3a, <1>4, <1>4a, <1>4b, <1>5, <1>6, <1>7, <1>8, <1>9, <1>10, <1>11, <1>12,
           <1>13, <1>14, RunStep(r) DEF RunStep

LEMMA TypeCancelRun ==
    ASSUME TypeOK, NEW r \in Run, NEW who \in Run \union Agent \union {None},
           CancelRun(r, who), UNCHANGED purge
    PROVE  TypeOK'
<1> USE DEF TypeOK, Ledger!RunStatus, Ledger!Live
<1>1. CASE RevokeFinished(r, who) BY <1>1 DEF CancelRun, RevokeFinished
<1>2. CASE StopRun(r, who) BY <1>2 DEF CancelRun, StopRun, StopOrigin, Signalled
<1> QED BY <1>1, <1>2 DEF CancelRun

LEMMA TypeCancelReturns ==
    ASSUME TypeOK, NEW r \in Run, CancelReturns(r)
    PROVE  TypeOK'
<1> USE DEF CancelReturns, TypeOK
<1>1. /\ todo' \in [Run -> SUBSET Run]
      /\ cleaner' \in [Run -> {"none", "stop", "stopped", "stopfail", "ok", "failed"} \union Cleaning]
      /\ cleanup' \in [Run -> {"none", "complete", "uncertain"} \union Debt]
      /\ canceller' \in [Run -> {"idle", "join", "tidy", "children", "wait", "ok", "error"}]
    OBVIOUS
<1>2. /\ purge' \in [Agent -> SUBSET Run]
      /\ agentState' \in [Agent -> {"live", "reserved", "removing", "failing", "gone"}]
    OBVIOUS
<1>3. answer' \in [Run -> {"none", "ok", "error"}] /\ by' \in [Run -> Run \union Agent \union {None}]
    OBVIOUS
<1> QED BY <1>1, <1>2, <1>3

LEMMA TypeCancelStep ==
    ASSUME TypeOK, NEW r \in Run, CancelStep(r)
    PROVE  TypeOK'
<1> USE DEF TypeOK, durable, cancelling, agents
<1>1. CASE UserCancels(r) BY <1>1, TypeCancelRun DEF UserCancels
<1>2. CASE \E c \in Run : PropagateCancel(r, c) BY <1>2, TypeCancelRun DEF PropagateCancel
<1>0. Children(r) \subseteq Run BY DEF Children
<1>3. CASE CleanupStarts(r) BY <1>0, <1>3 DEF CleanupStarts
<1>4. CASE CleanupStops(r) BY <1>4 DEF CleanupStops
<1>5. CASE CleanupFails(r) BY <1>5 DEF CleanupFails
<1>6. CASE CleanupJoins(r) BY <1>6 DEF CleanupJoins, Verdict, ReleaseSettled
<1>7. CASE JoinSucceeds(r) BY <1>7 DEF JoinSucceeds, Verdict
<1>8. CASE JoinFails(r) BY <1>8 DEF JoinFails
<1>9. CASE JoinTimesOut(r) BY <1>9 DEF JoinTimesOut
<1>10. CASE TailJoined(r) BY <1>10 DEF TailJoined
<1>11. CASE ProcessesCleaned(r)
    <2>1. todo' \in [Run -> SUBSET Run] BY <1>0, <1>11 DEF ProcessesCleaned
    <2>2. canceller' \in [Run -> {"idle", "join", "tidy", "children", "wait", "ok", "error"}]
        BY <1>11 DEF ProcessesCleaned
    <2> QED BY <1>11, <2>1, <2>2 DEF ProcessesCleaned
<1>12. CASE ChildrenRevoked(r) BY <1>12 DEF ChildrenRevoked
<1>13. CASE CancelReturns(r) BY <1>13, TypeCancelReturns
<1>14. CASE ShutdownKills(r) BY <1>14 DEF ShutdownKills, Signalled
<1> QED BY <1>1, <1>2, <1>3, <1>4, <1>5, <1>6, <1>7, <1>8, <1>9, <1>10, <1>11, <1>12,
           <1>13, <1>14, CancelStep(r) DEF CancelStep

LEMMA TypeAgentStep ==
    ASSUME TypeOK, NEW a \in Agent, AgentStep(a)
    PROVE  TypeOK'
<1> USE DEF TypeOK, durable, cancelling
<1>1. CASE ReserveAgentDeletion(a) BY <1>1 DEF ReserveAgentDeletion
<1>2. CASE ReleaseAgentDeletion(a) BY <1>2 DEF ReleaseAgentDeletion
<1>3. CASE DeleteAgentBegins(a) BY <1>3 DEF DeleteAgentBegins, PurgeSet, RunsOf
<1>4. CASE DeleteAgentEnds(a) BY <1>4 DEF DeleteAgentEnds
<1>5. CASE \E r \in Run : PurgeRun(a, r) BY <1>5, TypeCancelRun DEF PurgeRun
<1> QED BY <1>1, <1>2, <1>3, <1>4, <1>5, AgentStep(a) DEF AgentStep

LEMMA TypeNext == TypeOK /\ [Next]_vars => TypeOK'
<1> SUFFICES ASSUME TypeOK, [Next]_vars PROVE TypeOK'
    OBVIOUS
<1>1. CASE \E r \in Run : RunStep(r) \/ CancelStep(r) BY <1>1, TypeRunStep, TypeCancelStep
<1>2. CASE \E a \in Agent : AgentStep(a) BY <1>2, TypeAgentStep
<1>3. CASE BeginShutdown BY <1>3 DEF BeginShutdown, TypeOK, durable, cancelling
<1>4. CASE Restart BY <1>4 DEF Restart, TypeOK, Ledger!RunStatus, Ledger!Live
<1>5. CASE UNCHANGED vars BY <1>5 DEF vars, TypeOK, durable, cancelling, agents
<1> QED BY <1>1, <1>2, <1>3, <1>4, <1>5 DEF Next

\* Every reachable state is well typed: the statuses, cleanup marks and phases
\* of runs.manager never leave their ranges.
THEOREM TypeCorrect == Spec => []TypeOK
    BY TypeInit, TypeNext, PTL DEF Spec

-----------------------------------------------------------------------------
(* A coroutine holds its slot.                                             *)

LEMMA SlotRunStep ==
    ASSUME TypeOK, ExecutionHoldsSlot, NEW r \in Run, RunStep(r)
    PROVE  ExecutionHoldsSlot'
<1> USE DEF TypeOK, ExecutionHoldsSlot
<1>1. CASE StartRun(r) BY <1>1 DEF StartRun
<1>2. CASE StartRunAborts(r) BY <1>2 DEF StartRunAborts
<1>3. CASE SuspendRun(r, TRUE) BY <1>3 DEF SuspendRun
<1>4. CASE SuspendRun(r, FALSE) BY <1>4 DEF SuspendRun
<1>5. CASE ResumeRun(r) BY <1>5 DEF ResumeRun, Resume
<1>6. CASE ExecuteBegins(r) BY <1>6 DEF ExecuteBegins
<1>7. CASE TaskDropped(r) BY <1>7 DEF TaskDropped, ReleaseSettled
<1>8. CASE ProviderFinishes(r) BY <1>8 DEF ProviderFinishes, ReleaseSettled
<1>9. CASE ProviderWaits(r) BY <1>9 DEF ProviderWaits
<1>10. CASE ProviderResumes(r) BY <1>10 DEF ProviderResumes, Resume
<1>11. CASE StreamStops(r) BY <1>11 DEF StreamStops
<1>12. CASE WatchdogFires(r) BY <1>12 DEF WatchdogFires
<1>13. CASE WatchdogStopEnds(r) BY <1>13 DEF WatchdogStopEnds
<1>14. CASE WatchdogReturns(r) BY <1>14 DEF WatchdogReturns
<1>15. CASE StreamCloses(r) BY <1>15 DEF StreamCloses
<1>16. CASE StreamCloseFails(r) BY <1>16 DEF StreamCloseFails
<1>17. CASE ExecutionFinished(r) BY <1>17 DEF ExecutionFinished, ReleaseSettled
<1> QED BY <1>1, <1>2, <1>3, <1>4, <1>5, <1>6, <1>7, <1>8, <1>9, <1>10, <1>11, <1>12, <1>13,
           <1>14, <1>15, <1>16, <1>17, RunStep(r) DEF RunStep

\* Cancelling touches a coroutine only by signalling it, and frees a slot only
\* when the coroutine is gone.
LEMMA CancelSlot ==
    ASSUME TypeOK, NEW r \in Run,
           \/ CancelStep(r)
           \/ \E a \in Agent : AgentStep(a)
    PROVE  /\ \/ task' = task
              \/ \E q \in Run : task' = [task EXCEPT ![q] = Signalled(@)]
           /\ occupied' \subseteq occupied
           /\ \A q \in occupied : q \notin occupied' => task'[q] = "none"
           /\ yielded' = yielded
<1> USE DEF agents
<1>1. ASSUME NEW q \in Run, NEW who, CancelRun(q, who)
      PROVE  /\ task' = task \/ task' = [task EXCEPT ![q] = Signalled(@)]
             /\ occupied' = occupied /\ yielded' = yielded
    BY <1>1 DEF CancelRun, RevokeFinished, StopRun
<1>2. CASE UserCancels(r) BY <1>1, <1>2 DEF UserCancels
<1>3. CASE \E c \in Run : PropagateCancel(r, c) BY <1>1, <1>3 DEF PropagateCancel
<1>4. CASE CleanupStarts(r) BY <1>4 DEF CleanupStarts
<1>5. CASE CleanupStops(r) BY <1>5 DEF CleanupStops
<1>6. CASE CleanupFails(r) BY <1>6 DEF CleanupFails
<1>7. CASE CleanupJoins(r) BY <1>7 DEF CleanupJoins, ReleaseSettled, TypeOK
<1>8. CASE JoinSucceeds(r) BY <1>8 DEF JoinSucceeds
<1>9. CASE JoinFails(r) BY <1>9 DEF JoinFails
<1>10. CASE JoinTimesOut(r) BY <1>10 DEF JoinTimesOut
<1>11. CASE TailJoined(r) BY <1>11 DEF TailJoined
<1>12. CASE ProcessesCleaned(r) BY <1>12 DEF ProcessesCleaned
<1>13. CASE ChildrenRevoked(r) BY <1>13 DEF ChildrenRevoked
<1>14. CASE CancelReturns(r) BY <1>14 DEF CancelReturns
<1>15. CASE ShutdownKills(r) BY <1>15 DEF ShutdownKills
<1>16. ASSUME NEW a \in Agent, AgentStep(a)
       PROVE  /\ \/ task' = task
                 \/ \E q \in Run : task' = [task EXCEPT ![q] = Signalled(@)]
              /\ occupied' = occupied /\ yielded' = yielded
    BY <1>1, <1>16 DEF AgentStep, ReserveAgentDeletion, ReleaseAgentDeletion, DeleteAgentBegins,
       DeleteAgentEnds, PurgeRun
<1> QED BY <1>2, <1>3, <1>4, <1>5, <1>6, <1>7, <1>8, <1>9, <1>10, <1>11, <1>12, <1>13, <1>14,
           <1>15, <1>16 DEF CancelStep

LEMMA SlotNext == TypeOK /\ ExecutionHoldsSlot /\ [Next]_vars => ExecutionHoldsSlot'
<1> SUFFICES ASSUME TypeOK, ExecutionHoldsSlot, [Next]_vars PROVE ExecutionHoldsSlot'
    OBVIOUS
<1>1. CASE \E r \in Run : RunStep(r) BY <1>1, SlotRunStep
<1>2. CASE \E r \in Run : CancelStep(r) \/ \E a \in Agent : AgentStep(a)
    BY <1>2, CancelSlot, SignalledType DEF ExecutionHoldsSlot, TypeOK
<1>3. CASE Run = {} BY <1>3 DEF ExecutionHoldsSlot
<1>4. CASE BeginShutdown BY <1>4 DEF BeginShutdown, ExecutionHoldsSlot
<1>5. CASE Restart BY <1>5 DEF Restart, ExecutionHoldsSlot
<1>6. CASE UNCHANGED vars BY <1>6 DEF vars, ExecutionHoldsSlot
<1> QED BY <1>1, <1>2, <1>3, <1>4, <1>5, <1>6 DEF Next

\* A provider coroutine that streams, closes its stream or unwinds has its
\* Agent's slot, unless a suspension gave it away: neither the terminal result
\* nor a cancellation, a failed cleanup or the watchdog frees it early.
THEOREM SlotCorrect == Spec => []ExecutionHoldsSlot
<1>1. Init => ExecutionHoldsSlot BY DEF Init, ExecutionHoldsSlot
<1> QED BY <1>1, SlotNext, TypeCorrect, PTL DEF Spec

-----------------------------------------------------------------------------
(* Capacity.                                                               *)

\* Every step either frees slots or takes one that its run already had or that
\* admission counted.
LEMMA SlotsTaken ==
    ASSUME TypeOK, [Next]_vars
    PROVE  \/ occupied' \subseteq occupied
           \/ \E r \in Run : /\ occupied' = occupied \union {r}
                             /\ r \in occupied \/ HasCapacity(AgentOf[r])
<1>1. ASSUME NEW r \in Run, RunStep(r)
      PROVE  \/ occupied' \subseteq occupied
             \/ /\ occupied' = occupied \union {r}
                /\ r \in occupied \/ HasCapacity(AgentOf[r])
    <2>1. CASE StartRun(r) BY <2>1 DEF StartRun, CanStart
    <2>2. CASE StartRunAborts(r) BY <2>2 DEF StartRunAborts, CanStart
    <2>3. CASE SuspendRun(r, TRUE) \/ SuspendRun(r, FALSE) BY <2>3 DEF SuspendRun
    <2>4. CASE ResumeRun(r) \/ ProviderResumes(r)
        BY <2>4 DEF ResumeRun, ProviderResumes, Resume, CanResume
    <2>5. CASE ExecuteBegins(r) \/ ProviderWaits(r) \/ StreamStops(r) \/ WatchdogFires(r)
               \/ WatchdogStopEnds(r) \/ WatchdogReturns(r) \/ StreamCloses(r) \/ StreamCloseFails(r)
        BY <2>5 DEF ExecuteBegins, ProviderWaits, StreamStops, WatchdogFires, WatchdogStopEnds,
           WatchdogReturns, StreamCloses, StreamCloseFails
    <2>6. CASE TaskDropped(r) \/ ProviderFinishes(r) \/ ExecutionFinished(r)
        <3>1. ReleaseSettled(r) BY <2>6 DEF TaskDropped, ProviderFinishes, ExecutionFinished
        <3> QED BY <3>1 DEF ReleaseSettled
    <2> QED BY <1>1, <2>1, <2>2, <2>3, <2>4, <2>5, <2>6 DEF RunStep
<1>2. CASE \E r \in Run : CancelStep(r) BY <1>2, CancelSlot
<1>3. CASE \E a \in Agent : AgentStep(a)
    <2>1. ASSUME NEW a \in Agent, NEW r \in Run, PurgeRun(a, r) PROVE occupied' = occupied
        BY <2>1 DEF PurgeRun, CancelRun, RevokeFinished, StopRun
    <2> QED BY <1>3, <2>1 DEF AgentStep, ReserveAgentDeletion, ReleaseAgentDeletion,
               DeleteAgentBegins, DeleteAgentEnds
<1>4. CASE BeginShutdown BY <1>4 DEF BeginShutdown
<1>5. CASE Restart BY <1>5 DEF Restart
<1>6. CASE UNCHANGED vars BY <1>6 DEF vars
<1> QED BY <1>1, <1>2, <1>3, <1>4, <1>5, <1>6 DEF Next

LEMMA SlotsFinite ==
    ASSUME NEW S \in SUBSET Run, NEW a \in Agent
    PROVE  /\ IsFiniteSet(S \intersect RunsOf(a))
           /\ Cardinality(S \intersect RunsOf(a)) \in Nat
    BY FS_Subset, FS_CardinalityType DEF RunsOf

LEMMA CapacityNext == TypeOK /\ CapacityRespected /\ [Next]_vars => CapacityRespected'
<1> SUFFICES ASSUME TypeOK, CapacityRespected, [Next]_vars, NEW a \in Agent
             PROVE  Cardinality(occupied' \intersect RunsOf(a)) <= Limit[a]
    BY DEF CapacityRespected, RunsOf
<1> DEFINE Had == occupied \intersect RunsOf(a)
           Has == occupied' \intersect RunsOf(a)
<1>1. TypeOK' BY TypeNext
<1>2. /\ IsFiniteSet(Had) /\ Cardinality(Had) \in Nat
      /\ Cardinality(Has) \in Nat /\ Limit[a] \in Nat
    BY <1>1, SlotsFinite DEF TypeOK
<1>3. Cardinality(Had) <= Limit[a] BY DEF CapacityRespected
<1>4. CASE Has \subseteq Had
    <2>1. Cardinality(Has) <= Cardinality(Had) BY <1>2, <1>4, FS_Subset
    <2> QED BY <1>2, <1>3, <2>1
<1>5. ASSUME NEW r \in Run, occupied' = occupied \union {r}, HasCapacity(AgentOf[r])
      PROVE  Has \subseteq Had \/ Cardinality(Has) <= Limit[a]
    <2>1. CASE AgentOf[r] # a BY <1>5, <2>1 DEF RunsOf
    <2>2. CASE AgentOf[r] = a
        <3>1. Has = Had \union {r} BY <1>5, <2>2 DEF RunsOf
        <3>2. Cardinality(Had) < Limit[a] BY <1>5, <2>2 DEF HasCapacity
        <3>3. Cardinality(Has) \in {Cardinality(Had), Cardinality(Had) + 1}
            BY <1>2, <3>1, FS_AddElement
        <3> QED BY <1>2, <3>2, <3>3
    <2> QED BY <2>1, <2>2
<1>6. occupied' \subseteq occupied => Has \subseteq Had
    OBVIOUS
<1>7. \A r \in occupied : occupied' = occupied \union {r} => Has \subseteq Had
    OBVIOUS
<1> QED BY <1>4, <1>5, <1>6, <1>7, SlotsTaken

\* max_concurrent_runs holds for every Agent whatever the interleaving of
\* starts, resumptions, suspensions, cancellations and restarts.
THEOREM CapacityCorrect == Spec => []CapacityRespected
<1>1. Init => CapacityRespected
    <2> SUFFICES ASSUME Init, NEW a \in Agent PROVE Cardinality(occupied \intersect RunsOf(a)) <= Limit[a]
        BY DEF CapacityRespected
    <2>1. occupied \intersect RunsOf(a) = {} BY DEF Init
    <2>2. Cardinality({}) = 0 BY FS_EmptySet
    <2>3. Limit[a] \in Nat OBVIOUS
    <2> QED BY <2>1, <2>2, <2>3
<1> QED BY <1>1, CapacityNext, TypeCorrect, PTL DEF Spec

-----------------------------------------------------------------------------
(* The ledger.                                                             *)

\* A coroutine exists only for a run that start_run has moved on: without this
\* the end of a coroutine could move a run straight from "created" to "failed".
BegunRuns ==
    \A r \in Run : task[r] # "none" => status[r] \notin {"absent", "created"}

LEMMA BegunRunStep ==
    ASSUME TypeOK, BegunRuns, NEW r \in Run, RunStep(r)
    PROVE  BegunRuns'
<1> USE DEF TypeOK, BegunRuns, durable, Ledger!RunStatus, Ledger!Live
<1>1. CASE StartRun(r) \/ StartRunAborts(r) BY <1>1 DEF StartRun, StartRunAborts, CanStart
<1>2. CASE SuspendRun(r, TRUE) \/ SuspendRun(r, FALSE) BY <1>2 DEF SuspendRun
<1>3. CASE ResumeRun(r) \/ ProviderResumes(r) BY <1>3 DEF ResumeRun, ProviderResumes, Resume
<1>4. CASE ExecuteBegins(r) BY <1>4 DEF ExecuteBegins
<1>5. CASE TaskDropped(r) BY <1>5 DEF TaskDropped
<1>6. CASE ProviderFinishes(r)
    <2>1. PICK s \in Terminal : status' = [status EXCEPT ![r] = s] BY <1>6 DEF ProviderFinishes
    <2>2. task' = [task EXCEPT ![r] = "ending"] BY <1>6 DEF ProviderFinishes
    <2>3. task[r] # "none" BY <1>6 DEF ProviderFinishes
    <2> QED BY <2>1, <2>2, <2>3
<1>7. CASE ProviderWaits(r) BY <1>7 DEF ProviderWaits
<1>8. CASE StreamStops(r) BY <1>8 DEF StreamStops
<1>9. CASE WatchdogFires(r) BY <1>9 DEF WatchdogFires
<1>10. CASE WatchdogStopEnds(r) \/ WatchdogReturns(r) BY <1>10 DEF WatchdogStopEnds, WatchdogReturns
<1>11. CASE StreamCloses(r) BY <1>11 DEF StreamCloses
<1>11a. CASE StreamCloseFails(r) BY <1>11a DEF StreamCloseFails
<1>12. CASE ExecutionFinished(r) BY <1>12 DEF ExecutionFinished
<1> QED BY <1>1, <1>2, <1>3, <1>4, <1>5, <1>6, <1>7, <1>8, <1>9, <1>10, <1>11, <1>11a,
           <1>12, RunStep(r) DEF RunStep

\* What a cancellation step does to the ledger: at most one live run is
\* cancelled.
LEMMA CancelStatus ==
    ASSUME TypeOK, NEW r \in Run,
           \/ CancelStep(r)
           \/ \E a \in Agent : AgentStep(a)
    PROVE  \/ status' = status
           \/ \E q \in Run : /\ status[q] \in Ledger!Live
                             /\ status' = [status EXCEPT ![q] = "cancelled"]
<1> USE DEF agents, durable
<1>1. ASSUME NEW q \in Run, NEW who, CancelRun(q, who)
      PROVE  \/ status' = status
             \/ /\ status[q] \in Ledger!Live
                /\ status' = [status EXCEPT ![q] = "cancelled"]
    <2>1. CASE RevokeFinished(q, who) BY <2>1 DEF RevokeFinished
    <2>2. CASE StopRun(q, who) /\ status[q] \in Terminal BY <2>2 DEF StopRun, TypeOK
    <2>3. CASE StopRun(q, who) /\ status[q] \notin Terminal
        <3>0. status[q] # "absent" /\ status[q] \in Ledger!RunStatus
            BY <1>1 DEF CancelRun, TypeOK
        <3>1. status[q] \in Ledger!Live BY <2>3, <3>0 DEF Ledger!RunStatus
        <3> QED BY <2>3, <3>1 DEF StopRun
    <2> QED BY <1>1, <2>1, <2>2, <2>3 DEF CancelRun
<1>2. CASE UserCancels(r) BY <1>1, <1>2 DEF UserCancels
<1>3. CASE \E c \in Run : PropagateCancel(r, c) BY <1>1, <1>3 DEF PropagateCancel
<1>4. CASE CleanupStarts(r) \/ CleanupStops(r) \/ CleanupFails(r) \/ CleanupJoins(r)
    BY <1>4 DEF CleanupStarts, CleanupStops, CleanupFails, CleanupJoins
<1>5. CASE JoinSucceeds(r) \/ JoinFails(r) \/ JoinTimesOut(r)
    BY <1>5 DEF JoinSucceeds, JoinFails, JoinTimesOut
<1>6. CASE TailJoined(r) \/ ProcessesCleaned(r) \/ ChildrenRevoked(r) \/ CancelReturns(r)
    BY <1>6 DEF TailJoined, ProcessesCleaned, ChildrenRevoked, CancelReturns
<1>7. CASE ShutdownKills(r) BY <1>7 DEF ShutdownKills
<1>8. ASSUME NEW a \in Agent, AgentStep(a)
      PROVE  \/ status' = status
             \/ \E q \in Run : /\ status[q] \in Ledger!Live
                               /\ status' = [status EXCEPT ![q] = "cancelled"]
    BY <1>1, <1>8 DEF AgentStep, ReserveAgentDeletion, ReleaseAgentDeletion, DeleteAgentBegins,
       DeleteAgentEnds, PurgeRun
<1> QED BY <1>2, <1>3, <1>4, <1>5, <1>6, <1>7, <1>8 DEF CancelStep

LEMMA BegunNext == TypeOK /\ BegunRuns /\ [Next]_vars => BegunRuns'
<1> SUFFICES ASSUME TypeOK, BegunRuns, [Next]_vars PROVE BegunRuns'
    OBVIOUS
<1>1. CASE \E r \in Run : RunStep(r) BY <1>1, BegunRunStep
<1>2. ASSUME NEW r \in Run, CancelStep(r) \/ \E a \in Agent : AgentStep(a)
      PROVE  BegunRuns'
    <2>1. \A q \in Run : task'[q] # "none" => task[q] # "none"
        BY <1>2, CancelSlot, SignalledType DEF TypeOK
    <2>2. \A q \in Run : status'[q] = status[q] \/ status'[q] = "cancelled"
        BY <1>2, CancelStatus DEF TypeOK
    <2> QED BY <2>1, <2>2 DEF BegunRuns
<1>3. CASE Run = {} BY <1>3 DEF BegunRuns
<1>4. CASE BeginShutdown BY <1>4 DEF BeginShutdown, BegunRuns, durable
<1>5. CASE Restart BY <1>5 DEF Restart, BegunRuns
<1>6. CASE UNCHANGED vars BY <1>6 DEF vars, durable, BegunRuns
<1> QED BY <1>1, <1>2, <1>3, <1>4, <1>5, <1>6 DEF Next

LEMMA LedgerMoves ==
    ASSUME NEW r \in Run, NEW s,
           \/ status[r] = "created" /\ s = "cancelled"
           \/ status[r] = "running" /\ s \in {"waiting", "succeeded", "failed", "cancelled"}
           \/ status[r] = "waiting" /\ s \in {"running", "succeeded", "failed", "cancelled"},
           status' = [status EXCEPT ![r] = s]
    PROVE  Ledger!Move(r)
<1>1. s \in Ledger!ValidTransitions[status[r]] BY DEF Ledger!ValidTransitions
<1> QED BY <1>1 DEF Ledger!Move

LEMMA LedgerRunStep ==
    ASSUME TypeOK, BegunRuns, NEW r \in Run, RunStep(r)
    PROVE  Ledger!Begin(r) \/ Ledger!Move(r) \/ UNCHANGED status
<1> USE DEF durable
<1>0. ASSUME task[r] # "none" PROVE status[r] \in Terminal \union {"running", "waiting"}
    BY <1>0 DEF BegunRuns, TypeOK, Ledger!RunStatus, Ledger!Live
<1>1. ASSUME NEW s, status' = [status EXCEPT ![r] = s], s = status[r] PROVE UNCHANGED status
    BY <1>1 DEF TypeOK
<1>2. CASE StartRun(r) \/ StartRunAborts(r)
    BY <1>2 DEF StartRun, StartRunAborts, CanStart, Ledger!Begin
<1>3. CASE SuspendRun(r, TRUE) \/ SuspendRun(r, FALSE) BY <1>1, <1>3, LedgerMoves DEF SuspendRun
<1>4. CASE ResumeRun(r) \/ ProviderResumes(r)
    BY <1>4, LedgerMoves DEF ResumeRun, ProviderResumes, Resume, CanResume
<1>5. CASE ExecuteBegins(r) \/ TaskDropped(r) \/ StreamStops(r)
    BY <1>5 DEF ExecuteBegins, TaskDropped, StreamStops
<1>6. CASE ProviderFinishes(r)
    <2>1. PICK s \in Ledger!ValidTransitions[status[r]] : status' = [status EXCEPT ![r] = s]
        BY <1>6 DEF ProviderFinishes
    <2> QED BY <2>1 DEF Ledger!Move
<1>7. CASE ProviderWaits(r) BY <1>7, LedgerMoves DEF ProviderWaits
<1>8. CASE WatchdogFires(r)
    <2>1. task[r] # "none" /\ status' = [status EXCEPT ![r] = IF @ \in Terminal THEN @ ELSE "failed"]
        BY <1>8 DEF WatchdogFires
    <2> QED BY <1>0, <1>1, <2>1, LedgerMoves
<1>9. CASE WatchdogStopEnds(r) \/ WatchdogReturns(r) BY <1>9 DEF WatchdogStopEnds, WatchdogReturns
<1>10. CASE StreamCloses(r) \/ StreamCloseFails(r) BY <1>10 DEF StreamCloses, StreamCloseFails
<1>11. CASE ExecutionFinished(r)
    <2>1. task[r] # "none" /\ status' = [status EXCEPT ![r] = FinalStatus(r)]
        BY <1>11 DEF ExecutionFinished
    <2>2. \/ FinalStatus(r) = status[r]
          \/ status[r] \notin Terminal /\ FinalStatus(r) \in {"cancelled", "failed"}
        BY DEF FinalStatus
    <2> QED BY <1>0, <1>1, <2>1, <2>2, LedgerMoves
<1> QED BY <1>2, <1>3, <1>4, <1>5, <1>6, <1>7, <1>8, <1>9, <1>10, <1>11, RunStep(r) DEF RunStep

LEMMA LedgerStep ==
    TypeOK /\ BegunRuns /\ [Next]_vars => [Ledger!Next]_status
<1> SUFFICES ASSUME TypeOK, BegunRuns, [Next]_vars PROVE Ledger!Next \/ UNCHANGED status
    OBVIOUS
<1>1. CASE \E r \in Run : RunStep(r) BY <1>1, LedgerRunStep DEF Ledger!Next
<1>2. ASSUME NEW r \in Run, CancelStep(r) \/ \E a \in Agent : AgentStep(a)
      PROVE  Ledger!Next \/ UNCHANGED status
    <2>1. ASSUME NEW q \in Run, status[q] \in Ledger!Live,
                 status' = [status EXCEPT ![q] = "cancelled"]
          PROVE  Ledger!Move(q)
        BY <2>1, LedgerMoves DEF Ledger!Live
    <2> QED BY <1>2, <2>1, CancelStatus DEF Ledger!Next
<1>3. CASE Run = {} /\ \E a \in Agent : AgentStep(a)
    BY <1>3 DEF AgentStep, ReserveAgentDeletion, ReleaseAgentDeletion, DeleteAgentBegins,
       DeleteAgentEnds, durable
<1>4. CASE BeginShutdown BY <1>4 DEF BeginShutdown, durable
<1>5. CASE Restart BY <1>5 DEF Restart, Ledger!Next, Ledger!Interrupt
<1>6. CASE UNCHANGED vars BY <1>6 DEF vars, durable
<1> QED BY <1>1, <1>2, <1>3, <1>4, <1>5, <1>6 DEF Next

\* Every interleaving of the manager is an execution of the Run ledger: no
\* transition outside the table, no terminal run reopened, and "interrupted"
\* only when the manager starts again.
THEOREM LedgerImplemented == Spec => LedgerSpec
<1>1. Init => BegunRuns BY DEF Init, BegunRuns
<1>2. Spec => []BegunRuns BY <1>1, BegunNext, TypeCorrect, PTL DEF Spec
<1>3. Init => Ledger!Init BY DEF Init, Ledger!Init
<1> QED BY <1>2, <1>3, LedgerStep, TypeCorrect, PTL DEF Spec, LedgerSpec, Ledger!Spec

-----------------------------------------------------------------------------
(* Lost sessions.                                                          *)

\* Nothing is kept for a run id before its row exists, ...
NoRow ==
    \A r \in Run : status[r] = "absent" =>
        /\ cleanup[r] = "none" /\ execution[r] = "none" /\ ~lost[r]
        /\ task[r] = "none" /\ cleaner[r] = "none" /\ canceller[r] = "idle"

\* ... and a run whose session was lost has no coroutine that could report it
\* as cleaned up.
LostIdle == \A r \in Run : lost[r] => task[r] = "none" /\ cleanup[r] # "complete"

LostInv == NoRow /\ LostIdle

LEMMA LostRunStep ==
    ASSUME TypeOK, LostInv, NEW r \in Run, RunStep(r)
    PROVE  LostInv'
<1> USE DEF TypeOK, LostInv, NoRow, LostIdle, durable, cancelling
<1>1. CASE StartRun(r) BY <1>1 DEF StartRun, CanStart
<1>2. CASE StartRunAborts(r) BY <1>2 DEF StartRunAborts, CanStart
<1>3. CASE SuspendRun(r, TRUE) BY <1>3 DEF SuspendRun
<1>4. CASE SuspendRun(r, FALSE) BY <1>4 DEF SuspendRun
<1>5. CASE ResumeRun(r) BY <1>5 DEF ResumeRun, Resume, CanResume
<1>6. CASE ProviderResumes(r) BY <1>6 DEF ProviderResumes, Resume, CanResume
<1>7. CASE ExecuteBegins(r) BY <1>7 DEF ExecuteBegins
<1>8. CASE TaskDropped(r) BY <1>8 DEF TaskDropped
<1>9. CASE ProviderFinishes(r)
    <2>1. PICK s \in Terminal : status' = [status EXCEPT ![r] = s] BY <1>9 DEF ProviderFinishes
    <2>2. /\ task[r] = "streaming" /\ task' = [task EXCEPT ![r] = "ending"]
          /\ UNCHANGED <<cleanup, execution, lost, cleaner, canceller>>
        BY <1>9 DEF ProviderFinishes
    <2> QED BY <2>1, <2>2
<1>10. CASE ProviderWaits(r) BY <1>10 DEF ProviderWaits
<1>11. CASE StreamStops(r) BY <1>11 DEF StreamStops
<1>12. CASE WatchdogFires(r) BY <1>12 DEF WatchdogFires
<1>13. CASE WatchdogStopEnds(r) BY <1>13 DEF WatchdogStopEnds
<1>14. CASE WatchdogReturns(r) BY <1>14 DEF WatchdogReturns
<1>15. CASE StreamCloses(r) BY <1>15 DEF StreamCloses
<1>16. CASE StreamCloseFails(r) BY <1>16 DEF StreamCloseFails
<1>17. CASE ExecutionFinished(r)
    <2>1. status' = [status EXCEPT ![r] = FinalStatus(r)] /\ task[r] # "none"
        BY <1>17 DEF ExecutionFinished
    <2>2. /\ task' = [task EXCEPT ![r] = "none"]
          /\ execution' = [execution EXCEPT ![r] = "finished"]
          /\ UNCHANGED <<cleanup, lost, cleaner, canceller>>
        BY <1>17 DEF ExecutionFinished
    <2>3. status[r] # "absent" => FinalStatus(r) # "absent" BY DEF FinalStatus
    <2> QED BY <2>1, <2>2, <2>3
<1> QED BY <1>1, <1>2, <1>3, <1>4, <1>5, <1>6, <1>7, <1>8, <1>9, <1>10, <1>11, <1>12, <1>13,
           <1>14, <1>15, <1>16, <1>17, RunStep(r) DEF RunStep

LEMMA LostCancelRun ==
    ASSUME TypeOK, LostInv, NEW r \in Run, NEW who, CancelRun(r, who)
    PROVE  LostInv'
<1> USE DEF TypeOK, LostInv, NoRow, LostIdle
<1>1. CASE RevokeFinished(r, who) BY <1>1 DEF CancelRun, RevokeFinished
<1>2. CASE StopRun(r, who)
    <2>1. Signalled(task[r]) = "none" <=> task[r] = "none" BY SignalledType
    <2> QED BY <1>2, <2>1 DEF CancelRun, StopRun
<1> QED BY <1>1, <1>2 DEF CancelRun

LEMMA LostCancelStep ==
    ASSUME TypeOK, LostInv, NEW r \in Run, CancelStep(r)
    PROVE  LostInv'
<1> USE DEF TypeOK, LostInv, NoRow, LostIdle, durable
<1>1. CASE UserCancels(r) BY <1>1, LostCancelRun DEF UserCancels
<1>2. CASE \E c \in Run : PropagateCancel(r, c) BY <1>2, LostCancelRun DEF PropagateCancel
<1>3. CASE CleanupStarts(r) BY <1>3 DEF CleanupStarts
<1>4. CASE CleanupStops(r) BY <1>4 DEF CleanupStops
<1>5. CASE CleanupFails(r) BY <1>5 DEF CleanupFails
<1>6. CASE CleanupJoins(r) BY <1>6 DEF CleanupJoins, Verdict
<1>7. CASE JoinSucceeds(r) BY <1>7 DEF JoinSucceeds, Verdict
<1>8. CASE JoinFails(r) BY <1>8 DEF JoinFails
<1>9. CASE JoinTimesOut(r) BY <1>9 DEF JoinTimesOut
<1>10. CASE TailJoined(r) BY <1>10 DEF TailJoined
<1>11. CASE ProcessesCleaned(r) BY <1>11 DEF ProcessesCleaned
<1>12. CASE ChildrenRevoked(r) BY <1>12 DEF ChildrenRevoked
<1>13. CASE CancelReturns(r)
    <2>1. ASSUME NEW q \in Run
          PROVE  /\ status'[q] = status[q] /\ execution'[q] = execution[q]
                 /\ lost'[q] = lost[q] /\ task'[q] = task[q]
                 /\ cleanup'[q] \in {cleanup[q], "failed"}
                 /\ status[q] = "absent" => /\ cleanup'[q] = "none"
                                            /\ cleaner'[q] = "none" /\ canceller'[q] = "idle"
        BY <1>13 DEF CancelReturns
    <2> QED BY <2>1
<1>14. CASE ShutdownKills(r)
    <2>1. Signalled(task[r]) = "none" <=> task[r] = "none" BY SignalledType
    <2> QED BY <1>14, <2>1 DEF ShutdownKills, cancelling
<1> QED BY <1>1, <1>2, <1>3, <1>4, <1>5, <1>6, <1>7, <1>8, <1>9, <1>10, <1>11, <1>12, <1>13,
           <1>14, CancelStep(r) DEF CancelStep

LEMMA LostNext == TypeOK /\ LostInv /\ [Next]_vars => LostInv'
<1> SUFFICES ASSUME TypeOK, LostInv, [Next]_vars PROVE LostInv'
    OBVIOUS
<1> USE DEF LostInv, NoRow, LostIdle, durable, cancelling
<1>1. CASE \E r \in Run : RunStep(r) \/ CancelStep(r) BY <1>1, LostRunStep, LostCancelStep
<1>2. ASSUME NEW a \in Agent, AgentStep(a) PROVE LostInv'
    <2>1. CASE \E r \in Run : PurgeRun(a, r) BY <2>1, LostCancelRun DEF PurgeRun
    <2>2. CASE ~\E r \in Run : PurgeRun(a, r)
        BY <1>2, <2>2 DEF AgentStep, ReserveAgentDeletion, ReleaseAgentDeletion,
           DeleteAgentBegins, DeleteAgentEnds
    <2> QED BY <2>1, <2>2
<1>3. CASE BeginShutdown BY <1>3 DEF BeginShutdown
<1>4. CASE Restart BY <1>4 DEF Restart, TypeOK, Ledger!Live
<1>5. CASE UNCHANGED vars BY <1>5 DEF vars
<1> QED BY <1>1, <1>2, <1>3, <1>4, <1>5 DEF Next

\* However often the cancellation of a run is retried after a restart, its
\* cleanup is never declared complete once the provider session was lost.
THEOREM LostCorrect == Spec => []LostNeverComplete
<1>1. Init => LostInv BY DEF Init, LostInv, NoRow, LostIdle
<1>2. LostInv => LostNeverComplete BY DEF LostInv, LostIdle, LostNeverComplete
<1> QED BY <1>1, <1>2, LostNext, TypeCorrect, PTL DEF Spec
=============================================================================
