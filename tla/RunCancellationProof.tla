------------------------ MODULE RunCancellationProof ------------------------
(* What a cancellation that has come back guarantees: RunManager without   *)
(* the watchdog, whose plain stop task a cancellation may take for its own *)
(* cleanup.                                                                *)
EXTENDS RunManagerProof, WellFoundedInduction

USE RunConstants DEF Terminal, Ledger!Terminal, Debt, Unbegun, InLoop, Closing, Closed, Cleaning

-----------------------------------------------------------------------------
(* The forest of runs.                                                     *)

LEMMA LeastNumber ==
    ASSUME NEW T \in SUBSET Nat, T # {}
    PROVE  \E i \in T : \A j \in T : i <= j
<1>1. \E x \in T : \A y \in T : ~(<<y, x>> \in OpToRel(<, Nat))
    BY NatLessThanWellFounded, WFMin
<1>2. \A x, y \in Nat : ~(<<y, x>> \in OpToRel(<, Nat)) => x <= y
    BY DEF OpToRel
<1> QED BY <1>1, <1>2

LEMMA AncestorsFinite ==
    ASSUME NEW d \in Run
    PROVE  IsFiniteSet(Ancestors[d]) /\ Cardinality(Ancestors[d]) \in Nat
<1>1. Ancestors[d] \in SUBSET Run /\ IsFiniteSet(Run) OBVIOUS
<1>2. IsFiniteSet(Ancestors[d]) BY <1>1, FS_Subset
<1> QED BY <1>2, FS_CardinalityType

\* A nonempty set of runs has one with no more ancestors than any other.
LEMMA Shallowest ==
    ASSUME NEW S \in SUBSET Run, S # {}
    PROVE  \E d \in S : \A e \in S : Cardinality(Ancestors[d]) <= Cardinality(Ancestors[e])
<1> DEFINE T == {Cardinality(Ancestors[e]) : e \in S}
<1>1. \A e \in S : Cardinality(Ancestors[e]) \in Nat
    BY AncestorsFinite
<1>2. T \in SUBSET Nat /\ T # {} BY <1>1
<1>3. PICK i \in T : \A j \in T : i <= j
    <2> HIDE DEF T
    <2> QED BY <1>2, LeastNumber
<1> QED BY <1>3

LEMMA ParentShallower ==
    ASSUME NEW d \in Run, Ancestors[d] # {}
    PROVE  /\ ParentOf[d] \in Ancestors[d]
           /\ Ancestors[d] = {ParentOf[d]} \union Ancestors[ParentOf[d]]
           /\ Cardinality(Ancestors[d]) \in Nat
           /\ ~(Cardinality(Ancestors[d]) <= Cardinality(Ancestors[ParentOf[d]]))
<1>1. ParentOf[d] \in Run /\ Ancestors[d] = {ParentOf[d]} \union Ancestors[ParentOf[d]]
    OBVIOUS
<1>2. ParentOf[d] \notin Ancestors[ParentOf[d]] BY <1>1
<1>3. IsFiniteSet(Ancestors[ParentOf[d]]) /\ Cardinality(Ancestors[ParentOf[d]]) \in Nat
    BY <1>1, AncestorsFinite
<1>4. Cardinality(Ancestors[d]) = Cardinality(Ancestors[ParentOf[d]]) + 1
    <2>1. Ancestors[d] = Ancestors[ParentOf[d]] \union {ParentOf[d]} BY <1>1
    <2> QED BY <1>2, <1>3, <2>1, FS_AddElement
<1> QED BY <1>1, <1>3, <1>4

LEMMA AncestorsTransitive ==
    \A c, d \in Run : c \in Ancestors[d] => Ancestors[c] \subseteq Ancestors[d]
<1> DEFINE S == {d \in Run : \E c \in Ancestors[d] : ~(Ancestors[c] \subseteq Ancestors[d])}
<1> SUFFICES ASSUME S # {} PROVE FALSE
    OBVIOUS
<1>1. PICK d \in S : \A e \in S : Cardinality(Ancestors[d]) <= Cardinality(Ancestors[e])
    BY Shallowest
<1>2. PICK c \in Ancestors[d] : ~(Ancestors[c] \subseteq Ancestors[d])
    BY <1>1
<1> DEFINE p == ParentOf[d]
<1>3. /\ p \in Run /\ Ancestors[d] = {p} \union Ancestors[p]
      /\ ~(Cardinality(Ancestors[d]) <= Cardinality(Ancestors[p]))
    BY <1>1, <1>2, ParentShallower
<1>4. p \notin S BY <1>1, <1>3
<1>5. CASE c = p BY <1>2, <1>3, <1>5
<1>6. CASE c \in Ancestors[p] BY <1>2, <1>3, <1>4, <1>6
<1> QED BY <1>2, <1>3, <1>5, <1>6

\* Whatever is below a run is one of its children or below one of them.
LEMMA BelowAChild ==
    \A r, d \in Run : r \in Ancestors[d] =>
        \E c \in Run : ParentOf[c] = r /\ (c = d \/ c \in Ancestors[d])
<1> SUFFICES ASSUME NEW r \in Run
             PROVE  \A d \in Run : r \in Ancestors[d] =>
                        \E c \in Run : ParentOf[c] = r /\ (c = d \/ c \in Ancestors[d])
    OBVIOUS
<1> DEFINE S == {d \in Run : /\ r \in Ancestors[d]
                             /\ ~\E c \in Run : ParentOf[c] = r /\ (c = d \/ c \in Ancestors[d])}
<1> SUFFICES ASSUME S # {} PROVE FALSE
    OBVIOUS
<1>1. PICK d \in S : \A e \in S : Cardinality(Ancestors[d]) <= Cardinality(Ancestors[e])
    BY Shallowest
<1> DEFINE p == ParentOf[d]
<1>2. /\ p \in Run /\ Ancestors[d] = {p} \union Ancestors[p]
      /\ ~(Cardinality(Ancestors[d]) <= Cardinality(Ancestors[p]))
    BY <1>1, ParentShallower
<1>3. p # r BY <1>1
<1>4. r \in Ancestors[p] BY <1>1, <1>2, <1>3
<1>5. p \in S BY <1>1, <1>2, <1>4
<1> QED BY <1>1, <1>2, <1>5
-----------------------------------------------------------------------------
(* What a step does to a cancellation.                                     *)

\* Without the watchdog every cleanup task is the manager's own.
OwnCleanup == \A r \in Run : cleaner[r] \notin {"stop", "stopped", "stopfail"} /\ task[r] # "watchdog"

\* A cancellation is under way only for a run that is over, ...
StoppedIsOver ==
    \A r \in Run : cleaner[r] # "none" \/ canceller[r] # "idle" => status[r] \in Terminal

\* ... it has seen the coroutine end before it goes on, and the slot is free.
Unwound(r) ==
    /\ cleaner[r] = "ok" => task[r] = "none" /\ r \notin occupied
    /\ canceller[r] \in {"tidy", "children", "ok"} => task[r] = "none"

CancelInv == BegunRuns /\ LostInv /\ OwnCleanup /\ StoppedIsOver /\ \A r \in Run : Unwound(r)

LEMMA StatusKept ==
    ASSUME TypeOK, BegunRuns, [Next]_vars, NEW r \in Run
    PROVE  /\ status[r] \in Terminal => status'[r] = status[r]
           /\ status[r] # "absent" => status'[r] # "absent"
           /\ status'[r] \in Ledger!RunStatus
<1>0. status \in [Run -> Ledger!RunStatus] /\ status' \in [Run -> Ledger!RunStatus]
    BY TypeNext DEF TypeOK
<1>1. Ledger!Next \/ UNCHANGED status BY LedgerStep
<1>2. CASE Ledger!Interrupt BY <1>0, <1>2 DEF Ledger!Interrupt, Ledger!Live
<1>3. ASSUME NEW q \in Run, Ledger!Begin(q) \/ Ledger!Move(q)
      PROVE  /\ status[r] \in Terminal => status'[r] = status[r]
             /\ status[r] # "absent" => status'[r] # "absent"
    <2>1. CASE Ledger!Begin(q) BY <1>0, <2>1 DEF Ledger!Begin
    <2>2. CASE Ledger!Move(q)
        <3>1. PICK s \in Ledger!ValidTransitions[status[q]] : status' = [status EXCEPT ![q] = s]
            BY <2>2 DEF Ledger!Move
        <3>2. status[q] \in Ledger!Live /\ s # "absent"
            BY <1>0, <3>1 DEF Ledger!ValidTransitions, Ledger!RunStatus, Ledger!Live
        <3> QED BY <1>0, <3>1, <3>2 DEF Ledger!Live
    <2> QED BY <1>3, <2>1, <2>2
<1> QED BY <1>0, <1>1, <1>2, <1>3 DEF Ledger!Next

\* A run itself only starts under a lineage no user has stopped, on an agent
\* that accepts runs, and never takes part in a cancellation.
Starts(q) ==
    /\ AcceptsRuns(AgentOf[q])
    /\ \A x \in Ancestors[q] : ~UserStopped(x) /\ status[x] # "absent"

LEMMA RunEffect ==
    ASSUME "watchdog" \notin Env, TypeOK, CancelInv, NEW r \in Run, RunStep(r)
    PROVE  /\ UNCHANGED <<stopReq, cleaner, canceller, by, todo, agentState, purge, mode, answer>>
           /\ OwnCleanup'
           /\ \A q \in Run : /\ cleanup'[q] \in {cleanup[q], "failed"}
                             /\ task[q] = "none" /\ status[q] # "absent" => task'[q] = "none"
                             /\ q \in occupied' => q \in occupied \/ status'[q] \notin Terminal
                             /\ status[q] = "absent" /\ status'[q] # "absent" => Starts(q)
<1> USE DEF TypeOK, CancelInv, OwnCleanup, LostInv, NoRow, durable, cancelling, agents
<1>1. CASE StartRun(r) BY <1>1 DEF StartRun, CanStart, LineageOpen, Starts
<1>2. CASE StartRunAborts(r) BY <1>2 DEF StartRunAborts, CanStart, LineageOpen, Starts
<1>3. CASE SuspendRun(r, TRUE) BY <1>3 DEF SuspendRun
<1>4. CASE SuspendRun(r, FALSE) BY <1>4 DEF SuspendRun
<1>5. CASE ResumeRun(r) BY <1>5 DEF ResumeRun, Resume, CanResume
<1>6. CASE ExecuteBegins(r) BY <1>6 DEF ExecuteBegins
<1>7. CASE TaskDropped(r) BY <1>7 DEF TaskDropped, ReleaseSettled
<1>8. CASE ProviderFinishes(r) BY <1>8 DEF ProviderFinishes, ReleaseSettled
<1>9. CASE ProviderWaits(r) BY <1>9 DEF ProviderWaits
<1>10. CASE ProviderResumes(r) BY <1>10 DEF ProviderResumes, Resume, CanResume
<1>11. CASE StreamStops(r) BY <1>11 DEF StreamStops
<1>12. CASE WatchdogFires(r) BY <1>12 DEF WatchdogFires
<1>13. CASE WatchdogStopEnds(r) BY <1>13 DEF WatchdogStopEnds
<1>14. CASE WatchdogReturns(r) BY <1>14 DEF WatchdogReturns
<1>15. CASE StreamCloses(r) BY <1>15 DEF StreamCloses, Shut
<1>16. CASE StreamCloseFails(r) BY <1>16 DEF StreamCloseFails
<1>17. CASE ExecutionFinished(r) BY <1>17 DEF ExecutionFinished, ReleaseSettled, FinalStatus
<1> QED BY <1>1, <1>2, <1>3, <1>4, <1>5, <1>6, <1>7, <1>8, <1>9, <1>10, <1>11, <1>12, <1>13,
           <1>14, <1>15, <1>16, <1>17, RunStep(r) DEF RunStep

\* Whoever calls it: the run is over and marked, its coroutine signalled, and
\* a cleanup task is there unless there was nothing to settle.
LEMMA CancelRunEffect ==
    ASSUME TypeOK, CancelInv, NEW r \in Run, NEW who, CancelRun(r, who)
    PROVE  /\ UNCHANGED <<occupied, todo, mode, agentState>>
           /\ status'[r] \in Terminal /\ answer' = [answer EXCEPT ![r] = "none"]
           /\ task' \in {task, [task EXCEPT ![r] = Signalled(@)]}
           /\ \A q \in Run \ {r} : stopReq'[q] = stopReq[q] /\ canceller'[q] = canceller[q]
           /\ mode = "up" => stopReq'[r] = "user"
           /\ mode # "up" => stopReq'[r] \in {stopReq[r], "shutdown"}
           /\ canceller'[r] \in {"join", "wait"}
           /\ cleaner' \in {cleaner, [cleaner EXCEPT ![r] = "queued"]}
           /\ cleanup' \in {cleanup, [cleanup EXCEPT ![r] = "pending"]}
<1> USE DEF TypeOK, CancelInv, OwnCleanup
<1>1. CASE RevokeFinished(r, who) BY <1>1 DEF CancelRun, RevokeFinished
<1>2. CASE StopRun(r, who)
    <2>1. cleaner' \in {cleaner, [cleaner EXCEPT ![r] = "queued"]}
        BY <1>2 DEF StopRun
    <2> QED BY <1>2, <2>1 DEF CancelRun, StopRun, StopOrigin
<1> QED BY <1>1, <1>2 DEF CancelRun
-----------------------------------------------------------------------------
(* The progress of a cancellation is inductive.                            *)

Progress == OwnCleanup /\ StoppedIsOver /\ \A r \in Run : Unwound(r)

LEMMA ProgressCancelRun ==
    ASSUME TypeOK, CancelInv, [Next]_vars, NEW r \in Run, NEW who, CancelRun(r, who)
    PROVE  Progress'
<1> USE DEF TypeOK, CancelInv
<1>1. ASSUME NEW q \in Run
      PROVE  /\ cleaner'[q] \in {cleaner[q], "queued"} /\ (cleaner'[q] # cleaner[q] => q = r)
             /\ canceller'[q] = canceller[q] \/ (q = r /\ canceller'[q] \in {"join", "wait"})
             /\ task[q] = "none" <=> task'[q] = "none"
             /\ task'[q] # "watchdog"
             /\ q \in occupied' <=> q \in occupied
    <2>1. Signalled(task[r]) = "none" <=> task[r] = "none" BY SignalledType
    <2>2. Signalled(task[r]) # "watchdog" BY DEF Signalled, OwnCleanup
    <2>3. task' \in {task, [task EXCEPT ![r] = Signalled(task[r])]} BY CancelRunEffect
    <2>4. /\ q # r => canceller'[q] = canceller[q]
          /\ canceller'[r] \in {"join", "wait"}
          /\ cleaner' \in {cleaner, [cleaner EXCEPT ![r] = "queued"]}
          /\ occupied' = occupied
        BY CancelRunEffect
    <2>5. task[q] = "none" <=> task'[q] = "none" BY <2>1, <2>3
    <2>6. task'[q] # "watchdog" BY <2>2, <2>3 DEF OwnCleanup
    <2>7. cleaner'[q] \in {cleaner[q], "queued"} /\ (cleaner'[q] # cleaner[q] => q = r)
        <3>1. CASE cleaner' = cleaner BY <3>1
        <3>2. CASE cleaner' = [cleaner EXCEPT ![r] = "queued"] BY <3>2
        <3> QED BY <2>4, <3>1, <3>2
    <2>8. canceller'[q] = canceller[q] \/ (q = r /\ canceller'[q] \in {"join", "wait"})
        BY <2>4
    <2> QED BY <2>4, <2>5, <2>6, <2>7, <2>8
<1>2. status'[r] \in Terminal BY CancelRunEffect
<1>3. OwnCleanup' BY <1>1 DEF OwnCleanup
<1>4. StoppedIsOver' BY <1>1, <1>2, StatusKept DEF StoppedIsOver
<1>5. \A q \in Run : Unwound(q)' BY <1>1 DEF Unwound
<1> QED BY <1>3, <1>4, <1>5 DEF Progress

\* A cancellation that comes back lets go of its caller, which fails with it.
LEMMA ReturnEffect ==
    ASSUME TypeOK, NEW r \in Run, CancelReturns(r), NEW q \in Run
    PROVE  /\ \/ cleaner'[q] = cleaner[q] /\ cleanup'[q] = cleanup[q]
              \/ cleaner[q] = "children" /\ cleaner'[q] = "failed" /\ cleanup'[q] = "failed"
           /\ \/ canceller'[q] \in {"idle", canceller[q]}
              \/ canceller[q] = "children" /\ canceller'[q] = "error"
           /\ todo'[q] = todo[q] \/ (q = by[r] /\ canceller[r] = "ok" /\ todo'[q] = todo[q] \ {r})
<1>1. \/ cleaner'[q] = cleaner[q] /\ cleanup'[q] = cleanup[q]
      \/ cleaner[q] = "children" /\ cleaner'[q] = "failed" /\ cleanup'[q] = "failed"
    BY DEF CancelReturns
<1>2. \/ canceller'[q] \in {"idle", canceller[q]}
      \/ canceller[q] = "children" /\ canceller'[q] = "error"
    BY DEF CancelReturns
<1>3. todo'[q] = todo[q] \/ (q = by[r] /\ canceller[r] = "ok" /\ todo'[q] = todo[q] \ {r})
    BY DEF CancelReturns
<1> QED BY <1>1, <1>2, <1>3

LEMMA ProgressCancelStep ==
    ASSUME TypeOK, CancelInv, [Next]_vars, NEW r \in Run, CancelStep(r)
    PROVE  Progress'
<1> USE DEF TypeOK, CancelInv, Progress, OwnCleanup, StoppedIsOver, Unwound, durable, cancelling, agents
<1>1. CASE UserCancels(r) BY <1>1, ProgressCancelRun DEF UserCancels
<1>2. CASE \E c \in Run : PropagateCancel(r, c) BY <1>2, ProgressCancelRun DEF PropagateCancel
<1>3. CASE CleanupStarts(r) BY <1>3 DEF CleanupStarts
<1>4. CASE CleanupStops(r) BY <1>4 DEF CleanupStops
<1>5. CASE CleanupFails(r) BY <1>5 DEF CleanupFails
<1>6. CASE CleanupJoins(r)
    <2>1. r \notin occupied' /\ occupied' \subseteq occupied
        BY <1>6 DEF CleanupJoins, ReleaseSettled, Verdict
    <2> QED BY <1>6, <2>1 DEF CleanupJoins
<1>7. CASE JoinSucceeds(r) BY <1>7 DEF JoinSucceeds
<1>8. CASE JoinFails(r) BY <1>8 DEF JoinFails
<1>9. CASE JoinTimesOut(r) BY <1>9 DEF JoinTimesOut
<1>10. CASE TailJoined(r) BY <1>10 DEF TailJoined
<1>11. CASE ProcessesCleaned(r) BY <1>11 DEF ProcessesCleaned
<1>12. CASE ChildrenRevoked(r) BY <1>12 DEF ChildrenRevoked
<1>13. CASE CancelReturns(r)
    <2>1. status' = status /\ task' = task /\ occupied' = occupied BY <1>13 DEF CancelReturns
    <2> QED BY <1>13, <2>1, ReturnEffect
<1>14. CASE ShutdownKills(r)
    <2>1. Signalled(task[r]) = "none" <=> task[r] = "none" BY SignalledType
    <2>2. Signalled(task[r]) # "watchdog" BY DEF Signalled
    <2> QED BY <1>14, <2>1, <2>2 DEF ShutdownKills
<1> QED BY <1>1, <1>2, <1>3, <1>4, <1>5, <1>6, <1>7, <1>8, <1>9, <1>10, <1>11, <1>12, <1>13,
           <1>14, CancelStep(r) DEF CancelStep

LEMMA ProgressNext ==
    ASSUME "watchdog" \notin Env, TypeOK, CancelInv, [Next]_vars
    PROVE  CancelInv'
<1> SUFFICES Progress' BY BegunNext, LostNext DEF CancelInv, Progress
<1> USE DEF TypeOK, CancelInv
<1>1. ASSUME NEW r \in Run, RunStep(r) PROVE Progress'
    <2>1. OwnCleanup' BY <1>1, RunEffect
    <2>2. StoppedIsOver' BY <1>1, RunEffect, StatusKept DEF StoppedIsOver
    <2>3. ASSUME NEW q \in Run PROVE Unwound(q)'
        <3>1. cleaner' = cleaner /\ canceller' = canceller BY <1>1, RunEffect
        <3>2. CASE cleaner[q] = "none" /\ canceller[q] = "idle" BY <3>1, <3>2 DEF Unwound
        <3>3. CASE cleaner[q] # "none" \/ canceller[q] # "idle"
            <4>1. status[q] \in Terminal /\ status'[q] \in Terminal
                BY <3>3, StatusKept DEF StoppedIsOver
            <4>2. task[q] = "none" => task'[q] = "none" BY <1>1, <4>1, RunEffect
            <4>3. q \in occupied' => q \in occupied BY <1>1, <4>1, RunEffect
            <4> QED BY <3>1, <4>2, <4>3 DEF Unwound
        <3> QED BY <3>2, <3>3
    <2> QED BY <2>1, <2>2, <2>3 DEF Progress
<1>2. ASSUME NEW a \in Agent, AgentStep(a) PROVE Progress'
    <2>1. CASE \E r \in Run : PurgeRun(a, r) BY <2>1, ProgressCancelRun DEF PurgeRun
    <2>2. CASE ~\E r \in Run : PurgeRun(a, r)
        BY <1>2, <2>2 DEF AgentStep, ReserveAgentDeletion, ReleaseAgentDeletion, DeleteAgentBegins,
           DeleteAgentEnds, Progress, OwnCleanup, StoppedIsOver, Unwound, durable, cancelling
    <2> QED BY <2>1, <2>2
<1>3. CASE BeginShutdown
    BY <1>3 DEF BeginShutdown, Progress, OwnCleanup, StoppedIsOver, Unwound, durable, cancelling
<1>4. CASE Restart BY <1>4 DEF Restart, Progress, OwnCleanup, StoppedIsOver, Unwound
<1>5. CASE UNCHANGED vars
    BY <1>5 DEF vars, Progress, OwnCleanup, StoppedIsOver, Unwound, durable, cancelling, agents
<1> QED BY <1>1, <1>2, <1>3, <1>4, <1>5, ProgressCancelStep DEF Next

LEMMA ProgressCorrect == "watchdog" \notin Env => (Spec => [](TypeOK /\ CancelInv))
<1> SUFFICES ASSUME "watchdog" \notin Env PROVE Spec => [](TypeOK /\ CancelInv)
    OBVIOUS
<1>1. Init => CancelInv
    BY DEF Init, CancelInv, BegunRuns, LostInv, NoRow, LostIdle, OwnCleanup, StoppedIsOver, Unwound
<1>2. TypeOK /\ CancelInv /\ [Next]_vars => TypeOK' /\ CancelInv'
    BY TypeNext, ProgressNext
<1> QED BY <1>1, <1>2, TypeInit, PTL DEF Spec
-----------------------------------------------------------------------------
(* Slots of settled runs.                                                  *)

LEMMA SettledRunStep ==
    ASSUME "watchdog" \notin Env, TypeOK, CancelInv, SettledHoldsNothing, NEW r \in Run, RunStep(r)
    PROVE  SettledHoldsNothing'
<1> USE DEF TypeOK, CancelInv, OwnCleanup, SettledHoldsNothing, durable
<1>1. CASE StartRun(r) BY <1>1 DEF StartRun
<1>2. CASE StartRunAborts(r) BY <1>2 DEF StartRunAborts
<1>3. CASE SuspendRun(r, TRUE) BY <1>3 DEF SuspendRun
<1>4. CASE SuspendRun(r, FALSE) BY <1>4 DEF SuspendRun
<1>5. CASE ResumeRun(r) BY <1>5 DEF ResumeRun, Resume
<1>6. CASE ExecuteBegins(r) BY <1>6 DEF ExecuteBegins
<1>7. CASE TaskDropped(r) BY <1>7 DEF TaskDropped, ReleaseSettled
<1>8. CASE ProviderFinishes(r) BY <1>8 DEF ProviderFinishes, ReleaseSettled
<1>9. CASE ProviderWaits(r) BY <1>9 DEF ProviderWaits
<1>10. CASE ProviderResumes(r) BY <1>10 DEF ProviderResumes, Resume
<1>11. CASE StreamStops(r) BY <1>11 DEF StreamStops
<1>12. CASE WatchdogFires(r) BY <1>12 DEF WatchdogFires
<1>13. CASE WatchdogStopEnds(r) BY <1>13 DEF WatchdogStopEnds
<1>14. CASE WatchdogReturns(r) BY <1>14 DEF WatchdogReturns
<1>15. CASE StreamCloses(r) BY <1>15 DEF StreamCloses, Shut
<1>16. CASE StreamCloseFails(r) BY <1>16 DEF StreamCloseFails
<1>17. CASE ExecutionFinished(r) BY <1>17 DEF ExecutionFinished, ReleaseSettled
<1> QED BY <1>1, <1>2, <1>3, <1>4, <1>5, <1>6, <1>7, <1>8, <1>9, <1>10, <1>11, <1>12, <1>13,
           <1>14, <1>15, <1>16, <1>17, RunStep(r) DEF RunStep

LEMMA SettledCancelRun ==
    ASSUME TypeOK, SettledHoldsNothing, NEW r \in Run, NEW who, CancelRun(r, who)
    PROVE  SettledHoldsNothing'
<1> USE DEF TypeOK, SettledHoldsNothing
<1>1. CASE RevokeFinished(r, who) BY <1>1 DEF RevokeFinished
<1>2. CASE StopRun(r, who) BY <1>2 DEF StopRun
<1> QED BY <1>1, <1>2 DEF CancelRun

LEMMA SettledCancelStep ==
    ASSUME TypeOK, CancelInv, SettledHoldsNothing, NEW r \in Run, CancelStep(r)
    PROVE  SettledHoldsNothing'
<1> USE DEF TypeOK, SettledHoldsNothing, durable
<1>1. CASE UserCancels(r) BY <1>1, SettledCancelRun DEF UserCancels
<1>2. CASE \E c \in Run : PropagateCancel(r, c) BY <1>2, SettledCancelRun DEF PropagateCancel
<1>3. CASE CleanupStarts(r) BY <1>3 DEF CleanupStarts
<1>4. CASE CleanupStops(r) BY <1>4 DEF CleanupStops
<1>5. CASE CleanupFails(r) BY <1>5 DEF CleanupFails
<1>6. CASE CleanupJoins(r) BY <1>6 DEF CleanupJoins, ReleaseSettled
<1>7. CASE JoinSucceeds(r)
    <2>1. r \notin occupied BY <1>7 DEF JoinSucceeds, CancelInv, OwnCleanup, Unwound
    <2> QED BY <1>7, <2>1 DEF JoinSucceeds
<1>8. CASE JoinFails(r) BY <1>8 DEF JoinFails
<1>9. CASE JoinTimesOut(r) BY <1>9 DEF JoinTimesOut
<1>10. CASE TailJoined(r) BY <1>10 DEF TailJoined
<1>11. CASE ProcessesCleaned(r) BY <1>11 DEF ProcessesCleaned
<1>12. CASE ChildrenRevoked(r) BY <1>12 DEF ChildrenRevoked
<1>13. CASE CancelReturns(r)
    <2>1. status' = status /\ task' = task /\ occupied' = occupied BY <1>13 DEF CancelReturns
    <2> QED BY <1>13, <2>1, ReturnEffect
<1>14. CASE ShutdownKills(r) BY <1>14, SignalledType DEF ShutdownKills
<1> QED BY <1>1, <1>2, <1>3, <1>4, <1>5, <1>6, <1>7, <1>8, <1>9, <1>10, <1>11, <1>12, <1>13,
           <1>14, CancelStep(r) DEF CancelStep

LEMMA SettledNext ==
    ASSUME "watchdog" \notin Env, TypeOK, CancelInv, SettledHoldsNothing, [Next]_vars
    PROVE  SettledHoldsNothing'
<1>1. ASSUME NEW a \in Agent, AgentStep(a) PROVE SettledHoldsNothing'
    <2>1. CASE \E r \in Run : PurgeRun(a, r) BY <2>1, SettledCancelRun DEF PurgeRun
    <2>2. CASE ~\E r \in Run : PurgeRun(a, r)
        BY <1>1, <2>2 DEF AgentStep, ReserveAgentDeletion, ReleaseAgentDeletion, DeleteAgentBegins,
           DeleteAgentEnds, SettledHoldsNothing, durable
    <2> QED BY <2>1, <2>2
<1>2. CASE BeginShutdown BY <1>2 DEF BeginShutdown, SettledHoldsNothing, durable
<1>3. CASE Restart BY <1>3 DEF Restart, SettledHoldsNothing
<1>4. CASE UNCHANGED vars BY <1>4 DEF vars, SettledHoldsNothing, durable
<1> QED BY <1>1, <1>2, <1>3, <1>4, SettledRunStep, SettledCancelStep DEF Next

\* A run that is over, unwound and free of debt holds no slot: whichever of the
\* result, the end of the coroutine and the cleanup comes last releases it.
THEOREM SettledCorrect == "watchdog" \notin Env => (Spec => []SettledHoldsNothing)
<1> SUFFICES ASSUME "watchdog" \notin Env PROVE Spec => []SettledHoldsNothing
    OBVIOUS
<1>1. Init => SettledHoldsNothing BY DEF Init, SettledHoldsNothing
<1>2. TypeOK /\ CancelInv /\ SettledHoldsNothing /\ [Next]_vars => SettledHoldsNothing'
    BY SettledNext
<1>3. Spec => [](TypeOK /\ CancelInv) BY ProgressCorrect
<1> QED BY <1>1, <1>2, <1>3, PTL DEF Spec

-----------------------------------------------------------------------------
(* Agent deletion.                                                         *)

\* Nothing of the run is left and nothing of it can come back.
Gone(r) == status[r] = "absent" \/ (status[r] \in Terminal /\ task[r] = "none")

\* A deletion has seen the end of every run that it has struck off its list.
Purged ==
    \A a \in Agent :
        /\ agentState[a] = "removing" => \A r \in RunsOf(a) \ purge[a] : Gone(r)
        /\ agentState[a] = "gone" => \A r \in RunsOf(a) : Gone(r)

LEMMA GoneStays ==
    ASSUME "watchdog" \notin Env, TypeOK, CancelInv, [Next]_vars, NEW q \in Run, Gone(q)
    PROVE  \/ Gone(q)'
           \/ /\ AcceptsRuns(AgentOf[q])
              /\ agentState' = agentState
<1>0. ASSUME task'[q] = "none", status[q] # "absent" \/ status'[q] = "absent" PROVE Gone(q)'
    <2>1. CASE status'[q] = "absent" BY <2>1 DEF Gone
    <2>2. CASE status[q] # "absent"
        <3>1. status[q] \in Terminal BY <2>2 DEF Gone
        <3>2. status'[q] = status[q] BY <3>1, StatusKept DEF CancelInv
        <3> QED BY <1>0, <3>1, <3>2 DEF Gone
    <2> QED BY <1>0, <2>1, <2>2
<1>1. ASSUME NEW r \in Run, RunStep(r) PROVE \/ Gone(q)'
                                             \/ /\ AcceptsRuns(AgentOf[q])
                                                /\ agentState' = agentState
    <2>1. CASE status[q] = "absent" /\ status'[q] # "absent"
        BY <1>1, <2>1, RunEffect DEF Starts
    <2>2. CASE status[q] = "absent" /\ status'[q] = "absent"
        BY <2>2 DEF Gone
    <2>3. CASE status[q] # "absent"
        BY <1>0, <1>1, <2>3, RunEffect DEF Gone
    <2> QED BY <2>1, <2>2, <2>3
<1>2. ASSUME NEW r \in Run, CancelStep(r) \/ \E a \in Agent : AgentStep(a) PROVE Gone(q)'
    <2>1. task[q] = "none" BY DEF Gone, CancelInv, LostInv, NoRow
    <2>2. task'[q] = "none" BY <1>2, <2>1, CancelSlot, SignalledType DEF TypeOK
    <2>3. status[q] = "absent" => status'[q] = "absent"
        BY <1>2, CancelStatus DEF TypeOK, Ledger!Live
    <2> QED BY <1>0, <2>2, <2>3
<1>3. CASE BeginShutdown BY <1>3 DEF BeginShutdown, Gone, durable
<1>4. CASE Restart BY <1>4 DEF Restart, Gone, Ledger!Live
<1>5. CASE UNCHANGED vars BY <1>5 DEF vars, Gone, durable
<1> QED BY <1>1, <1>2, <1>3, <1>4, <1>5 DEF Next

\* What can become of the deletion of one agent in a step.
Deletion(a) ==
    \/ agentState'[a] \in {"live", "reserved", "failing"}
    \/ agentState'[a] = agentState[a] /\ (purge'[a] = purge[a] \/ agentState[a] = "gone")
    \/ agentState'[a] = "removing" /\ purge'[a] = PurgeSet(a) /\ status' = status
    \/ agentState[a] = "removing" /\ purge[a] = {} /\ agentState'[a] = "gone"
    \/ /\ agentState'[a] = agentState[a]
       /\ \E r \in Run : canceller[r] = "ok" /\ purge'[a] = purge[a] \ {r}

LEMMA DeletionStep ==
    ASSUME "watchdog" \notin Env, TypeOK, CancelInv, [Next]_vars, NEW a \in Agent
    PROVE  Deletion(a)
<1> USE DEF TypeOK
<1>1. ASSUME NEW r \in Run, RunStep(r) PROVE agentState' = agentState /\ purge' = purge
    BY <1>1, RunEffect
<1>2. ASSUME NEW r \in Run, NEW who, CancelRun(r, who) PROVE agentState' = agentState
    BY <1>2, CancelRunEffect
<1>3. ASSUME NEW r \in Run, CancelStep(r), ~CancelReturns(r)
      PROVE  agentState' = agentState /\ purge' = purge
    BY <1>2, <1>3 DEF CancelStep, UserCancels, PropagateCancel, CleanupStarts, CleanupStops,
       CleanupFails, CleanupJoins, JoinSucceeds, JoinFails, JoinTimesOut, TailJoined,
       ProcessesCleaned, ChildrenRevoked, ShutdownKills, agents
<1>4. ASSUME NEW r \in Run, CancelReturns(r) PROVE Deletion(a)
    <2>1. CASE by[r] # a BY <1>4, <2>1 DEF CancelReturns, Deletion
    <2>2. CASE by[r] = a
        <3>1. purge'[a] = purge[a] \ {r} BY <1>4, <2>2 DEF CancelReturns
        <3>2. \/ agentState'[a] = "failing"
              \/ canceller[r] = "ok" /\ agentState'[a] = agentState[a]
            BY <1>4, <2>2 DEF CancelReturns
        <3> QED BY <3>1, <3>2 DEF Deletion
    <2> QED BY <2>1, <2>2
<1>5. ASSUME NEW b \in Agent, AgentStep(b) PROVE Deletion(a)
    <2>1. CASE ReserveAgentDeletion(b) BY <2>1 DEF ReserveAgentDeletion, Deletion
    <2>2. CASE ReleaseAgentDeletion(b) BY <2>2 DEF ReleaseAgentDeletion, Deletion
    <2>3. CASE DeleteAgentBegins(b) BY <2>3 DEF DeleteAgentBegins, Deletion, durable
    <2>4. CASE DeleteAgentEnds(b) BY <2>4 DEF DeleteAgentEnds, Deletion
    <2>5. CASE \E r \in Run : PurgeRun(b, r) BY <1>2, <2>5 DEF PurgeRun, Deletion
    <2> QED BY <1>5, <2>1, <2>2, <2>3, <2>4, <2>5 DEF AgentStep
<1>6. CASE BeginShutdown BY <1>6 DEF BeginShutdown, Deletion
<1>7. CASE Restart BY <1>7 DEF Restart, Deletion
<1>8. CASE UNCHANGED vars BY <1>8 DEF vars, agents, Deletion
<1> QED BY <1>1, <1>3, <1>4, <1>5, <1>6, <1>7, <1>8 DEF Next, Deletion

LEMMA PurgedNext ==
    ASSUME "watchdog" \notin Env, TypeOK, CancelInv, Purged, [Next]_vars
    PROVE  Purged'
<1> SUFFICES ASSUME NEW a \in Agent, NEW q \in RunsOf(a),
                    \/ agentState'[a] = "removing" /\ q \notin purge'[a]
                    \/ agentState'[a] = "gone"
             PROVE  Gone(q)'
    BY DEF Purged, RunsOf
<1>1. q \in Run /\ AgentOf[q] = a BY DEF RunsOf
<1>2. ASSUME Gone(q) PROVE Gone(q)'
    BY <1>1, <1>2, GoneStays DEF AcceptsRuns
<1>3. CASE agentState'[a] = agentState[a] /\ (purge'[a] = purge[a] \/ agentState[a] = "gone")
    BY <1>2, <1>3 DEF Purged
<1>4. CASE agentState'[a] = "removing" /\ purge'[a] = PurgeSet(a) /\ status' = status
    BY <1>1, <1>4 DEF PurgeSet, Gone
<1>5. CASE agentState[a] = "removing" /\ purge[a] = {} /\ agentState'[a] = "gone"
    BY <1>2, <1>5 DEF Purged
<1>6. ASSUME agentState'[a] = agentState[a], NEW r \in Run, canceller[r] = "ok",
             purge'[a] = purge[a] \ {r}
      PROVE  Gone(q)'
    <2>1. Gone(r) BY <1>6 DEF CancelInv, StoppedIsOver, Unwound, Gone
    <2> QED BY <1>2, <1>6, <2>1 DEF Purged
<1> QED BY <1>3, <1>4, <1>5, <1>6, DeletionStep DEF Deletion

\* When the provider's agent is removed no coroutine of it is left, none of its
\* runs is live, and none can start again: every run it ever had was cancelled,
\* those that had finished included, and each cancellation saw its coroutine end.
THEOREM DeletionCorrect == "watchdog" \notin Env => (Spec => []DeletedAgentIdle)
<1> SUFFICES ASSUME "watchdog" \notin Env PROVE Spec => []DeletedAgentIdle
    OBVIOUS
<1>1. Init => Purged BY DEF Init, Purged
<1>2. TypeOK /\ CancelInv /\ Purged /\ [Next]_vars => Purged'
    BY PurgedNext
<1>3. TypeOK /\ CancelInv /\ Purged => DeletedAgentIdle
    BY DEF CancelInv, LostInv, NoRow, Purged, Gone, DeletedAgentIdle, RunsOf
<1>4. Spec => [](TypeOK /\ CancelInv) BY ProgressCorrect
<1> QED BY <1>1, <1>2, <1>3, <1>4, PTL DEF Spec
-----------------------------------------------------------------------------
(* A stop reaches the whole family.                                        *)

\* Nothing below the run is live.
Quiet(r) == \A d \in Run : r \in Ancestors[d] => status[d] \notin Ledger!Live
Still(r) == status[r] \notin Ledger!Live /\ Quiet(r)

\* A user has stopped the run or one it depends on: nothing starts below it.
Barred(r) == UserStopped(r) \/ \E x \in Ancestors[r] : UserStopped(x)

\* A run exists only with all its ancestors, ...
Rooted ==
    \A d \in Run : status[d] # "absent" => \A x \in Ancestors[d] : status[x] # "absent"

\* ... every cancellation begun since the start of the process was recorded as
\* the user's, unless the process is stopping, ...
Marked ==
    mode = "up" => \A r \in Run : canceller[r] # "idle" \/ cleaner[r] # "none" => UserStopped(r)

\* ... and below a barred run whatever its cancellation has passed is still.
Revoked(r) ==
    /\ canceller[r] = "ok" => Quiet(r)
    /\ cleaner[r] \in {"join", "ok"} => Quiet(r)
    /\ cleaner[r] = "children" \/ canceller[r] = "children" =>
           \A c \in Run : ParentOf[c] = r /\ c \notin todo[r] => Still(c)
    /\ answer[r] = "ok" /\ UserStopped(r) => Quiet(r)

FamilyRevoked == \A r \in Run : Barred(r) => Revoked(r)

FamilyInv == Rooted /\ Marked /\ FamilyRevoked

LEMMA AbsentStays ==
    ASSUME "watchdog" \notin Env, TypeOK, CancelInv, [Next]_vars, NEW d \in Run,
           status[d] = "absent", status'[d] # "absent"
    PROVE  Starts(d) /\ stopReq' = stopReq
<1>1. ASSUME NEW r \in Run, RunStep(r) PROVE Starts(d) /\ stopReq' = stopReq
    BY <1>1, RunEffect
<1>2. ASSUME NEW r \in Run, CancelStep(r) \/ \E a \in Agent : AgentStep(a) PROVE FALSE
    <2>1. ASSUME NEW q \in Run, status[q] \in Ledger!Live,
                 status' = [status EXCEPT ![q] = "cancelled"]
          PROVE  FALSE
        BY <2>1 DEF TypeOK, Ledger!Live
    <2> QED BY <1>2, <2>1, CancelStatus
<1>3. CASE BeginShutdown BY <1>3 DEF BeginShutdown, durable
<1>4. CASE Restart BY <1>4 DEF Restart, Ledger!Live
<1>5. CASE UNCHANGED vars BY <1>5 DEF vars, durable
<1> QED BY <1>1, <1>2, <1>3, <1>4, <1>5 DEF Next

LEMMA RootedNext ==
    ASSUME "watchdog" \notin Env, TypeOK, CancelInv, Rooted, [Next]_vars
    PROVE  Rooted'
<1> SUFFICES ASSUME NEW d \in Run, status'[d] # "absent", NEW x \in Ancestors[d]
             PROVE  status'[x] # "absent"
    BY DEF Rooted
<1>1. status[x] # "absent"
    BY AbsentStays DEF Rooted, Starts
<1> QED BY <1>1, StatusKept DEF CancelInv

\* What is live below a barred run was live there before.
LEMMA NothingStarts ==
    ASSUME "watchdog" \notin Env, TypeOK, CancelInv, [Next]_vars,
           NEW r \in Run, Barred(r), NEW d \in Run, r \in Ancestors[d], status'[d] \in Ledger!Live
    PROVE  status[d] \in Ledger!Live
<1>1. status[d] \notin Terminal BY StatusKept DEF CancelInv, Ledger!Live
<1>2. status[d] # "absent"
    <2>1. Ancestors[r] \subseteq Ancestors[d] BY AncestorsTransitive
    <2>2. \E x \in Ancestors[d] : UserStopped(x) BY <2>1 DEF Barred
    <2> QED BY <2>2, AbsentStays DEF Starts, Ledger!Live
<1> QED BY <1>1, <1>2 DEF TypeOK, Ledger!RunStatus

LEMMA QuietStays ==
    ASSUME "watchdog" \notin Env, TypeOK, CancelInv, [Next]_vars,
           NEW r \in Run, Barred(r), Quiet(r)
    PROVE  Quiet(r)'
    BY NothingStarts DEF Quiet

LEMMA StillStays ==
    ASSUME "watchdog" \notin Env, TypeOK, CancelInv, [Next]_vars,
           NEW r \in Run, Barred(r), NEW c \in Run, ParentOf[c] = r, Still(c)
    PROVE  Still(c)'
<1>1. r \in Ancestors[c] OBVIOUS
<1>2. Barred(c) BY <1>1, AncestorsTransitive DEF Barred
<1>3. Quiet(c)' BY <1>2, QuietStays DEF Still
<1>4. status'[c] \notin Ledger!Live BY <1>1, NothingStarts DEF Still
<1> QED BY <1>3, <1>4 DEF Still

\* What has no row has nothing below it.
LEMMA AbsentIsStill ==
    ASSUME Rooted, NEW c \in Run, status[c] = "absent"
    PROVE  Still(c)
    BY DEF Rooted, Still, Quiet, Ledger!Live

\* When every child is still, everything below is.
LEMMA ChildrenStill ==
    ASSUME NEW r \in Run, \A c \in Run : ParentOf[c] = r => Still(c)
    PROVE  Quiet(r)
<1> SUFFICES ASSUME NEW d \in Run, r \in Ancestors[d] PROVE status[d] \notin Ledger!Live
    BY DEF Quiet
<1>1. PICK c \in Run : ParentOf[c] = r /\ (c = d \/ c \in Ancestors[d])
    BY BelowAChild
<1> QED BY <1>1 DEF Still, Quiet

\* The claims a step makes about a run hold of the state it starts from.
Granted(r) ==
    /\ canceller'[r] = "ok" => Quiet(r)
    /\ cleaner'[r] \in {"join", "ok"} => Quiet(r)
    /\ cleaner'[r] = "children" \/ canceller'[r] = "children" =>
           \A c \in Run : ParentOf[c] = r /\ c \notin todo'[r] => Still(c)
    /\ answer'[r] = "ok" /\ UserStopped(r)' => Quiet(r)

LEMMA GrantedIsRevoked ==
    ASSUME "watchdog" \notin Env, TypeOK, CancelInv, [Next]_vars,
           NEW r \in Run, Barred(r), Granted(r)
    PROVE  Revoked(r)'
<1>1. Quiet(r) => Quiet(r)' BY QuietStays
<1>2. \A c \in Run : ParentOf[c] = r /\ Still(c) => Still(c)' BY StillStays
<1> QED BY <1>1, <1>2 DEF Granted, Revoked

LEMMA FamilyCancelRun ==
    ASSUME "watchdog" \notin Env, TypeOK, CancelInv, FamilyInv, [Next]_vars,
           NEW q \in Run, NEW who, CancelRun(q, who)
    PROVE  Marked' /\ FamilyRevoked'
<1>1. /\ mode' = mode /\ todo' = todo
      /\ answer' = [answer EXCEPT ![q] = "none"]
      /\ \A r \in Run \ {q} : stopReq'[r] = stopReq[r] /\ canceller'[r] = canceller[r]
      /\ canceller'[q] \in {"join", "wait"}
      /\ mode = "up" => stopReq'[q] = "user"
      /\ mode # "up" => stopReq'[q] \in {stopReq[q], "shutdown"}
    BY CancelRunEffect
<1>2. \A r \in Run : cleaner'[r] = cleaner[r] \/ (r = q /\ cleaner'[r] = "queued")
    <2>1. cleaner' \in {cleaner, [cleaner EXCEPT ![q] = "queued"]} BY CancelRunEffect
    <2>2. CASE cleaner' = cleaner BY <2>2
    <2>3. CASE cleaner' = [cleaner EXCEPT ![q] = "queued"] BY <2>3 DEF TypeOK
    <2> QED BY <2>1, <2>2, <2>3
<1>3. Marked' BY <1>1, <1>2 DEF FamilyInv, Marked, UserStopped
<1>4. ASSUME NEW r \in Run, Barred(r)' PROVE Revoked(r)'
    <2>1. CASE Barred(r)
        <3>1. Revoked(r) BY <2>1 DEF FamilyInv, FamilyRevoked
        <3>2. answer'[r] = "ok" => r # q /\ answer[r] = "ok" BY <1>1 DEF TypeOK
        <3>3. Granted(r) BY <1>1, <1>2, <3>1, <3>2 DEF Granted, Revoked, UserStopped
        <3> QED BY <2>1, <3>3, GrantedIsRevoked
    <2>2. CASE ~Barred(r)
        <3>1. mode = "up" BY <1>1, <1>4, <2>2 DEF Barred, UserStopped
        <3>2. canceller[r] = "idle" /\ cleaner[r] = "none"
            BY <2>2, <3>1 DEF FamilyInv, Marked, Barred
        <3>3. canceller'[r] \in {"idle", "join", "wait"} /\ cleaner'[r] \in {"none", "queued"}
            BY <1>1, <1>2, <3>2
        <3>4. answer'[r] = "ok" => ~UserStopped(r)'
            BY <1>1, <2>2 DEF Barred, UserStopped, TypeOK
        <3> QED BY <3>3, <3>4 DEF Revoked
    <2> QED BY <2>1, <2>2
<1> QED BY <1>3, <1>4 DEF FamilyRevoked

\* A step that records no stop.
Claims == /\ stopReq' = stopReq
          /\ Marked'
          /\ \A r \in Run : Barred(r) => Granted(r)

LEMMA ClaimsKept ==
    ASSUME "watchdog" \notin Env, TypeOK, CancelInv, [Next]_vars, Claims
    PROVE  Marked' /\ FamilyRevoked'
<1>1. ASSUME NEW r \in Run, Barred(r)' PROVE Revoked(r)'
    <2>1. Barred(r) BY <1>1 DEF Claims, Barred, UserStopped
    <2> QED BY <2>1, GrantedIsRevoked DEF Claims
<1> QED BY <1>1 DEF Claims, FamilyRevoked

LEMMA ReturnClaims ==
    ASSUME TypeOK, CancelInv, FamilyInv, NEW q \in Run, CancelReturns(q)
    PROVE  Claims
<1>1. /\ stopReq' = stopReq /\ mode' = mode
      /\ canceller[q] \in {"ok", "error"} /\ answer' = [answer EXCEPT ![q] = canceller[q]]
    BY DEF CancelReturns
<1>2. \A r \in Run : /\ cleaner'[r] \in {cleaner[r], "failed"}
                     /\ cleaner[r] = "none" => cleaner'[r] = "none"
                     /\ canceller'[r] \in {canceller[r], "idle", "error"}
                     /\ canceller[r] = "idle" => canceller'[r] = "idle"
    BY ReturnEffect
<1>3. Marked' BY <1>1, <1>2 DEF FamilyInv, Marked, UserStopped
<1>4. ASSUME NEW r \in Run, Barred(r) PROVE Granted(r)
    <2>1. Revoked(r) BY <1>4 DEF FamilyInv, FamilyRevoked
    <2>2. canceller'[r] = "ok" => Quiet(r) BY <1>2, <2>1 DEF Revoked
    <2>3. cleaner'[r] \in {"join", "ok"} => Quiet(r) BY <1>2, <2>1 DEF Revoked
    <2>4. ASSUME cleaner'[r] = "children" \/ canceller'[r] = "children",
                 NEW c \in Run, ParentOf[c] = r, c \notin todo'[r]
          PROVE  Still(c)
        <3>1. cleaner[r] = "children" \/ canceller[r] = "children" BY <1>2, <2>4
        <3>2. CASE c \notin todo[r] BY <2>1, <2>4, <3>1, <3>2 DEF Revoked
        <3>3. CASE c = q /\ canceller[q] = "ok"
            <4>1. Barred(q)
                <5>1. r \in Ancestors[q] BY <2>4, <3>3
                <5>2. Ancestors[r] \subseteq Ancestors[q] BY <5>1, AncestorsTransitive
                <5> QED BY <1>4, <5>1, <5>2 DEF Barred
            <4>2. Quiet(q) BY <3>3, <4>1 DEF FamilyInv, FamilyRevoked, Revoked
            <4>3. status[q] \notin Ledger!Live
                BY <3>3 DEF CancelInv, StoppedIsOver, Ledger!Live
            <4> QED BY <3>3, <4>2, <4>3 DEF Still
        <3> QED BY <2>4, <3>2, <3>3, ReturnEffect
    <2>5. ASSUME answer'[r] = "ok", UserStopped(r)' PROVE Quiet(r)
        <3>1. UserStopped(r) BY <1>1, <2>5 DEF UserStopped
        <3>2. canceller[r] = "ok" \/ answer[r] = "ok" BY <1>1, <2>5 DEF TypeOK
        <3> QED BY <2>1, <3>1, <3>2 DEF Revoked
    <2> QED BY <2>2, <2>3, <2>4, <2>5 DEF Granted
<1> QED BY <1>1, <1>3, <1>4 DEF Claims

LEMMA FamilyCancelStep ==
    ASSUME "watchdog" \notin Env, TypeOK, CancelInv, FamilyInv, [Next]_vars,
           NEW q \in Run, CancelStep(q)
    PROVE  Marked' /\ FamilyRevoked'
<1> USE DEF TypeOK
<1>1. CASE UserCancels(q) BY <1>1, FamilyCancelRun DEF UserCancels
<1>2. CASE \E c \in Run : PropagateCancel(q, c) BY <1>2, FamilyCancelRun DEF PropagateCancel
\* A step of the cancellation itself: unchanged outside its run, a claim of its
\* own only with the evidence.
<1>0. ASSUME stopReq' = stopReq, mode' = mode, answer' = answer,
             \A r \in Run \ {q} : /\ canceller'[r] = canceller[r] /\ cleaner'[r] = cleaner[r]
                                  /\ todo'[r] = todo[r],
             canceller[q] = "idle" => canceller'[q] = "idle",
             cleaner[q] = "none" => cleaner'[q] = "none",
             Barred(q) => Granted(q)
      PROVE  Marked' /\ FamilyRevoked'
    <2>1. Marked' BY <1>0 DEF FamilyInv, Marked, UserStopped
    <2>2. ASSUME NEW r \in Run, Barred(r) PROVE Granted(r)
        <3>1. Revoked(r) BY <2>2 DEF FamilyInv, FamilyRevoked
        <3>2. r # q => Granted(r) BY <1>0, <3>1 DEF Granted, Revoked, UserStopped
        <3> QED BY <1>0, <2>2, <3>2
    <2> QED BY <1>0, <2>1, <2>2, ClaimsKept DEF Claims
<1>2a. Barred(q) => Revoked(q) BY DEF FamilyInv, FamilyRevoked
<1> USE DEF Revoked, Granted, UserStopped, durable, agents
<1>3. CASE CleanupStarts(q)
    <2>1. \A c \in Run : ParentOf[c] = q /\ c \notin Children(q) => Still(c)
        BY AbsentIsStill DEF Children, FamilyInv
    <2> QED BY <1>0, <1>2a, <1>3, <2>1 DEF CleanupStarts
<1>4. CASE CleanupStops(q)
    <2>1. Barred(q) => Quiet(q) BY <1>2a, <1>4, ChildrenStill DEF CleanupStops
    <2> QED BY <1>0, <1>2a, <1>4, <2>1 DEF CleanupStops
<1>5. CASE CleanupFails(q) BY <1>0, <1>2a, <1>5 DEF CleanupFails
<1>6. CASE CleanupJoins(q) BY <1>0, <1>2a, <1>6 DEF CleanupJoins
<1>7. CASE JoinSucceeds(q)
    <2>1. cleaner[q] = "ok" BY <1>7 DEF JoinSucceeds, CancelInv, OwnCleanup
    <2> QED BY <1>0, <1>2a, <1>7, <2>1 DEF JoinSucceeds
<1>8. CASE JoinFails(q) BY <1>0, <1>2a, <1>8 DEF JoinFails
<1>9. CASE JoinTimesOut(q) BY <1>0, <1>2a, <1>9 DEF JoinTimesOut
<1>10. CASE TailJoined(q) BY <1>0, <1>2a, <1>10 DEF TailJoined
<1>11. CASE ProcessesCleaned(q)
    <2>1. \A c \in Run : ParentOf[c] = q /\ c \notin Children(q) => Still(c)
        BY AbsentIsStill DEF Children, FamilyInv
    <2> QED BY <1>0, <1>2a, <1>11, <2>1 DEF ProcessesCleaned
<1>12. CASE ChildrenRevoked(q)
    <2>1. Barred(q) => Quiet(q) BY <1>2a, <1>12, ChildrenStill DEF ChildrenRevoked
    <2> QED BY <1>0, <1>2a, <1>12, <2>1 DEF ChildrenRevoked
<1>13. CASE CancelReturns(q) BY <1>13, ReturnClaims, ClaimsKept
<1>14. CASE ShutdownKills(q) BY <1>0, <1>2a, <1>14 DEF ShutdownKills, cancelling
<1> QED BY <1>1, <1>2, <1>3, <1>4, <1>5, <1>6, <1>7, <1>8, <1>9, <1>10, <1>11, <1>12, <1>13,
           <1>14, CancelStep(q) DEF CancelStep

LEMMA FamilyNext ==
    ASSUME "watchdog" \notin Env, TypeOK, CancelInv, FamilyInv, [Next]_vars
    PROVE  FamilyInv'
<1> SUFFICES Marked' /\ FamilyRevoked' BY RootedNext DEF FamilyInv
<1>0. ASSUME stopReq' = stopReq, UNCHANGED <<cleaner, canceller, todo, answer>>,
             mode' = mode \/ mode' = "stopping"
      PROVE  Marked' /\ FamilyRevoked'
    <2>1. Marked' BY <1>0 DEF FamilyInv, Marked, UserStopped
    <2>2. \A r \in Run : Revoked(r) => Granted(r) BY <1>0 DEF Granted, Revoked, UserStopped
    <2> QED BY <1>0, <2>1, <2>2, ClaimsKept DEF FamilyInv, FamilyRevoked, Claims
<1>1. ASSUME NEW r \in Run, RunStep(r) PROVE Marked' /\ FamilyRevoked'
    BY <1>0, <1>1, RunEffect
<1>2. ASSUME NEW a \in Agent, AgentStep(a) PROVE Marked' /\ FamilyRevoked'
    <2>1. CASE \E r \in Run : PurgeRun(a, r) BY <2>1, FamilyCancelRun DEF PurgeRun
    <2>2. CASE ~\E r \in Run : PurgeRun(a, r)
        BY <1>0, <1>2, <2>2 DEF AgentStep, ReserveAgentDeletion, ReleaseAgentDeletion,
           DeleteAgentBegins, DeleteAgentEnds, durable, cancelling
    <2> QED BY <2>1, <2>2
<1>3. CASE BeginShutdown BY <1>0, <1>3 DEF BeginShutdown, durable, cancelling
<1>4. CASE Restart
    <2>1. Marked' BY <1>4 DEF Restart, Marked
    <2>2. \A d \in Run : status'[d] \notin Ledger!Live BY <1>4 DEF Restart, Ledger!Live
    <2>3. \A r \in Run : Quiet(r)' BY <2>2 DEF Quiet
    <2>4. \A r \in Run : cleaner'[r] = "none" /\ canceller'[r] = "idle" BY <1>4 DEF Restart
    <2> QED BY <2>1, <2>3, <2>4 DEF FamilyRevoked, Revoked
<1>5. CASE UNCHANGED vars BY <1>0, <1>5 DEF vars, durable, cancelling, agents
<1> QED BY <1>1, <1>2, <1>3, <1>4, <1>5, FamilyCancelStep DEF Next

\* Once cancel_run has told a user that a run is stopped, everything below it is
\* over at any depth, and stays so: whatever runs were starting, whichever
\* cancellations of the family overlapped, timed out or were retried.
THEOREM StopCorrect == "watchdog" \notin Env => (Spec => []StopReachesFamily)
<1> SUFFICES ASSUME "watchdog" \notin Env PROVE Spec => []StopReachesFamily
    OBVIOUS
<1>1. Init => FamilyInv
    BY DEF Init, FamilyInv, Rooted, Marked, FamilyRevoked, Barred, UserStopped
<1>2. TypeOK /\ CancelInv /\ FamilyInv /\ [Next]_vars => FamilyInv'
    BY FamilyNext
<1>3. TypeOK /\ FamilyInv => StopReachesFamily
    BY DEF TypeOK, FamilyInv, FamilyRevoked, Barred, Revoked, Quiet, StopReachesFamily,
       Ledger!RunStatus
<1>4. Spec => [](TypeOK /\ CancelInv) BY ProgressCorrect
<1> QED BY <1>1, <1>2, <1>3, <1>4, PTL DEF Spec
=============================================================================
