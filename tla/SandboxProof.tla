---------------------------- MODULE SandboxProof ----------------------------
(***************************************************************************)
(* What Sandbox guarantees for every number of commands, captures, stops   *)
(* and crashes.  First the types, then the receipts; the two other results *)
(* rest on one invariant, Inv, whose parts are explained where they stand. *)
(* They assume that processes do not survive the cancellation of a command *)
(* of which a stop has collected the outer task ("late" is not in Env).    *)
(***************************************************************************)
EXTENDS Sandbox, FiniteSetTheorems, TLAPS

-----------------------------------------------------------------------------
(* Types, one variable after the other *)

\* The records of one command, one receipt, one stop.
Command == [at : Stages, task : {"none", "outer", "inner"},
            kill : {"no", "asked", "leaving"}, cut : BOOLEAN,
            fate : {"none", "ok", "error", "fault", "cancel"}]

Entry == [state : States, req : BOOLEAN,
          cleanup : {"none", "pending", "failed", "complete"}]

Call == [at : {"idle", "marked", "joining", "closing", "over"}, all : BOOLEAN,
         tasks : SUBSET (Op \X {"outer", "inner"}), ops : SUBSET Op]

\* TypeOK, taken apart by variable.
OpType == op \in [Op -> Command]
ReceiptType == receipt \in [Op -> Entry]
StopType == stop \in [Stop -> Call]
PlainType ==
    /\ cap \in [Capture -> {"new", "asleep", "awake", "active", "done"}]
    /\ native \subseteq Op
    /\ running \in BOOLEAN
    /\ stopping \in BOOLEAN
    /\ stopped \subseteq Op
    /\ alive \in BOOLEAN
    /\ crashes \in 0..MaxCrashes

\* TypeOK is these four together.
LEMMA Types == TypeOK <=> OpType /\ ReceiptType /\ StopType /\ PlainType
    BY DEF TypeOK, OpType, ReceiptType, StopType, PlainType, Command, Entry, Call

\* The initial values are of these types.
LEMMA TypeInit == Init => OpType /\ ReceiptType /\ StopType /\ PlainType
<1> SUFFICES ASSUME Init PROVE OpType /\ ReceiptType /\ StopType /\ PlainType OBVIOUS
<1>1. OpType BY DEF Init, OpType, Command, Stages, NewOp
<1>2. ReceiptType BY DEF Init, ReceiptType, Entry, States
<1>3. StopType BY DEF Init, StopType, Call, Idle
<1>4. crashes \in 0..MaxCrashes BY SandboxConstants DEF Init
<1>5. PlainType BY <1>4, Zenon DEF Init, PlainType
<1> QED BY <1>1, <1>2, <1>3, <1>5

\* notify_all of the gate leaves commands commands.
LEMMA OpWoken ==
    ASSUME NEW f \in [Op -> Command]
    PROVE  WokenOps(f) \in [Op -> Command]
    BY DEF WokenOps, Command, Stages

\* The same for captures.
LEMMA CapWoken ==
    ASSUME NEW f \in [Capture -> {"new", "asleep", "awake", "active", "done"}]
    PROVE  WokenCaptures(f) \in [Capture -> {"new", "asleep", "awake", "active", "done"}]
    BY DEF WokenCaptures

\* So does the cancellation of the outer task inside the gate.
LEMMA Disconnected ==
    ASSUME NEW f \in [Op -> Command], NEW o \in Op, NEW cut \in BOOLEAN
    PROVE  [f EXCEPT ![o].kill = "leaving", ![o].cut = cut] \in [Op -> Command]
    BY DEF Command

\* The end of an inner task keeps the type of op.
LEMMA OpInner ==
    ASSUME OpType, NEW o \in Op,
           NEW fate \in {"ok", "error", "fault", "cancel"}, InnerEnds(o, fate)
    PROVE  OpType'
<1> DEFINE task == Unregistered(o)
<1>1. task \in {"none", "outer", "inner"} BY DEF OpType, Command, Unregistered
<1>2. "ended" \in Stages BY DEF Stages
<1>3. op \in [Op -> Command] BY DEF OpType
<1> DEFINE ended == [op EXCEPT ![o].at = "ended", ![o].fate = fate]
<1>4. ended \in [Op -> Command] BY <1>2, <1>3, ZenonT(60) DEF Command
<1>5. op' = [ended EXCEPT ![o].cut = FALSE, ![o].task = task] BY DEF InnerEnds
<1> HIDE DEF task, ended
<1>6. [ended EXCEPT ![o].cut = FALSE, ![o].task = task] \in [Op -> Command]
    BY <1>1, <1>4, ZenonT(60) DEF Command
<1> QED BY <1>5, <1>6 DEF OpType

\* The disconnection of a caller keeps it.
LEMMA OpDisconnects ==
    ASSUME OpType, NEW o \in Op, Disconnects(o)
    PROVE  OpType'
<1> DEFINE cut == op[o].cut \/ (op[o].at # "ended" /\ o \notin Keep)
<1>1. cut \in BOOLEAN BY Zenon DEF OpType, Command
<1>2. op' = [op EXCEPT ![o].kill = "leaving", ![o].cut = cut] BY DEF OpType, Disconnects
<1> HIDE DEF cut
<1> QED BY <1>1, <1>2, Disconnected DEF OpType

\* Leaving the gate keeps it.
LEMMA OpLeave ==
    ASSUME OpType, NEW o \in Op, Leave(o)
    PROVE  OpType'
<1> DEFINE left == [op EXCEPT ![o].at = "done", ![o].task = "none"]
<1>0. "done" \in Stages BY DEF Stages
<1>1. left \in [Op -> Command] BY <1>0, ZenonT(60) DEF OpType, Command
<1>2. op' \in {left, WokenOps(left)} BY DEF Leave
<1> HIDE DEF left
<1> QED BY <1>1, <1>2, OpWoken DEF OpType

\* Every step keeps it.
LEMMA OpTypeNext == OpType /\ [Next]_vars => OpType'
<1> SUFFICES ASSUME OpType, [Next]_vars PROVE OpType'
    OBVIOUS
<1> USE DEF OpType
<1>1. ASSUME NEW o \in Op, OpStep(o) PROVE OpType'
    <2> USE DEF Command, Stages
    <2>1. CASE TriesGate(o) BY <2>1 DEF TriesGate
    <2>2. CASE EnsureRunning(o) BY <2>2 DEF EnsureRunning
    <2>3. CASE Prepare(o) BY <2>3 DEF Prepare
    <2>4. CASE MarkStarted(o) BY <2>4, OpInner DEF MarkStarted
    <2>5. CASE Launch(o) BY <2>5, OpInner DEF Launch
    <2>6. CASE Finishes(o) BY <2>6, OpInner DEF Finishes
    <2>7. CASE CutBeforeLaunch(o) BY <2>7, OpInner DEF CutBeforeLaunch
    <2>8. CASE Drained(o) BY <2>8, OpInner DEF Drained
    <2>9. CASE OuterEnds(o) BY <2>9, OpLeave DEF OuterEnds
    <2>10. CASE KilledOutside(o) BY <2>10, OpLeave DEF KilledOutside
    <2>11. CASE KilledInside(o) BY <2>11, OpDisconnects DEF KilledInside
    <2> QED BY <1>1, <2>1, <2>2, <2>3, <2>4, <2>5, <2>6, <2>7, <2>8, <2>9, <2>10, <2>11 DEF OpStep
<1>2. ASSUME NEW o \in Op, Submit(o) \/ Calls(o) \/ CallerCancels(o) PROVE OpType'
    <2>1. "arrived" \in Stages BY DEF Stages
    <2>2. CASE Submit(o) BY <2>1, <2>2, ZenonT(60) DEF Submit, Command
    <2>3. CASE Calls(o) BY <2>1, <2>3 DEF Calls, Command
    <2>4. CASE CallerCancels(o) BY <2>4, ZenonT(60) DEF CallerCancels, Command
    <2> QED BY <1>2, <2>2, <2>3, <2>4
<1>3. ASSUME NEW s \in Stop, StopStep(s) \/ StopMarks(s) \/ StopGivesUp(s) PROVE OpType'
    <2>1. CASE StopCancels(s)
        <3>1. ASSUME NEW o \in Op PROVE /\ [op[o] EXCEPT !.kill = "asked"] \in Command
                                        /\ [op[o] EXCEPT !.cut = TRUE] \in Command
                                        /\ op[o] \in Command
            BY DEF Command
        <3> QED BY <2>1, <3>1 DEF StopCancels
    <2>2. CASE UNCHANGED op BY <2>2
    <2> QED BY <1>3, <2>1, <2>2 DEF StopStep, StopMarks, StopGivesUp, StopTimesOut, StopAbandoned,
                                    StopJoins, StopTerminates, StopFails, StopEndsFailed
<1>4. ASSUME NEW c \in Capture, CaptureTries(c) \/ CaptureCancelled(c) \/ CaptureEnds(c) PROVE OpType'
    BY <1>4, OpWoken DEF CaptureTries, CaptureCancelled, CaptureEnds, CaptureGone
<1>5. CASE Crash BY <1>5 DEF Crash, Command, Stages, NewOp
<1>6. CASE Recover BY <1>6 DEF Recover
<1>7. CASE UNCHANGED vars BY <1>7 DEF vars
<1> QED BY <1>1, <1>2, <1>3, <1>4, <1>5, <1>6, <1>7 DEF Next, Progress, Demand, CaptureStep

\* The end of an inner task writes a receipt.
LEMMA ReceiptInner ==
    ASSUME ReceiptType, NEW o \in Op, NEW fate, InnerEnds(o, fate)
    PROVE  ReceiptType'
<1>1. Cleanup(o, fate \in {"ok", "cancel"}) \in {"none", "pending", "failed", "complete"}
    BY DEF ReceiptType, Entry, Cleanup
<1> QED BY <1>1 DEF ReceiptType, Entry, States, InnerEnds

\* So does the end of an outer one,
LEMMA ReceiptLeave ==
    ASSUME ReceiptType, NEW o \in Op, Leave(o)
    PROVE  ReceiptType'
<1>1. Closed(o) \in States BY DEF ReceiptType, Entry, Closed, States
<1> QED BY <1>1 DEF ReceiptType, Entry, Leave

\* the intent of a stop,
LEMMA ReceiptMarked ==
    ASSUME ReceiptType, NEW ops
    PROVE  [o \in Op |-> IF o \in ops THEN [receipt[o] EXCEPT !.req = TRUE, !.cleanup = "pending"]
                         ELSE receipt[o]] \in [Op -> Entry]
    BY DEF ReceiptType, Entry

\* its outcome,
LEMMA ReceiptOutcome ==
    ASSUME ReceiptType, NEW s \in Stop, NEW cleanup \in {"pending", "failed", "complete"}
    PROVE  Outcome(s, cleanup) \in [Op -> Entry]
    BY DEF ReceiptType, Entry, Outcome

\* and a restart.
LEMMA ReceiptRecovered ==
    ASSUME ReceiptType, NEW settled
    PROVE  Recovered(settled) \in [Op -> Entry]
<1> SUFFICES ASSUME NEW o \in Op
             PROVE  [receipt[o] EXCEPT
                        !.state = IF @ = "running" THEN "interrupted" ELSE @,
                        !.cleanup = IF o \notin Debts THEN @
                                    ELSE IF o \in settled THEN "complete" ELSE "failed"] \in Entry
    BY DEF Recovered
<1> QED BY DEF ReceiptType, Entry, States

\* A stop joins registered commands, and writes the receipts of commands.
LEMMA Targets ==
    /\ \A all : StopTargets(all) \subseteq SUBSET Registered
    /\ \A targets \in SUBSET Registered : TakenUp(targets) \subseteq SUBSET Op
<1>1. \A all : StopTargets(all) \subseteq SUBSET Registered BY DEF StopTargets
<1>2. \A targets \in SUBSET Registered : TakenUp(targets) \subseteq SUBSET Op
    BY DEF TakenUp, Registered, Debts
<1> QED BY <1>1, <1>2

\* Every step keeps the type of receipt.
LEMMA ReceiptTypeNext == ReceiptType /\ [Next]_vars => ReceiptType'
<1> SUFFICES ASSUME ReceiptType, [Next]_vars PROVE ReceiptType'
    OBVIOUS
<1> USE DEF ReceiptType
<1>1. ASSUME NEW o \in Op, OpStep(o) PROVE ReceiptType'
    <2>0. CASE UNCHANGED receipt BY <2>0
    <2>3. CASE Prepare(o) BY <2>3 DEF Prepare, Entry, States
    <2>4. CASE MarkStarted(o) BY <2>4, ReceiptInner DEF MarkStarted, States
    <2>5. CASE Launch(o) BY <2>5, ReceiptInner DEF Launch, States
    <2>6. CASE Finishes(o) BY <2>6, ReceiptInner DEF Finishes, States
    <2>7. CASE CutBeforeLaunch(o) BY <2>7, ReceiptInner DEF CutBeforeLaunch, States
    <2>8. CASE Drained(o) BY <2>8, ReceiptInner DEF Drained, States
    <2>9. CASE OuterEnds(o) BY <2>9, ReceiptLeave DEF OuterEnds
    <2>10. CASE KilledOutside(o) BY <2>10, ReceiptLeave DEF KilledOutside
    <2>11. CASE KilledInside(o) BY <2>11 DEF KilledInside, Disconnects, Entry
    <2> QED BY <1>1, <2>0, <2>3, <2>4, <2>5, <2>6, <2>7, <2>8, <2>9, <2>10, <2>11
            DEF OpStep, TriesGate, EnsureRunning
<1>2. ASSUME NEW o \in Op, Submit(o) \/ Calls(o) \/ CallerCancels(o) PROVE ReceiptType'
    BY <1>2 DEF Submit, Calls, CallerCancels, Entry, States
<1>3. ASSUME NEW s \in Stop, StopStep(s) \/ StopMarks(s) \/ StopGivesUp(s) PROVE ReceiptType'
    <2>1. CASE StopMarks(s)
        <3>1. PICK all \in BOOLEAN, targets \in SUBSET Registered, ops \in SUBSET Op :
                  Marks(s, all, targets, ops)
            BY <2>1, Targets DEF StopMarks
        <3> QED BY <3>1, ReceiptMarked DEF Marks
    <2>2. CASE UNCHANGED receipt BY <2>2
    <2>3. CASE StopJoins(s) BY <2>3, ReceiptOutcome DEF StopJoins, StopConfirmed
    <2>4. CASE StopTerminates(s) BY <2>4, ReceiptOutcome DEF StopTerminates, StopConfirmed
    <2>5. CASE StopTimesOut(s) BY <2>5, ReceiptOutcome DEF StopTimesOut
    <2>6. CASE StopFails(s) \/ StopAbandoned(s)
        BY <2>6, ReceiptOutcome DEF StopFails, StopAbandoned, StopEndsFailed
    <2> QED BY <1>3, <2>1, <2>2, <2>3, <2>4, <2>5, <2>6 DEF StopStep, StopGivesUp, StopCancels
<1>4. ASSUME NEW c \in Capture, CaptureTries(c) \/ CaptureCancelled(c) \/ CaptureEnds(c)
      PROVE  ReceiptType'
    BY <1>4 DEF CaptureTries, CaptureCancelled, CaptureEnds
<1>5. CASE Crash BY <1>5 DEF Crash
<1>6. CASE Recover BY <1>6, ReceiptRecovered DEF Recover
<1>7. CASE UNCHANGED vars BY <1>7 DEF vars
<1> QED BY <1>1, <1>2, <1>3, <1>4, <1>5, <1>6, <1>7 DEF Next, Progress, Demand, CaptureStep

\* What a stop has collected are tasks.
LEMMA Collected ==
    ASSUME OpType, NEW targets \in SUBSET Registered
    PROVE  {<<o, op[o].task>> : o \in targets} \in SUBSET (Op \X {"outer", "inner"})
<1>1. \A o \in Registered : o \in Op /\ op[o].task \in {"outer", "inner"}
    BY DEF Registered, OpType, Command
<1> QED BY <1>1

\* Every step keeps the type of stop.
LEMMA StopTypeNext == OpType /\ StopType /\ [Next]_vars => StopType'
<1> SUFFICES ASSUME OpType, StopType, [Next]_vars PROVE StopType'
    OBVIOUS
<1> USE DEF StopType
<1>1. ASSUME NEW s \in Stop, StopMarks(s) PROVE StopType'
    <2>1. PICK all \in BOOLEAN, targets \in SUBSET Registered, ops \in SUBSET Op :
              Marks(s, all, targets, ops)
        BY <1>1, Targets DEF StopMarks
    <2> DEFINE tasks == {<<o, op[o].task>> : o \in targets}
    <2>2. tasks \in SUBSET (Op \X {"outer", "inner"}) BY Collected
    <2>3. stop' = [stop EXCEPT ![s] = [at |-> "marked", all |-> all, ops |-> ops, tasks |-> tasks]]
        BY <2>1 DEF Marks
    <2> HIDE DEF tasks
    <2> QED BY <2>2, <2>3 DEF Call
<1>2. ASSUME NEW s \in Stop, StopStep(s) \/ StopGivesUp(s) PROVE StopType'
    <2> USE DEF Call, Over, Idle
    <2>1. CASE StopCancels(s) BY <2>1 DEF StopCancels
    <2>2. CASE StopJoins(s)
        <3>1. CASE stop[s].all BY <2>2, <3>1 DEF StopJoins
        <3>2. CASE ~stop[s].all
            <4>1. stop' = [stop EXCEPT ![s] = Over] BY <2>2, <3>2, Zenon DEF StopJoins, StopConfirmed
            <4> QED BY <4>1
        <3> QED BY <3>1, <3>2
    <2>3. CASE StopTerminates(s) BY <2>3 DEF StopTerminates, StopConfirmed
    <2>4. CASE StopFails(s) \/ StopAbandoned(s)
        <3>1. stop' = [stop EXCEPT ![s] = Over]
            BY <2>4, Zenon DEF StopFails, StopAbandoned, StopEndsFailed
        <3> QED BY <3>1
    <2>5. CASE StopTimesOut(s) BY <2>5 DEF StopTimesOut
    <2> QED BY <1>2, <2>1, <2>2, <2>3, <2>4, <2>5 DEF StopStep, StopGivesUp
<1>3. CASE Crash BY <1>3 DEF Crash, Call, Over, Idle
<1>4. CASE UNCHANGED stop BY <1>4
<1> QED BY <1>1, <1>2, <1>3, <1>4
        DEF Next, Progress, Demand, CaptureStep, vars, OpStep, TriesGate, EnsureRunning, Prepare,
            MarkStarted, Launch, Finishes, CutBeforeLaunch, Drained, OuterEnds, KilledOutside,
            KilledInside, Submit, Calls, CallerCancels, CaptureTries, CaptureCancelled, CaptureEnds,
            Recover

\* Every step keeps the types of the rest.
LEMMA PlainTypeNext == StopType /\ PlainType /\ [Next]_vars => PlainType'
<1> SUFFICES ASSUME StopType, PlainType, [Next]_vars PROVE PlainType'
    OBVIOUS
<1> USE DEF PlainType
<1>1. ASSUME NEW o \in Op, OpStep(o) PROVE PlainType'
    <2>1. CASE EnsureRunning(o) BY <2>1, Zenon DEF EnsureRunning
    <2>2. CASE MarkStarted(o) BY <2>2, Zenon DEF MarkStarted, InnerEnds
    <2>3. CASE Launch(o) BY <2>3 DEF Launch, InnerEnds
    <2>4. CASE Finishes(o) BY <2>4 DEF Finishes, InnerEnds
    <2>5. CASE CutBeforeLaunch(o) BY <2>5, Zenon DEF CutBeforeLaunch, InnerEnds
    <2>6. CASE Drained(o) BY <2>6 DEF Drained, InnerEnds
    <2>7. CASE OuterEnds(o) BY <2>7, CapWoken DEF OuterEnds, Leave
    <2>8. CASE KilledOutside(o) BY <2>8, CapWoken DEF KilledOutside, Leave
    <2>9. CASE TriesGate(o) \/ Prepare(o) \/ KilledInside(o)
        BY <2>9 DEF TriesGate, Prepare, KilledInside, Disconnects
    <2> QED BY <1>1, <2>1, <2>2, <2>3, <2>4, <2>5, <2>6, <2>7, <2>8, <2>9 DEF OpStep
<1>2. ASSUME NEW o \in Op, Submit(o) \/ Calls(o) \/ CallerCancels(o) PROVE PlainType'
    BY <1>2 DEF Submit, Calls, CallerCancels
<1>3. ASSUME NEW s \in Stop, StopStep(s) \/ StopMarks(s) \/ StopGivesUp(s) PROVE PlainType'
    <2>0. stop[s].ops \subseteq Op BY DEF StopType, Call
    <2>1. CASE StopMarks(s) BY <2>1, Zenon DEF StopMarks, Marks
    <2>2. CASE StopCancels(s) BY <2>2, Zenon DEF StopCancels
    <2>3. CASE StopJoins(s)
        <3>1. stopped' \subseteq Op BY <2>0, <2>3 DEF StopJoins, StopConfirmed
        <3>2. running' \in BOOLEAN /\ stopping' \in BOOLEAN
            BY <2>3, Zenon DEF StopJoins, StopConfirmed
        <3> QED BY <2>3, <3>1, <3>2 DEF StopJoins
    <2>4. CASE StopTerminates(s)
        <3>1. stopped' \subseteq Op BY <2>0, <2>4 DEF StopTerminates, StopConfirmed
        <3>2. stopping' \in BOOLEAN BY <2>4, Zenon DEF StopTerminates, StopConfirmed
        <3> QED BY <2>4, <3>1, <3>2 DEF StopTerminates
    <2>5. CASE StopFails(s) \/ StopAbandoned(s)
        BY <2>5, Zenon DEF StopFails, StopAbandoned, StopEndsFailed
    <2>6. CASE StopTimesOut(s) BY <2>6, Zenon DEF StopTimesOut
    <2> QED BY <1>3, <2>1, <2>2, <2>3, <2>4, <2>5, <2>6 DEF StopStep, StopGivesUp
<1>4. ASSUME NEW c \in Capture, CaptureTries(c) \/ CaptureCancelled(c) \/ CaptureEnds(c)
      PROVE  PlainType'
    BY <1>4, CapWoken DEF CaptureTries, CaptureCancelled, CaptureEnds, CaptureGone
<1>5. CASE Crash
    <2>1. crashes' \in 0..MaxCrashes BY <1>5, SandboxConstants DEF Crash
    <2>2. cap' \in [Capture -> {"new", "asleep", "awake", "active", "done"}] BY <1>5 DEF Crash
    <2> QED BY <1>5, <2>1, <2>2 DEF Crash
<1>6. CASE Recover
    <2>1. stopping' \in BOOLEAN BY <1>6 DEF Recover
    <2>2. stopped' \subseteq Op BY <1>6 DEF Recover, Debts
    <2> QED BY <1>6, <2>1, <2>2 DEF Recover
<1>7. CASE UNCHANGED vars BY <1>7, Zenon DEF vars
<1> QED BY <1>1, <1>2, <1>3, <1>4, <1>5, <1>6, <1>7 DEF Next, Progress, Demand, CaptureStep

\* Every reachable state is of the declared types.
THEOREM TypeCorrect == Spec => []TypeOK
<1> DEFINE Typed == OpType /\ ReceiptType /\ StopType /\ PlainType
<1>1. Init => Typed BY TypeInit
<1>2. Typed /\ [Next]_vars => Typed'
    BY OpTypeNext, ReceiptTypeNext, StopTypeNext, PlainTypeNext
<1>3. Typed => TypeOK BY Types
<1> QED BY <1>1, <1>2, <1>3, PTL DEF Spec

-----------------------------------------------------------------------------
(* What a step does to one command and its receipt *)

\* The step does not touch it.
Same(o) == op'[o] = op[o] /\ receipt'[o] = receipt[o]

\* The step wakes it, if it sleeps before the gate.
Awakened(o) ==
    /\ receipt'[o] = receipt[o]
    /\ \/ op'[o] = op[o]
       \/ op[o].at = "asleep" /\ op'[o] = [op[o] EXCEPT !.at = "arrived"]

\* Its inner task has ended.
HasEnded(o, fate) ==
    /\ op'[o].at = "ended" /\ op'[o].task = Unregistered(o) /\ op'[o].kill = op[o].kill
    /\ op'[o].cut = FALSE /\ op'[o].fate = fate
    /\ receipt'[o].state = "closed" /\ receipt'[o].req = receipt[o].req
    /\ receipt[o].req /\ fate = "fault" => receipt'[o].cleanup = "failed"

\* InnerEnds is about one command.
LEMMA InnerShape ==
    ASSUME OpType, ReceiptType, NEW o \in Op, NEW fate, InnerEnds(o, fate)
    PROVE  HasEnded(o, fate) /\ \A p \in Op \ {o} : Same(p)
<1>1. op \in [Op -> Command] /\ receipt \in [Op -> Entry] BY DEF OpType, ReceiptType
<1> DEFINE ended == [op EXCEPT ![o].at = "ended", ![o].fate = fate]
<1> DEFINE task == Unregistered(o)
<1> DEFINE cleanup == Cleanup(o, fate \in {"ok", "cancel"})
<1>2. /\ ended \in [Op -> [at : {"ended"} \cup Stages, task : {"none", "outer", "inner"},
            kill : {"no", "asked", "leaving"}, cut : BOOLEAN,
            fate : {fate, "none", "ok", "error", "fault", "cancel"}]]
      /\ ended[o].at = "ended" /\ ended[o].fate = fate /\ ended[o].kill = op[o].kill
      /\ \A p \in Op \ {o} : ended[p] = op[p]
    BY <1>1 DEF Command
<1>3. op' = [ended EXCEPT ![o].cut = FALSE, ![o].task = task] BY DEF InnerEnds
<1>4. receipt' = [receipt EXCEPT ![o].state = "closed", ![o].cleanup = cleanup] BY DEF InnerEnds
<1>7. receipt[o].req /\ fate = "fault" => cleanup = "failed" BY DEF Cleanup
<1> HIDE DEF ended, task, cleanup
<1>5. /\ op'[o].at = "ended" /\ op'[o].task = task /\ op'[o].kill = op[o].kill
      /\ op'[o].cut = FALSE /\ op'[o].fate = fate
      /\ \A p \in Op \ {o} : op'[p] = op[p]
    BY <1>2, <1>3
<1>6. /\ receipt'[o].state = "closed" /\ receipt'[o].req = receipt[o].req
      /\ receipt'[o].cleanup = cleanup
      /\ \A p \in Op \ {o} : receipt'[p] = receipt[p]
    BY <1>1, <1>4 DEF Entry
<1> QED BY <1>5, <1>6, <1>7 DEF Same, HasEnded, task

\* Leave ends one command and wakes the others.
LEMMA LeaveShape ==
    ASSUME OpType, ReceiptType, NEW o \in Op, Leave(o)
    PROVE  /\ op'[o].at = "done" /\ op'[o].task = "none"
           /\ op'[o].cut = op[o].cut /\ op'[o].fate = op[o].fate
           /\ receipt'[o].state = Closed(o) /\ receipt'[o].req = receipt[o].req
           /\ receipt'[o].cleanup = receipt[o].cleanup
           /\ \A p \in Op \ {o} : Awakened(p)
<1>1. op \in [Op -> Command] /\ receipt \in [Op -> Entry] BY DEF OpType, ReceiptType
<1> DEFINE left == [op EXCEPT ![o].at = "done", ![o].task = "none"]
<1> DEFINE state == Closed(o)
<1>2. /\ left[o].at = "done" /\ left[o].task = "none"
      /\ left[o].cut = op[o].cut /\ left[o].fate = op[o].fate
      /\ \A p \in Op \ {o} : left[p] = op[p]
    BY <1>1 DEF Command
<1>3. op' \in {left, WokenOps(left)} BY DEF Leave
<1>4. receipt' = [receipt EXCEPT ![o].state = state] BY DEF Leave
<1> HIDE DEF left, state
<1>5. op'[o] = left[o] BY <1>2, <1>3 DEF WokenOps
<1>6. \A p \in Op \ {o} : \/ op'[p] = op[p]
                          \/ op[p].at = "asleep" /\ op'[p] = [op[p] EXCEPT !.at = "arrived"]
    BY <1>2, <1>3 DEF WokenOps
<1>7. /\ receipt'[o].state = state /\ receipt'[o].req = receipt[o].req
      /\ receipt'[o].cleanup = receipt[o].cleanup
      /\ \A p \in Op \ {o} : receipt'[p] = receipt[p]
    BY <1>1, <1>4 DEF Entry
<1> QED BY <1>2, <1>5, <1>6, <1>7 DEF Awakened, state

\* Disconnects is about one command, and moves it nowhere.
LEMMA DisconnectShape ==
    ASSUME OpType, ReceiptType, NEW o \in Op, Disconnects(o)
    PROVE  /\ op'[o].at = op[o].at /\ op'[o].task = op[o].task /\ op'[o].fate = op[o].fate
           /\ op'[o].cut => op[o].cut \/ (op[o].at # "ended" /\ o \notin Keep)
           /\ receipt'[o].state = receipt[o].state
           /\ op[o].task = "inner" /\ o \notin Keep
                 => receipt'[o].req = TRUE /\ receipt'[o].cleanup = "pending"
           /\ ~(op[o].task = "inner" /\ o \notin Keep) => receipt'[o] = receipt[o]
           /\ \A p \in Op \ {o} : Same(p)
<1>1. op \in [Op -> Command] /\ receipt \in [Op -> Entry] BY DEF OpType, ReceiptType
<1> DEFINE cut == op[o].cut \/ (op[o].at # "ended" /\ o \notin Keep)
<1>2. op' = [op EXCEPT ![o].kill = "leaving", ![o].cut = cut] BY DEF Disconnects
<1>3. receipt' = IF op[o].task = "inner" /\ o \notin Keep
                 THEN [receipt EXCEPT ![o].req = TRUE, ![o].cleanup = "pending"]
                 ELSE receipt
    BY DEF Disconnects
<1> HIDE DEF cut
<1>4. /\ op'[o].at = op[o].at /\ op'[o].task = op[o].task /\ op'[o].fate = op[o].fate
      /\ op'[o].cut = cut
      /\ \A p \in Op \ {o} : op'[p] = op[p]
    BY <1>1, <1>2 DEF Command
<1>5. /\ receipt'[o].state = receipt[o].state
      /\ op[o].task = "inner" /\ o \notin Keep
            => receipt'[o].req = TRUE /\ receipt'[o].cleanup = "pending"
      /\ ~(op[o].task = "inner" /\ o \notin Keep) => receipt'[o] = receipt[o]
      /\ \A p \in Op \ {o} : receipt'[p] = receipt[p]
    BY <1>1, <1>3 DEF Entry
<1> QED BY <1>4, <1>5 DEF Same, cut

\* A command that is woken changes its place only.
LEMMA AwakenedShape ==
    ASSUME OpType, NEW o \in Op, Awakened(o)
    PROVE  /\ receipt'[o] = receipt[o]
           /\ op'[o].at = op[o].at \/ (op[o].at = "asleep" /\ op'[o].at = "arrived")
           /\ op'[o].task = op[o].task /\ op'[o].kill = op[o].kill
           /\ op'[o].cut = op[o].cut /\ op'[o].fate = op[o].fate
    BY DEF Awakened, OpType, Command

\* A capture does nothing to a command but wake it.
LEMMA WokenShape ==
    ASSUME OpType, op' = op \/ op' = WokenOps(op), UNCHANGED receipt, NEW o \in Op
    PROVE  Awakened(o)
    BY DEF WokenOps, Awakened

\* A stop that cancels moves nothing, and cuts inner tasks it has collected.
LEMMA CancelShape ==
    ASSUME OpType, NEW s \in Stop, StopCancels(s), NEW o \in Op
    PROVE  /\ op'[o].at = op[o].at /\ op'[o].task = op[o].task /\ op'[o].fate = op[o].fate
           /\ op'[o].cut => op[o].cut \/ <<o, "inner">> \in stop[s].tasks
           /\ receipt'[o] = receipt[o]
<1>1. op \in [Op -> Command] BY DEF OpType
<1> DEFINE asked == <<o, "outer">> \in stop[s].tasks /\ op[o].kill = "no" /\ op[o].at # "done"
<1> DEFINE cut == <<o, "inner">> \in stop[s].tasks /\ op[o].at \notin {"ended", "done"}
<1>2. op'[o] = CASE asked -> [op[o] EXCEPT !.kill = "asked"]
                 [] cut -> [op[o] EXCEPT !.cut = TRUE]
                 [] OTHER -> op[o]
    BY DEF StopCancels
<1>3. cut => <<o, "inner">> \in stop[s].tasks OBVIOUS
<1> HIDE DEF asked, cut
<1>4. \/ op'[o] = [op[o] EXCEPT !.kill = "asked"]
      \/ cut /\ op'[o] = [op[o] EXCEPT !.cut = TRUE]
      \/ op'[o] = op[o]
    BY <1>2
<1>5. receipt'[o] = receipt[o] BY DEF StopCancels
<1> QED BY <1>1, <1>3, <1>4, <1>5 DEF Command

-----------------------------------------------------------------------------
(* Receipts *)

\* A receipt reads "running" while the inner task is at work, and for an operation
\* until its own task has ended.
Owned(o) == receipt[o].state = "running" =>
    \/ op[o].at \in {"prepared", "marked", "native"}
    \/ o \in Tool /\ op[o].at \notin {"done", "lost"}

\* So it is of every receipt while the process lives.
ReceiptOwned == alive => \A o \in Op : Owned(o)

\* A bystander keeps its owner.
LEMMA SameOwned ==
    ASSUME OpType, NEW o \in Op, Owned(o), Same(o) \/ Awakened(o)
    PROVE  Owned(o)'
<1>1. CASE Same(o) BY <1>1 DEF Same, Owned
<1>2. CASE Awakened(o) BY <1>2, AwakenedShape DEF Owned
<1> QED BY <1>1, <1>2

\* A command's own steps keep ReceiptOwned: whatever ends it writes its receipt.
LEMMA OwnedOpStep ==
    ASSUME OpType, ReceiptType, ReceiptOwned, NEW o \in Op, OpStep(o)
    PROVE  ReceiptOwned'
<1>0. alive BY DEF OpStep, TriesGate, EnsureRunning, Prepare, MarkStarted, Launch, Finishes,
                   CutBeforeLaunch, Drained, OuterEnds, KilledOutside, KilledInside
<1>1. \A p \in Op : Owned(p) BY <1>0 DEF ReceiptOwned
<1>2. op \in [Op -> Command] /\ receipt \in [Op -> Entry] BY DEF OpType, ReceiptType
<1>3. ASSUME NEW fate, InnerEnds(o, fate)
      PROVE  ReceiptOwned'
    <2>1. HasEnded(o, fate) /\ \A p \in Op \ {o} : Same(p) BY <1>3, InnerShape
    <2>2. Owned(o)' BY <1>3, <2>1 DEF HasEnded, Owned
    <2>3. \A p \in Op \ {o} : Owned(p)' BY <1>1, <2>1, SameOwned
    <2> QED BY <2>2, <2>3 DEF ReceiptOwned
<1>4. ASSUME Leave(o), op[o].at \notin {"prepared", "marked", "native"}
      PROVE  ReceiptOwned'
    <2>1. Closed(o) # "running" BY <1>1, <1>4 DEF Closed, Owned
    <2>2. Owned(o)' BY <2>1, <1>4, LeaveShape DEF Owned
    <2>3. \A p \in Op \ {o} : Owned(p)' BY <1>1, <1>4, LeaveShape, SameOwned
    <2> QED BY <2>2, <2>3 DEF ReceiptOwned
<1>5. CASE TriesGate(o) BY <1>1, <1>2, <1>5 DEF TriesGate, Command, Owned, ReceiptOwned
<1>6. CASE EnsureRunning(o) BY <1>1, <1>2, <1>6 DEF EnsureRunning, Command, Owned, ReceiptOwned
<1>7. CASE Prepare(o) BY <1>1, <1>2, <1>7 DEF Prepare, Command, Entry, Owned, ReceiptOwned
<1>8. CASE MarkStarted(o)
    <2>1. CASE InnerEnds(o, "error") BY <2>1, <1>3
    <2>2. CASE op' = [op EXCEPT ![o].at = "marked"] /\ UNCHANGED receipt
        BY <1>1, <1>2, <2>2 DEF Command, Owned, ReceiptOwned
    <2> QED BY <1>8, <2>1, <2>2 DEF MarkStarted
<1>9. CASE Launch(o)
    <2>1. CASE InnerEnds(o, "error") BY <2>1, <1>3
    <2>2. CASE op' = [op EXCEPT ![o].at = "native"] /\ UNCHANGED receipt
        BY <1>1, <1>2, <2>2 DEF Command, Owned, ReceiptOwned
    <2> QED BY <1>9, <2>1, <2>2 DEF Launch
<1>10. CASE Finishes(o) BY <1>10, <1>3 DEF Finishes
<1>11. CASE CutBeforeLaunch(o)
    <2>1. CASE \E fate : InnerEnds(o, fate) BY <2>1, <1>3
    <2>2. CASE /\ op[o].at = "created" /\ UNCHANGED receipt
               /\ op' = [op EXCEPT ![o].at = "ended", ![o].fate = "cancel", ![o].cut = FALSE]
        BY <1>1, <1>2, <2>2 DEF Command, Owned, ReceiptOwned
    <2> QED BY <1>11, <2>1, <2>2 DEF CutBeforeLaunch
<1>12. CASE Drained(o) BY <1>12, <1>3 DEF Drained
<1>13. CASE OuterEnds(o) BY <1>13, <1>4 DEF OuterEnds
<1>14. CASE KilledOutside(o) BY <1>14, <1>4 DEF KilledOutside
<1>15. CASE KilledInside(o)
    <2>1. Owned(o)' BY <1>1, <1>15, DisconnectShape DEF KilledInside, Owned
    <2>2. \A p \in Op \ {o} : Owned(p)' BY <1>1, <1>15, DisconnectShape, SameOwned DEF KilledInside
    <2> QED BY <2>1, <2>2 DEF ReceiptOwned
<1> QED BY <1>5, <1>6, <1>7, <1>8, <1>9, <1>10, <1>11, <1>12, <1>13, <1>14, <1>15 DEF OpStep

\* Every step keeps it; a restart leaves no receipt "running".
LEMMA OwnedNext ==
    OpType /\ ReceiptType /\ ReceiptOwned /\ [Next]_vars => ReceiptOwned'
<1> SUFFICES ASSUME OpType, ReceiptType, ReceiptOwned, [Next]_vars PROVE ReceiptOwned'
    OBVIOUS
<1>1. ASSUME NEW o \in Op, OpStep(o) PROVE ReceiptOwned' BY <1>1, OwnedOpStep
<1>2. ASSUME NEW o \in Op, Submit(o) \/ Calls(o) \/ CallerCancels(o) PROVE ReceiptOwned'
    <2>0. alive BY <1>2 DEF Submit, Calls, CallerCancels
    <2>1. \A p \in Op : Owned(p) BY <2>0 DEF ReceiptOwned
    <2>2. op \in [Op -> Command] /\ receipt \in [Op -> Entry] BY DEF OpType, ReceiptType
    <2>3. CASE Submit(o) BY <2>1, <2>2, <2>3 DEF Submit, Command, Entry, Owned, ReceiptOwned
    <2>4. CASE Calls(o) BY <2>1, <2>2, <2>4 DEF Calls, Command, Owned, ReceiptOwned
    <2>5. CASE CallerCancels(o)
        BY <2>1, <2>2, <2>5 DEF CallerCancels, Command, Owned, ReceiptOwned
    <2> QED BY <1>2, <2>3, <2>4, <2>5
<1>3. ASSUME NEW s \in Stop, StopStep(s) \/ StopMarks(s) \/ StopGivesUp(s) PROVE ReceiptOwned'
    <2>0. alive BY <1>3 DEF StopStep, StopMarks, StopGivesUp, StopTimesOut, StopAbandoned,
                            StopCancels, StopJoins, StopTerminates, StopFails
    <2>1. \A o \in Op : Owned(o) BY <2>0 DEF ReceiptOwned
    <2>2. CASE StopCancels(s) BY <2>1, <2>2, CancelShape DEF Owned, ReceiptOwned
    <2>3. ASSUME UNCHANGED op, \A o \in Op : receipt'[o].state = receipt[o].state
          PROVE  ReceiptOwned'
        BY <2>1, <2>3 DEF Owned, ReceiptOwned
    <2>4. \A cleanup : \A o \in Op : Outcome(s, cleanup)[o].state = receipt[o].state
        BY DEF Outcome, ReceiptType, Entry
    <2>5. CASE StopMarks(s)
        <3>1. PICK all \in BOOLEAN, targets \in SUBSET Registered, ops \in SUBSET Op :
                  Marks(s, all, targets, ops)
            BY <2>5, Targets DEF StopMarks
        <3>2. \A o \in Op : receipt'[o].state = receipt[o].state
            BY <3>1 DEF Marks, ReceiptType, Entry
        <3> QED BY <2>3, <2>5, <3>2 DEF StopMarks
    <2>6. CASE StopJoins(s) \/ StopTerminates(s) \/ StopFails(s) \/ StopGivesUp(s)
        <3>1. UNCHANGED op
            BY <2>6 DEF StopJoins, StopTerminates, StopFails, StopEndsFailed, StopGivesUp,
                        StopTimesOut, StopAbandoned
        <3>2. UNCHANGED receipt \/ \E cleanup : receipt' = Outcome(s, cleanup)
            BY <2>6 DEF StopJoins, StopTerminates, StopFails, StopEndsFailed, StopGivesUp,
                        StopTimesOut, StopAbandoned, StopConfirmed
        <3> QED BY <2>3, <2>4, <3>1, <3>2
    <2> QED BY <1>3, <2>2, <2>5, <2>6 DEF StopStep
<1>4. ASSUME NEW c \in Capture, CaptureTries(c) \/ CaptureCancelled(c) \/ CaptureEnds(c)
      PROVE  ReceiptOwned'
    <2>1. alive /\ UNCHANGED receipt /\ (op' = op \/ op' = WokenOps(op))
        BY <1>4 DEF CaptureTries, CaptureCancelled, CaptureEnds, CaptureGone
    <2> QED BY <2>1, WokenShape, SameOwned DEF ReceiptOwned
<1>5. CASE Crash BY <1>5 DEF Crash, ReceiptOwned
<1>6. CASE Recover
    <2>1. PICK settled : receipt' = Recovered(settled) BY <1>6 DEF Recover
    <2>2. \A o \in Op : receipt'[o].state # "running"
        BY <2>1 DEF Recovered, ReceiptType, Entry
    <2> QED BY <2>2 DEF Owned, ReceiptOwned
<1>7. CASE UNCHANGED vars BY <1>7 DEF vars, Owned, ReceiptOwned
<1> QED BY <1>1, <1>2, <1>3, <1>4, <1>5, <1>6, <1>7 DEF Next, Progress, Demand, CaptureStep

\* No receipt says "running" for a command that is over (ReceiptsSound):
\* _run, _finish and recover close every one that _start_receipt has opened.
THEOREM ReceiptsCorrect == Spec => []ReceiptsSound
<1>1. Init => ReceiptOwned BY DEF Init, ReceiptOwned, Owned
<1>2. ReceiptOwned /\ TypeOK => ReceiptsSound BY DEF ReceiptOwned, Owned, ReceiptsSound
<1>3. TypeOK /\ ReceiptOwned /\ [Next]_vars => ReceiptOwned' BY Types, OwnedNext
<1> QED BY <1>1, <1>2, <1>3, TypeCorrect, PTL DEF Spec

-----------------------------------------------------------------------------
(* The inductive invariant: the gate, each command, each stop *)

\* A command whose processes will not be launched any more.
Past == {"ended", "done", "lost"}

\* One capture at most holds the gate, and no command with it; a dead process
\* holds nothing.
GateHeld ==
    /\ \A c, d \in Capture : cap[c] = "active" /\ cap[d] = "active" => c = d
    /\ Capturing => ~Executing
    /\ ~alive => ~Capturing /\ \A o \in Op : op[o].at \in {"new", "lost"}

\* The clean-up of the command's cancellation is on record as owed.
Owing(o) == receipt[o].cleanup \in {"pending", "failed"}

\* The inner task is registered while it is at work, and cancelled only after
\* the intent is journalled; what is owed has a task or is past.
Sane(o) ==
    /\ op[o].at = "new" => op[o].task = "none"
    /\ op[o].at \in {"prepared", "marked", "native"} =>
          op[o].task = "inner" /\ (op[o].cut => receipt[o].req)
    /\ Owing(o) /\ op[o].at \notin Past => op[o].task # "none"

\* The processes of a command that has ended: its back end failed, this is on
\* record, and no stop can take the command for a cleanly joined one.
Survives(o) == o \in native =>
    \/ op[o].at = "native"
    \/ /\ op[o].at \in {"ended", "done"} /\ op[o].fate = "fault" /\ op[o].task # "outer"
       /\ Owing(o)
       /\ \A s \in Stop : <<o, "outer">> \notin stop[s].tasks

\* A command that a confirmed stop has covered is over, and has no processes.
Covered(o) == o \in stopped => op[o].at \in Past /\ o \notin native

\* A stop journals the intent for all it joins; it covers nothing that is not
\* joined, but a debt of a command that is past.
StopSane(s) ==
    /\ \A o \in Op : \A k \in {"outer", "inner"} : <<o, k>> \in stop[s].tasks => o \in stop[s].ops
    /\ \A o \in stop[s].ops :
          /\ receipt[o].req
          /\ op[o].task # "none" \/ op[o].at \in Past
          /\ \/ \E k \in {"outer", "inner"} : <<o, k>> \in stop[s].tasks
             \/ stop[s].all /\ op[o].at \in Past
    /\ stop[s].at = "closing" => stop[s].all /\ Joined(s)

\* What is kept of one command; processes are only counted while ours lives.
Alright(o) == Sane(o) /\ (alive => Survives(o)) /\ Covered(o)

\* The invariant.
Inv == GateHeld /\ (\A o \in Op : Alright(o)) /\ (\A s \in Stop : StopSane(s))

\* What the lemmas on single steps assume.
Inductive == OpType /\ ReceiptType /\ StopType /\ Inv

\* What a step of a living process never takes back.
Later(o) ==
    /\ op[o].at \in Past => op'[o].at \in Past
    /\ op[o].at \in {"ended", "done"} => op'[o].at \in {"ended", "done"} /\ op'[o].fate = op[o].fate
    /\ op[o].at = "done" => op'[o].at = "done"
    /\ receipt[o].req => receipt'[o].req
    /\ op[o].task # "none" => op'[o].task # "none" \/ op'[o].at \in Past

\* A bystander takes nothing back.
LEMMA SameLater ==
    ASSUME OpType, NEW o \in Op, Same(o) \/ Awakened(o)
    PROVE  Later(o)
<1>1. CASE Same(o) BY <1>1 DEF Same, Later
<1>2. CASE Awakened(o) BY <1>2, AwakenedShape DEF Later, Past
<1> QED BY <1>1, <1>2

\* A bystander stays alright.
LEMMA SameAlright ==
    ASSUME OpType, NEW o \in Op, Same(o) \/ Awakened(o), Alright(o), alive, alive',
           UNCHANGED <<stop, stopped>>, o \in native' => o \in native
    PROVE  Alright(o)'
<1>1. /\ receipt'[o] = receipt[o]
      /\ op'[o].at = op[o].at \/ (op[o].at = "asleep" /\ op'[o].at = "arrived")
      /\ op'[o].task = op[o].task /\ op'[o].cut = op[o].cut /\ op'[o].fate = op[o].fate
    BY AwakenedShape DEF Same
<1>2. Sane(o)' BY <1>1 DEF Alright, Sane, Owing, Past
<1>3. Survives(o)' BY <1>1 DEF Alright, Survives, Owing
<1>4. Covered(o)' BY <1>1 DEF Alright, Covered, Past
<1> QED BY <1>2, <1>3, <1>4 DEF Alright

\* A stop that the step does not touch stays sane, for nothing is taken back.
LEMMA StopKept ==
    ASSUME StopType, NEW s \in Stop, StopSane(s), \A o \in Op : Later(o),
           stop'[s] = stop[s]
    PROVE  StopSane(s)'
<1>1. /\ stop[s].ops \subseteq Op
      /\ \A t \in stop[s].tasks : t[1] \in Op
    BY DEF StopType, Call
<1>2. \A o \in stop'[s].ops :
          /\ receipt'[o].req
          /\ op'[o].task # "none" \/ op'[o].at \in Past
          /\ \/ \E k \in {"outer", "inner"} : <<o, k>> \in stop'[s].tasks
             \/ stop'[s].all /\ op'[o].at \in Past
    BY <1>1 DEF StopSane, Later
<1>3. Joined(s) => Joined(s)'
    BY <1>1 DEF Joined, Later
<1> QED BY <1>2, <1>3 DEF StopSane

\* A stop that is not under way is sane.
LEMMA StopIdle ==
    ASSUME NEW s \in Stop, stop'[s] = Idle \/ stop'[s] = Over
    PROVE  StopSane(s)'
<1>1. stop'[s].tasks = {} /\ stop'[s].ops = {} /\ stop'[s].at # "closing" BY DEF Idle, Over
<1> QED BY <1>1 DEF StopSane

\* One command's step: the others are bystanders.
LEMMA OneStep ==
    ASSUME Inductive, NEW o \in Op, alive, alive', UNCHANGED <<stop, stopped>>,
           \A p \in Op \ {o} : (Same(p) \/ Awakened(p)) /\ (p \in native' => p \in native),
           Alright(o)', Later(o)
    PROVE  (\A p \in Op : Alright(p)') /\ (\A s \in Stop : StopSane(s)')
<1>1. OpType /\ StopType /\ (\A p \in Op : Alright(p)) /\ \A s \in Stop : StopSane(s)
    BY DEF Inductive, Inv
<1>2. \A p \in Op : Alright(p)' BY <1>1, SameAlright
<1>3. \A p \in Op : Later(p) BY <1>1, SameLater
<1>4. \A s \in Stop : StopSane(s)' BY <1>1, <1>3, StopKept
<1> QED BY <1>2, <1>4

\* The end of an inner task: processes may be left only by a failed back end,
\* which leaves the clean-up owed.
LEMMA InnerAlright ==
    ASSUME Inductive, NEW o \in Op, NEW fate, InnerEnds(o, fate), alive, alive',
           op[o].at \in {"prepared", "marked", "native"}, UNCHANGED <<stop, stopped>>,
           \/ o \notin native'
           \/ /\ fate = "fault" /\ op[o].cut
              /\ \A s \in Stop : <<o, "outer">> \notin stop[s].tasks
    PROVE  Alright(o)' /\ Later(o)
<1>1. /\ op'[o].at = "ended" /\ op'[o].task = Unregistered(o)
      /\ op'[o].fate = fate /\ receipt'[o].req = receipt[o].req
      /\ receipt[o].req /\ fate = "fault" => receipt'[o].cleanup = "failed"
    <2>1. OpType /\ ReceiptType BY DEF Inductive
    <2>2. HasEnded(o, fate) BY <2>1, InnerShape
    <2> QED BY <2>2 DEF HasEnded
<1>2. Alright(o) BY DEF Inductive, Inv
<1>3. op'[o].task # "outer" BY <1>1, <1>2 DEF Unregistered, Alright, Sane
<1>4. Sane(o)' BY <1>1 DEF Sane, Past
<1>5. ASSUME fate = "fault", op[o].cut PROVE Owing(o)'
    <2>1. receipt[o].req BY <1>2, <1>5 DEF Alright, Sane
    <2>2. receipt'[o].cleanup = "failed" BY <1>1, <1>5, <2>1
    <2> QED BY <2>2 DEF Owing
<1>6. Survives(o)' BY <1>1, <1>3, <1>5 DEF Survives
<1>7. Covered(o)' BY <1>1, <1>2 DEF Alright, Covered, Past
<1>8. Later(o) BY <1>1 DEF Later, Past
<1> QED BY <1>4, <1>6, <1>7, <1>8 DEF Alright

\* The end of an outer task.
LEMMA LeaveAlright ==
    ASSUME Inductive, NEW o \in Op, Leave(o), alive, alive',
           op[o].at \in {"arrived", "asleep", "inside", "ended"},
           UNCHANGED <<stop, stopped, native>>
    PROVE  Alright(o)' /\ Later(o)
<1>1. /\ op'[o].at = "done" /\ op'[o].task = "none" /\ op'[o].fate = op[o].fate
      /\ receipt'[o].req = receipt[o].req /\ receipt'[o].cleanup = receipt[o].cleanup
    BY LeaveShape DEF Inductive
<1>2. Alright(o) BY DEF Inductive, Inv
<1>3. Sane(o)' BY <1>1 DEF Sane, Past
<1>4. Survives(o)' BY <1>1, <1>2 DEF Alright, Survives, Owing
<1>5. Covered(o)' BY <1>1, <1>2 DEF Alright, Covered, Past
<1>6. Later(o) BY <1>1 DEF Later, Past
<1> QED BY <1>3, <1>4, <1>5, <1>6 DEF Alright

\* A command goes on to another place, with or without its inner task.
LEMMA MoveAlright ==
    ASSUME Inductive, NEW o \in Op, alive, alive', UNCHANGED <<stop, stopped>>,
           op[o].at \notin Past, op'[o].at # "new", op'[o].at # "lost",
           op'[o].task = op[o].task \/ op'[o].task = "inner" \/ op'[o].task = "outer",
           op'[o].at \in {"prepared", "marked", "native"} =>
               op'[o].task = "inner" /\ (op'[o].cut => receipt'[o].req),
           receipt'[o].req = receipt[o].req, receipt'[o].cleanup = receipt[o].cleanup,
           o \in native' => op'[o].at = "native"
    PROVE  Alright(o)' /\ Later(o)
<1>1. Alright(o) BY DEF Inductive, Inv
<1>2. Sane(o)'
    <2>1. Owing(o)' => Owing(o) BY DEF Owing
    <2>2. Owing(o) => op[o].task # "none" BY <1>1 DEF Alright, Sane
    <2> QED BY <2>1, <2>2 DEF Sane
<1>3. Survives(o)' BY DEF Survives
<1>4. Covered(o)' BY <1>1 DEF Alright, Covered
<1>5. Later(o) BY DEF Later, Past
<1> QED BY <1>2, <1>3, <1>4, <1>5 DEF Alright

\* A command's own steps; "late" matters in Drained.
LEMMA OpStepAlright ==
    ASSUME Inductive, "late" \notin Env, NEW o \in Op, OpStep(o)
    PROVE  (\A p \in Op : Alright(p)') /\ (\A s \in Stop : StopSane(s)')
<1> DEFINE Goal == (\A p \in Op : Alright(p)') /\ (\A s \in Stop : StopSane(s)')
<1>0. /\ alive /\ alive' /\ UNCHANGED <<stop, stopped>>
      /\ \A p \in Op \ {o} : p \in native' => p \in native
    <2>1. alive /\ UNCHANGED <<alive, stop, stopped>>
        BY DEF OpStep, TriesGate, EnsureRunning, Prepare, MarkStarted, Launch, Finishes,
               CutBeforeLaunch, Drained, OuterEnds, KilledOutside, KilledInside
    <2>2. \/ UNCHANGED native
          \/ native' = native \cup {o}
          \/ native' = native \ {o}
        BY DEF OpStep, TriesGate, EnsureRunning, Prepare, MarkStarted, Launch, Finishes,
               CutBeforeLaunch, Drained, OuterEnds, KilledOutside, KilledInside
    <2> QED BY <2>1, <2>2
<1>1. OpType /\ ReceiptType /\ StopType /\ Alright(o) BY DEF Inductive, Inv
<1>2. op \in [Op -> Command] /\ receipt \in [Op -> Entry] BY <1>1 DEF OpType, ReceiptType
<1>3. ASSUME Alright(o)', Later(o), \A p \in Op \ {o} : Same(p) \/ Awakened(p) PROVE Goal
    BY <1>0, <1>3, OneStep
<1>4. ASSUME NEW fate, InnerEnds(o, fate),
             op[o].at \in {"prepared", "marked", "native"},
             \/ o \notin native'
             \/ /\ fate = "fault" /\ op[o].cut
                /\ \A s \in Stop : <<o, "outer">> \notin stop[s].tasks
      PROVE  Goal
    <2>1. Alright(o)' /\ Later(o) BY <1>0, <1>4, InnerAlright
    <2>2. \A p \in Op \ {o} : Same(p) BY <1>1, <1>4, InnerShape
    <2> QED BY <1>3, <2>1, <2>2
<1>5. ASSUME Leave(o), UNCHANGED native,
             op[o].at \in {"arrived", "asleep", "inside", "ended"}
      PROVE  Goal
    <2>1. Alright(o)' /\ Later(o) BY <1>0, <1>5, LeaveAlright
    <2>2. \A p \in Op \ {o} : Awakened(p) BY <1>1, <1>5, LeaveShape
    <2> QED BY <1>3, <2>1, <2>2
<1>6. o \in native => op[o].at \in {"native", "ended", "done"} BY <1>0, <1>1 DEF Alright, Survives
<1>7. CASE TriesGate(o)
    <2>1. /\ op'[o].at \in {"inside", "asleep"} /\ op'[o].task = op[o].task
          /\ UNCHANGED <<receipt, native>> /\ op[o].at = "arrived"
          /\ \A p \in Op \ {o} : Same(p)
        BY <1>2, <1>7 DEF TriesGate, Command, Same
    <2>2. Alright(o)' /\ Later(o) BY <1>0, <1>6, <2>1, MoveAlright DEF Past
    <2> QED BY <1>3, <2>1, <2>2
<1>8. CASE EnsureRunning(o)
    <2>1. /\ op'[o].at \in {"created", "ended"} /\ op'[o].task = op[o].task
          /\ UNCHANGED <<receipt, native>> /\ op[o].at = "inside"
          /\ \A p \in Op \ {o} : Same(p)
        BY <1>2, <1>8 DEF EnsureRunning, Command, Same
    <2>2. Alright(o)' /\ Later(o) BY <1>0, <1>6, <2>1, MoveAlright DEF Past
    <2> QED BY <1>3, <2>1, <2>2
<1>9. CASE Prepare(o)
    <2>1. /\ \/ op'[o].at = "ended" /\ op'[o].task = op[o].task
             \/ op'[o].at = "prepared" /\ op'[o].task = "inner" /\ ~op'[o].cut
          /\ receipt'[o].req = receipt[o].req /\ receipt'[o].cleanup = receipt[o].cleanup
          /\ UNCHANGED native /\ op[o].at = "created"
          /\ \A p \in Op \ {o} : Same(p)
        BY <1>2, <1>9 DEF Prepare, Command, Entry, Same
    <2>2. Alright(o)' /\ Later(o) BY <1>0, <1>6, <2>1, MoveAlright DEF Past
    <2> QED BY <1>3, <2>1, <2>2
<1>10. CASE MarkStarted(o)
    <2>1. op[o].at = "prepared" /\ UNCHANGED native /\ o \notin native BY <1>6, <1>10 DEF MarkStarted
    <2>2. CASE InnerEnds(o, "error") BY <1>4, <2>1, <2>2
    <2>3. CASE op' = [op EXCEPT ![o].at = "marked"] /\ UNCHANGED receipt
        <3>1. /\ op'[o].at = "marked" /\ op'[o].task = op[o].task /\ op'[o].cut = op[o].cut
              /\ \A p \in Op \ {o} : Same(p)
            BY <1>2, <2>3 DEF Command, Same
        <3>2. Alright(o)' /\ Later(o)
            BY <1>0, <1>1, <2>1, <2>3, <3>1, MoveAlright DEF Past, Alright, Sane
        <3> QED BY <1>3, <3>1, <3>2
    <2> QED BY <1>10, <2>2, <2>3 DEF MarkStarted
<1>11. CASE Launch(o)
    <2>1. op[o].at = "marked" /\ o \notin native BY <1>6, <1>11 DEF Launch
    <2>2. CASE InnerEnds(o, "error") /\ UNCHANGED native BY <1>4, <2>1, <2>2
    <2>3. CASE op' = [op EXCEPT ![o].at = "native"] /\ UNCHANGED receipt
        <3>1. /\ op'[o].at = "native" /\ op'[o].task = op[o].task /\ op'[o].cut = op[o].cut
              /\ \A p \in Op \ {o} : Same(p)
            BY <1>2, <2>3 DEF Command, Same
        <3>2. Alright(o)' /\ Later(o)
            BY <1>0, <1>1, <2>1, <2>3, <3>1, MoveAlright DEF Past, Alright, Sane
        <3> QED BY <1>3, <3>1, <3>2
    <2> QED BY <1>11, <2>2, <2>3 DEF Launch
<1>12. CASE Finishes(o)
    <2>1. op[o].at = "native" /\ o \notin native' BY <1>12 DEF Finishes
    <2> QED BY <1>4, <1>12, <2>1 DEF Finishes
<1>13. CASE CutBeforeLaunch(o)
    <2>1. UNCHANGED native BY <1>13 DEF CutBeforeLaunch
    <2>2. CASE op[o].at \in {"prepared", "marked"} /\ \E fate : InnerEnds(o, fate)
        BY <1>4, <1>6, <2>1, <2>2
    <2>3. CASE /\ op[o].at = "created" /\ UNCHANGED receipt
               /\ op' = [op EXCEPT ![o].at = "ended", ![o].fate = "cancel", ![o].cut = FALSE]
        <3>1. /\ op'[o].at = "ended" /\ op'[o].task = op[o].task
              /\ \A p \in Op \ {o} : Same(p)
            BY <1>2, <2>3 DEF Command, Same
        <3>2. Alright(o)' /\ Later(o)
            BY <1>0, <1>6, <2>1, <2>3, <3>1, MoveAlright DEF Past
        <3> QED BY <1>3, <3>1, <3>2
    <2> QED BY <1>13, <2>2, <2>3 DEF CutBeforeLaunch
<1>14. CASE Drained(o)
    <2>1. op[o].at = "native" /\ op[o].cut BY <1>14 DEF Drained
    <2>2. CASE o \notin native' /\ \E fate : InnerEnds(o, fate) BY <1>4, <2>1, <2>2
    <2>3. CASE /\ \A s \in Stop : <<o, "outer">> \notin stop[s].tasks
               /\ InnerEnds(o, "fault")
        BY <1>4, <2>1, <2>3
    <2> QED BY <1>14, <2>2, <2>3 DEF Drained
<1>15. CASE OuterEnds(o) BY <1>5, <1>15 DEF OuterEnds
<1>16. CASE KilledOutside(o) BY <1>5, <1>16 DEF KilledOutside
<1>17. CASE KilledInside(o)
    <2>1. /\ op'[o].at = op[o].at /\ op'[o].task = op[o].task /\ op'[o].fate = op[o].fate
          /\ op'[o].cut => op[o].cut \/ (op[o].at # "ended" /\ o \notin Keep)
          /\ op[o].task = "inner" /\ o \notin Keep
                => receipt'[o].req = TRUE /\ receipt'[o].cleanup = "pending"
          /\ ~(op[o].task = "inner" /\ o \notin Keep) => receipt'[o] = receipt[o]
          /\ \A p \in Op \ {o} : Same(p)
          /\ UNCHANGED native
        BY <1>1, <1>17, DisconnectShape DEF KilledInside
    <2>2. op[o].at \in Within BY <1>17 DEF KilledInside
    <2>3. Sane(o)' BY <1>1, <2>1, <2>2 DEF Alright, Sane, Owing, Past, Within
    <2>4. Owing(o) => Owing(o)' BY <2>1 DEF Owing
    <2>5. Survives(o)' BY <1>0, <1>1, <2>1, <2>4 DEF Alright, Survives
    <2>6. Covered(o)' BY <1>0, <1>1, <2>1 DEF Alright, Covered
    <2>7. Later(o) BY <2>1 DEF Later
    <2> QED BY <1>3, <2>1, <2>3, <2>5, <2>6, <2>7 DEF Alright
<1> QED BY <1>7, <1>8, <1>9, <1>10, <1>11, <1>12, <1>13, <1>14, <1>15, <1>16, <1>17 DEF OpStep

\* Submission and cancellation.
LEMMA OpDemandAlright ==
    ASSUME Inductive, NEW o \in Op, Submit(o) \/ Calls(o) \/ CallerCancels(o)
    PROVE  (\A p \in Op : Alright(p)') /\ (\A s \in Stop : StopSane(s)')
<1>1. /\ alive /\ alive' /\ UNCHANGED <<stop, stopped, native>>
      /\ OpType /\ ReceiptType /\ StopType /\ Alright(o)
    BY DEF Inductive, Inv, Submit, Calls, CallerCancels
<1>2. op \in [Op -> Command] /\ receipt \in [Op -> Entry] BY <1>1 DEF OpType, ReceiptType
<1>3. Alright(o)' /\ Later(o) /\ \A p \in Op \ {o} : Same(p)
    <2>1. CASE Submit(o)
        <3>1. /\ op[o].at = "new" /\ op'[o].at = "arrived" /\ op'[o].task = "outer"
              /\ receipt'[o].req = receipt[o].req /\ receipt'[o].cleanup = receipt[o].cleanup
              /\ \A p \in Op \ {o} : Same(p)
            BY <1>2, <2>1 DEF Submit, Command, Entry, Same
        <3>2. o \notin native BY <1>1, <3>1 DEF Alright, Survives
        <3> QED BY <1>1, <3>1, <3>2, MoveAlright DEF Past
    <2>2. CASE Calls(o)
        <3>1. /\ op[o].at = "new" /\ op'[o].at = "arrived" /\ op'[o].task = op[o].task
              /\ receipt' = receipt
              /\ \A p \in Op \ {o} : Same(p)
            BY <1>2, <2>2 DEF Calls, Command, Same
        <3>2. o \notin native BY <1>1, <3>1 DEF Alright, Survives
        <3> QED BY <1>1, <3>1, <3>2, MoveAlright DEF Past
    <2>3. CASE CallerCancels(o)
        <3>1. /\ op'[o].at = op[o].at /\ op'[o].task = op[o].task /\ op'[o].cut = op[o].cut
              /\ op'[o].fate = op[o].fate /\ receipt' = receipt
              /\ \A p \in Op \ {o} : Same(p)
            BY <1>2, <2>3 DEF CallerCancels, Command, Same
        <3>2. Sane(o)' BY <1>1, <3>1 DEF Alright, Sane, Owing
        <3>3. Survives(o)' BY <1>1, <3>1 DEF Alright, Survives, Owing
        <3>4. Covered(o)' BY <1>1, <3>1 DEF Alright, Covered
        <3>5. Later(o) BY <3>1 DEF Later
        <3> QED BY <3>1, <3>2, <3>3, <3>4, <3>5 DEF Alright
    <2> QED BY <2>1, <2>2, <2>3
<1> QED BY <1>1, <1>3, OneStep

\* A stop is recorded: with no command registered it takes up a debt, whose
\* command is past because what is owed and not past is registered.
LEMMA StopMarksAlright ==
    ASSUME Inductive, NEW s \in Stop, StopMarks(s)
    PROVE  (\A p \in Op : Alright(p)') /\ (\A r \in Stop : StopSane(r)')
<1>1. /\ alive /\ alive' /\ UNCHANGED <<op, native, stopped>>
      /\ OpType /\ ReceiptType /\ StopType
      /\ (\A p \in Op : Alright(p)) /\ (\A r \in Stop : StopSane(r))
    BY DEF Inductive, Inv, StopMarks
<1>2. PICK all \in BOOLEAN, targets \in SUBSET Registered, ops \in SUBSET Op :
          /\ Marks(s, all, targets, ops)
          /\ targets \in StopTargets(all)
          /\ ops \in TakenUp(targets)
    BY Targets DEF StopMarks
<1> DEFINE tasks == {<<o, op[o].task>> : o \in targets}
<1>3. tasks \in SUBSET (Op \X {"outer", "inner"}) BY <1>1, Collected
<1>4. \A o \in Op : \A k \in {"outer", "inner"} : <<o, k>> \in tasks <=> o \in targets /\ op[o].task = k
    OBVIOUS
<1>5. stop' = [stop EXCEPT ![s] = [at |-> "marked", all |-> all, ops |-> ops, tasks |-> tasks]]
    BY <1>2 DEF Marks
<1> HIDE DEF tasks
<1>6. /\ stop'[s].at = "marked" /\ stop'[s].all = all /\ stop'[s].ops = ops
      /\ stop'[s].tasks = tasks
      /\ \A r \in Stop \ {s} : stop'[r] = stop[r]
    BY <1>1, <1>5 DEF StopType
<1>7. /\ \A o \in ops : receipt'[o].req /\ receipt'[o].cleanup = "pending"
      /\ \A o \in Op \ ops : receipt'[o] = receipt[o]
      /\ \A o \in Op : receipt[o].req => receipt'[o].req
    BY <1>1, <1>2 DEF Marks, ReceiptType, Entry
<1>8. \A o \in targets : op[o].task \in {"outer", "inner"}
    BY <1>1 DEF Registered, OpType, Command
<1>9. \A o \in ops : \/ o \in targets
                     \/ all /\ targets = {} /\ op[o].at \in Past
    <2>1. CASE ops = targets BY <2>1
    <2>2. ASSUME targets = {}, NEW d \in Debts, ops = {d}
          PROVE  all /\ op[d].at \in Past
        <3>1. all /\ Registered = {} BY <1>2, <2>2 DEF StopTargets
        <3>2. op[d].task = "none" BY <3>1 DEF Registered, Debts
        <3>3. Sane(d) /\ Owing(d) BY <1>1 DEF Debts, Owing, Alright
        <3> QED BY <3>1, <3>2, <3>3 DEF Sane
    <2> QED BY <1>2, <2>1, <2>2 DEF TakenUp
<1>10. targets \subseteq ops
    BY <1>2 DEF TakenUp
<1>11. \A o \in ops : op[o].task # "none" \/ op[o].at \in Past BY <1>8, <1>9
<1>12. ASSUME NEW o \in Op PROVE Alright(o)'
    <2>1. Sane(o)'
        <3>1. Owing(o)' /\ op[o].at \notin Past => op[o].task # "none"
            BY <1>1, <1>7, <1>11 DEF Alright, Sane, Owing
        <3>2. op[o].cut /\ op[o].at \in {"prepared", "marked", "native"} => receipt'[o].req
            BY <1>1, <1>7 DEF Alright, Sane
        <3> QED BY <1>1, <3>1, <3>2 DEF Alright, Sane
    <2>2. Owing(o) => Owing(o)' BY <1>7 DEF Owing
    <2>3. op[o].task # "outer" => <<o, "outer">> \notin tasks BY <1>4
    <2>4. Survives(o)' BY <1>1, <1>6, <2>2, <2>3 DEF Alright, Survives
    <2>5. Covered(o)' BY <1>1 DEF Alright, Covered
    <2> QED BY <2>1, <2>4, <2>5 DEF Alright
<1>13. StopSane(s)'
    <2>1. \A o \in Op : \A k \in {"outer", "inner"} : <<o, k>> \in tasks => o \in ops
        BY <1>4, <1>10
    <2>2. \A o \in ops : \/ \E k \in {"outer", "inner"} : <<o, k>> \in tasks
                         \/ all /\ op[o].at \in Past
        BY <1>4, <1>8, <1>9
    <2> QED BY <1>1, <1>6, <1>7, <1>11, <2>1, <2>2 DEF StopSane
<1>14. ASSUME NEW r \in Stop \ {s} PROVE StopSane(r)'
    <2>1. \A o \in Op : Later(o) BY <1>1, <1>7 DEF Later
    <2> QED BY <1>1, <1>6, <2>1, StopKept
<1> QED BY <1>12, <1>13, <1>14

\* A stop cancels: it has journalled the intent for all it has collected.
LEMMA StopCancelsAlright ==
    ASSUME Inductive, NEW s \in Stop, StopCancels(s)
    PROVE  (\A p \in Op : Alright(p)') /\ (\A r \in Stop : StopSane(r)')
<1>1. /\ alive /\ alive' /\ UNCHANGED <<native, stopped, receipt>>
      /\ OpType /\ ReceiptType /\ StopType
      /\ (\A p \in Op : Alright(p)) /\ (\A r \in Stop : StopSane(r))
    BY DEF Inductive, Inv, StopCancels
<1>2. /\ stop'[s].at = "joining" /\ stop'[s].all = stop[s].all
      /\ stop'[s].ops = stop[s].ops /\ stop'[s].tasks = stop[s].tasks
      /\ \A r \in Stop \ {s} : stop'[r] = stop[r]
    BY <1>1 DEF StopCancels, StopType, Call
<1>3. \A o \in Op :
          /\ op'[o].at = op[o].at /\ op'[o].task = op[o].task /\ op'[o].fate = op[o].fate
          /\ op'[o].cut => op[o].cut \/ <<o, "inner">> \in stop[s].tasks
    BY <1>1, CancelShape
<1>4. \A o \in Op : <<o, "inner">> \in stop[s].tasks => receipt[o].req BY <1>1 DEF StopSane
<1>5. ASSUME NEW o \in Op PROVE Alright(o)'
    <2>1. Sane(o)' BY <1>1, <1>3, <1>4 DEF Alright, Sane, Owing
    <2>2. \A r \in Stop : stop'[r].tasks = stop[r].tasks BY <1>2
    <2>3. Survives(o)' BY <1>1, <1>3, <2>2 DEF Alright, Survives, Owing
    <2>4. Covered(o)' BY <1>1, <1>3 DEF Alright, Covered
    <2> QED BY <2>1, <2>3, <2>4 DEF Alright
<1>6. \A o \in Op : Later(o) BY <1>1, <1>3 DEF Later
<1>7. StopSane(s)'
    <2>1. stop[s].ops \subseteq Op BY <1>1 DEF StopType, Call
    <2> QED BY <1>1, <1>2, <1>3, <2>1 DEF StopSane
<1>8. \A r \in Stop \ {s} : StopSane(r)' BY <1>1, <1>2, <1>6, StopKept
<1> QED BY <1>5, <1>7, <1>8

\* A stop writes its outcome and returns; a confirmed one may cover its commands.
LEMMA StopReturns ==
    ASSUME Inductive, NEW s \in Stop, NEW cleanup \in {"pending", "failed", "complete"},
           alive, alive', stop' = [stop EXCEPT ![s] = Over], receipt' = Outcome(s, cleanup),
           UNCHANGED op, native' \subseteq native,
           \/ UNCHANGED stopped
           \/ /\ stopped' = stopped \cup stop[s].ops
              /\ \A o \in stop[s].ops : op[o].at \in Past,
           cleanup = "complete" => stop[s].ops \cap native' = {},
           cleanup # "complete" => UNCHANGED stopped
    PROVE  (\A p \in Op : Alright(p)') /\ (\A r \in Stop : StopSane(r)')
<1>1. /\ OpType /\ ReceiptType /\ StopType
      /\ (\A p \in Op : Alright(p)) /\ (\A r \in Stop : StopSane(r))
    BY DEF Inductive, Inv
<1>2. \A o \in Op : /\ receipt'[o].req = receipt[o].req
                    /\ o \in stop[s].ops => receipt'[o].cleanup = cleanup
                    /\ o \notin stop[s].ops => receipt'[o].cleanup = receipt[o].cleanup
    BY <1>1 DEF ReceiptType, Entry, Outcome
<1>3. stop'[s] = Over /\ \A r \in Stop \ {s} : stop'[r] = stop[r] BY <1>1 DEF StopType
<1>4. stop'[s].tasks = {} BY <1>3 DEF Over, Idle
<1>5. \A r \in Stop : stop'[r].tasks \subseteq stop[r].tasks BY <1>3, <1>4
<1>6. ASSUME NEW o \in Op PROVE Alright(o)'
    <2>1. o \in stop[s].ops => op[o].task # "none" \/ op[o].at \in Past BY <1>1 DEF StopSane
    <2>2. Sane(o)' BY <1>1, <1>2, <2>1 DEF Alright, Sane, Owing
    <2>3. o \in native' /\ Owing(o) => Owing(o)' BY <1>2 DEF Owing
    <2>4. Survives(o)' BY <1>1, <1>5, <2>3 DEF Alright, Survives
    <2>5. Covered(o)' BY <1>1 DEF Alright, Covered
    <2> QED BY <2>2, <2>4, <2>5 DEF Alright
<1>7. \A o \in Op : Later(o) BY <1>2 DEF Later
<1>8. \A r \in Stop \ {s} : StopSane(r)' BY <1>1, <1>3, <1>7, StopKept
<1> QED BY <1>3, <1>6, <1>8, StopIdle

\* Every step of a stop.  One that is confirmed without the back end's help covers
\* a command it has joined without an error, which has no processes.
LEMMA StopStepAlright ==
    ASSUME Inductive, NEW s \in Stop, StopStep(s) \/ StopMarks(s) \/ StopGivesUp(s)
    PROVE  (\A p \in Op : Alright(p)') /\ (\A r \in Stop : StopSane(r)')
<1> DEFINE Goal == (\A p \in Op : Alright(p)') /\ (\A r \in Stop : StopSane(r)')
<1>1. /\ OpType /\ ReceiptType /\ StopType
      /\ (\A p \in Op : Alright(p)) /\ (\A r \in Stop : StopSane(r))
    BY DEF Inductive, Inv
<1>2. /\ stop[s].ops \subseteq Op
      /\ \A t \in stop[s].tasks : t \in Op \X {"outer", "inner"}
    BY <1>1 DEF StopType, Call
<1>3. Joined(s) => \A o \in stop[s].ops : op[o].at \in Past
    BY <1>1 DEF Joined, StopSane, Past
<1>4. CASE StopMarks(s) BY <1>4, StopMarksAlright
<1>5. CASE StopCancels(s) BY <1>5, StopCancelsAlright
<1>6. CASE StopJoins(s) /\ stop[s].all
    <2>1. /\ alive /\ alive' /\ UNCHANGED <<op, receipt, native, stopped>> /\ Joined(s)
          /\ stop' = [stop EXCEPT ![s].at = "closing"]
        BY <1>6 DEF StopJoins
    <2>2. /\ stop'[s].at = "closing" /\ stop'[s].all = stop[s].all
          /\ stop'[s].ops = stop[s].ops /\ stop'[s].tasks = stop[s].tasks
          /\ \A r \in Stop \ {s} : stop'[r] = stop[r]
        BY <1>1, <2>1 DEF StopType, Call
    <2>3. \A r \in Stop : stop'[r].tasks = stop[r].tasks BY <2>2
    <2>4. \A o \in Op : Alright(o)'
        BY <1>1, <2>1, <2>3 DEF Alright, Sane, Owing, Survives, Covered
    <2>5. Joined(s)' BY <2>1, <2>2 DEF Joined
    <2>6. StopSane(s)' BY <1>1, <1>6, <2>1, <2>2, <2>5 DEF StopSane
    <2>7. \A o \in Op : Later(o) BY <2>1 DEF Later
    <2>8. \A r \in Stop \ {s} : StopSane(r)' BY <1>1, <2>2, <2>7, StopKept
    <2> QED BY <2>4, <2>6, <2>8
<1>7. CASE StopJoins(s) /\ ~stop[s].all
    <2>1. /\ alive /\ alive' /\ UNCHANGED <<op, native>> /\ Joined(s) /\ ~Raised(s)
          /\ stop' = [stop EXCEPT ![s] = Over] /\ receipt' = Outcome(s, "complete")
          /\ stopped' = stopped \cup stop[s].ops
        BY <1>7 DEF StopJoins, StopConfirmed
    <2>2. ASSUME NEW o \in stop[s].ops, o \in native PROVE FALSE
        <3>1. PICK k \in {"outer", "inner"} : <<o, k>> \in stop[s].tasks
            BY <1>1, <1>7, <2>2 DEF StopSane
        <3>2. op[o].at \in Past BY <1>3, <2>1
        <3>3. op[o].fate = "fault" /\ <<o, "outer">> \notin stop[s].tasks
            BY <1>1, <1>2, <2>1, <2>2, <3>2 DEF Alright, Survives, Past
        <3>4. k = "inner" BY <3>1, <3>3
        <3> QED BY <2>1, <3>1, <3>3, <3>4 DEF Raised
    <2> QED BY <1>3, <2>1, <2>2, StopReturns
<1>8. CASE StopTerminates(s)
    <2>1. /\ alive /\ alive' /\ UNCHANGED op /\ native' = {} /\ stop[s].at = "closing"
          /\ stop' = [stop EXCEPT ![s] = Over] /\ receipt' = Outcome(s, "complete")
          /\ stopped' = stopped \cup stop[s].ops
        BY <1>8 DEF StopTerminates, StopConfirmed
    <2>2. Joined(s) BY <1>1, <2>1 DEF StopSane
    <2> QED BY <1>3, <2>1, <2>2, StopReturns
<1>9. CASE StopTimesOut(s)
    <2>1. /\ alive /\ alive' /\ UNCHANGED <<op, native, stopped>>
          /\ stop' = [stop EXCEPT ![s] = Over] /\ receipt' = Outcome(s, "pending")
        BY <1>9 DEF StopTimesOut
    <2> QED BY <2>1, StopReturns
<1>10. CASE StopFails(s) \/ StopAbandoned(s)
    <2>1. /\ alive /\ alive' /\ UNCHANGED <<op, native, stopped>>
          /\ stop' = [stop EXCEPT ![s] = Over] /\ receipt' = Outcome(s, "failed")
        BY <1>10 DEF StopFails, StopAbandoned, StopEndsFailed
    <2> QED BY <2>1, StopReturns
<1> QED BY <1>4, <1>5, <1>6, <1>7, <1>8, <1>9, <1>10 DEF StopStep, StopGivesUp

\* Captures only wake commands.
LEMMA CaptureAlright ==
    ASSUME Inductive, NEW c \in Capture, CaptureTries(c) \/ CaptureCancelled(c) \/ CaptureEnds(c)
    PROVE  (\A p \in Op : Alright(p)') /\ (\A r \in Stop : StopSane(r)')
<1>1. /\ alive /\ alive' /\ UNCHANGED <<stop, stopped, native, receipt>>
      /\ op' = op \/ op' = WokenOps(op)
    BY DEF CaptureTries, CaptureCancelled, CaptureEnds, CaptureGone
<1>2. /\ OpType /\ StopType
      /\ (\A p \in Op : Alright(p)) /\ (\A r \in Stop : StopSane(r))
    BY DEF Inductive, Inv
<1>3. \A p \in Op : Awakened(p) BY <1>1, <1>2, WokenShape
<1>4. \A p \in Op : Alright(p)' BY <1>1, <1>2, <1>3, SameAlright
<1>5. \A p \in Op : Later(p) BY <1>2, <1>3, SameLater
<1> QED BY <1>1, <1>2, <1>4, <1>5, StopKept

\* A crash ends all stops and loses all commands that have begun.
LEMMA CrashAlright ==
    ASSUME Inductive, Crash
    PROVE  (\A p \in Op : Alright(p)') /\ (\A r \in Stop : StopSane(r)')
<1>1. /\ OpType /\ StopType /\ (\A p \in Op : Alright(p))
      /\ ~alive' /\ UNCHANGED <<receipt, native, stopped>>
    BY DEF Inductive, Inv, Crash, PlainType
<1>2. \A o \in Op : \/ op[o].at = "new" /\ op'[o] = op[o]
                    \/ op[o].at # "new" /\ op'[o].at = "lost"
    BY DEF Crash, NewOp
<1>3. \A o \in Op : Alright(o)'
    BY <1>1, <1>2 DEF Alright, Sane, Covered, Owing, Past
<1>4. \A s \in Stop : stop'[s] = Idle \/ stop'[s] = Over BY DEF Crash
<1> QED BY <1>3, <1>4, StopIdle

\* A restart finds no processes; the debts it settles are of lost commands.
LEMMA RecoverAlright ==
    ASSUME Inductive, Recover
    PROVE  (\A p \in Op : Alright(p)') /\ (\A r \in Stop : StopSane(r)')
<1>1. /\ OpType /\ ReceiptType /\ StopType /\ GateHeld
      /\ (\A p \in Op : Alright(p)) /\ (\A r \in Stop : StopSane(r))
      /\ ~alive /\ alive' /\ UNCHANGED <<op, stop>> /\ native' = {}
    BY DEF Inductive, Inv, Recover
<1>2. PICK settled \in SUBSET Debts : receipt' = Recovered(settled) /\ stopped' = stopped \cup settled
    BY DEF Recover
<1>3. \A o \in Op : /\ receipt'[o].req = receipt[o].req
                    /\ o \notin Debts => receipt'[o].cleanup = receipt[o].cleanup
    BY <1>1, <1>2 DEF Recovered, ReceiptType, Entry
<1>4. \A o \in Debts : o \in Op /\ Owing(o) /\ op[o].at = "lost"
    <2>1. ASSUME NEW o \in Debts PROVE o \in Op /\ Owing(o) /\ op[o].at = "lost"
        <3>1. o \in Op /\ Owing(o) BY DEF Debts, Owing
        <3>2. op[o].at \in {"new", "lost"} BY <1>1, <3>1 DEF GateHeld
        <3> QED BY <1>1, <3>1, <3>2 DEF Alright, Sane, Past
    <2> QED BY <2>1
<1>5. ASSUME NEW o \in Op PROVE Alright(o)'
    <2>1. Sane(o)' BY <1>1, <1>3, <1>4 DEF Alright, Sane, Owing, Past
    <2>2. Survives(o)' BY <1>1 DEF Survives
    <2>3. Covered(o)' BY <1>1, <1>2, <1>4 DEF Alright, Covered, Past
    <2> QED BY <2>1, <2>2, <2>3 DEF Alright
<1>6. \A o \in Op : Later(o) BY <1>1, <1>3 DEF Later
<1>7. \A s \in Stop : StopSane(s)' BY <1>1, <1>6, StopKept
<1> QED BY <1>5, <1>7

\* Commands enter the gate one way, captures another.
LEMMA GateOpStep ==
    ASSUME OpType, ReceiptType, GateHeld, NEW o \in Op,
           OpStep(o) \/ Submit(o) \/ Calls(o) \/ CallerCancels(o)
    PROVE  GateHeld'
<1>1. alive /\ alive'
    <2>1. alive /\ UNCHANGED alive
        BY DEF OpStep, Submit, Calls, CallerCancels, TriesGate, EnsureRunning, Prepare, MarkStarted,
               Launch, Finishes, CutBeforeLaunch, Drained, OuterEnds, KilledOutside, KilledInside
    <2> QED BY <2>1
<1>2. op \in [Op -> Command] BY DEF OpType
<1>3. UNCHANGED cap \/ cap' = WokenCaptures(cap)
    BY DEF OpStep, Submit, Calls, CallerCancels, TriesGate, EnsureRunning, Prepare, MarkStarted,
           Launch, Finishes, CutBeforeLaunch, Drained, OuterEnds, KilledOutside, KilledInside, Leave,
           Disconnects
<1>4. \A c \in Capture : cap'[c] = "active" => cap[c] = "active"
    BY <1>3 DEF WokenCaptures
<1>5. \A p \in Op \ {o} : Same(p) \/ Awakened(p) => (op'[p].at \in Within => op[p].at \in Within)
    BY <1>2, AwakenedShape DEF Same, Within
<1>6. ASSUME \A p \in Op \ {o} : Same(p) \/ Awakened(p),
             op'[o].at \in Within => op[o].at \in Within \/ ~Capturing
      PROVE  GateHeld'
    BY <1>1, <1>4, <1>5, <1>6 DEF GateHeld, Capturing, Executing
<1>7. ASSUME NEW fate, InnerEnds(o, fate), op[o].at \in Within PROVE GateHeld'
    BY <1>6, <1>7, InnerShape
<1>8. ASSUME Leave(o) PROVE GateHeld'
    <2>1. op'[o].at \notin Within BY <1>8, LeaveShape DEF Within
    <2> QED BY <1>6, <1>8, <2>1, LeaveShape
<1>10. CASE TriesGate(o)
    <2>1. /\ op'[o].at \in Within => ~Capturing
          /\ \A p \in Op \ {o} : Same(p)
        BY <1>2, <1>10 DEF TriesGate, CommandMayEnter, Command, Same, Within
    <2> QED BY <1>6, <2>1
<1>11. CASE EnsureRunning(o)
    <2>1. op[o].at \in Within /\ \A p \in Op \ {o} : Same(p)
        BY <1>2, <1>11 DEF EnsureRunning, Same, Within
    <2> QED BY <1>6, <2>1
<1>12. CASE Prepare(o)
    <2>1. op[o].at \in Within /\ \A p \in Op \ {o} : Same(p)
        BY <1>2, <1>12 DEF Prepare, Same, Within, ReceiptType
    <2> QED BY <1>6, <2>1
<1>13. CASE MarkStarted(o)
    <2>0. op[o].at \in Within BY <1>13 DEF MarkStarted, Within
    <2>1. CASE InnerEnds(o, "error") BY <1>7, <2>0, <2>1
    <2>2. CASE op' = [op EXCEPT ![o].at = "marked"] /\ UNCHANGED receipt
        BY <1>6, <2>0, <2>2 DEF Same
    <2> QED BY <1>13, <2>1, <2>2 DEF MarkStarted
<1>14. CASE Launch(o)
    <2>0. op[o].at \in Within BY <1>14 DEF Launch, Within
    <2>1. CASE InnerEnds(o, "error") BY <1>7, <2>0, <2>1
    <2>2. CASE op' = [op EXCEPT ![o].at = "native"] /\ UNCHANGED receipt
        BY <1>6, <2>0, <2>2 DEF Same
    <2> QED BY <1>14, <2>1, <2>2 DEF Launch
<1>15. CASE Finishes(o) \/ Drained(o)
    <2>1. op[o].at \in Within BY <1>15 DEF Finishes, Drained, Within
    <2> QED BY <1>7, <1>15, <2>1 DEF Finishes, Drained
<1>16. CASE CutBeforeLaunch(o)
    <2>0. op[o].at \in Within BY <1>16 DEF CutBeforeLaunch, Within
    <2>1. CASE \E fate : InnerEnds(o, fate) BY <1>7, <2>0, <2>1
    <2>2. CASE /\ op' = [op EXCEPT ![o].at = "ended", ![o].fate = "cancel", ![o].cut = FALSE]
               /\ UNCHANGED receipt
        <3>1. \A p \in Op \ {o} : Same(p) BY <1>2, <2>2 DEF Same
        <3> QED BY <1>6, <2>0, <3>1
    <2> QED BY <1>16, <2>1, <2>2 DEF CutBeforeLaunch
<1>17. CASE OuterEnds(o) \/ KilledOutside(o) BY <1>8, <1>17 DEF OuterEnds, KilledOutside
<1>18. CASE KilledInside(o)
    <2>1. op[o].at \in Within BY <1>18 DEF KilledInside
    <2> QED BY <1>6, <1>18, <2>1, DisconnectShape DEF KilledInside
<1>19. CASE Submit(o) \/ Calls(o) \/ CallerCancels(o)
    <2>1. /\ op'[o].at = op[o].at \/ op'[o].at = "arrived"
          /\ \A p \in Op \ {o} : Same(p)
        BY <1>2, <1>19 DEF Submit, Calls, CallerCancels, Same, Command, ReceiptType
    <2>2. op'[o].at \in Within => op[o].at \in Within BY <2>1 DEF Within
    <2> QED BY <1>6, <2>1, <2>2
<1> QED BY <1>10, <1>11, <1>12, <1>13, <1>14, <1>15, <1>16, <1>17, <1>18, <1>19 DEF OpStep

\* Every step keeps the gate.
LEMMA GateNext == OpType /\ ReceiptType /\ PlainType /\ GateHeld /\ [Next]_vars => GateHeld'
<1> SUFFICES ASSUME OpType, ReceiptType, PlainType, GateHeld, [Next]_vars PROVE GateHeld'
    OBVIOUS
<1>0. cap \in [Capture -> {"new", "asleep", "awake", "active", "done"}] BY DEF PlainType
<1>1. ASSUME NEW o \in Op, OpStep(o) \/ Submit(o) \/ Calls(o) \/ CallerCancels(o) PROVE GateHeld'
    BY <1>1, GateOpStep
<1>2. ASSUME NEW s \in Stop, StopStep(s) \/ StopMarks(s) \/ StopGivesUp(s) PROVE GateHeld'
    <2>1. alive /\ alive' /\ UNCHANGED cap
        BY <1>2 DEF StopStep, StopMarks, StopGivesUp, StopTimesOut, StopAbandoned, StopCancels,
                    StopJoins, StopTerminates, StopFails, StopEndsFailed
    <2>2. UNCHANGED op \/ StopCancels(s)
        BY <1>2 DEF StopStep, StopMarks, StopGivesUp, StopTimesOut, StopAbandoned, StopJoins,
                    StopTerminates, StopFails, StopEndsFailed
    <2>3. \A o \in Op : op'[o].at = op[o].at BY <2>2, CancelShape
    <2> QED BY <2>1, <2>3 DEF GateHeld, Capturing, Executing
<1>3. ASSUME NEW c \in Capture, CaptureTries(c) \/ CaptureCancelled(c) \/ CaptureEnds(c)
      PROVE  GateHeld'
    <2>1. /\ alive /\ alive' /\ UNCHANGED receipt
          /\ op' = op \/ op' = WokenOps(op)
        BY <1>3 DEF CaptureTries, CaptureCancelled, CaptureEnds, CaptureGone
    <2>2. \A o \in Op : op'[o].at \in Within => op[o].at \in Within
        BY <2>1, WokenShape, AwakenedShape DEF Within
    <2>3. \/ \A d \in Capture : cap'[d] = "active" => cap[d] = "active"
          \/ ~Capturing /\ ~Executing /\ \A d \in Capture : cap'[d] = "active" => d = c
        BY <1>0, <1>3 DEF CaptureTries, CaptureCancelled, CaptureEnds, CaptureGone, CaptureMayEnter,
                          WokenCaptures, Capturing
    <2> QED BY <2>1, <2>2, <2>3 DEF GateHeld, Capturing, Executing
<1>4. CASE Crash
    <2>1. ~alive' /\ \A o \in Op : op'[o].at \in {"new", "lost"} BY <1>4 DEF Crash, PlainType, NewOp
    <2>2. \A c \in Capture : cap'[c] # "active" BY <1>4 DEF Crash
    <2> QED BY <2>1, <2>2 DEF GateHeld, Capturing, Executing, Within
<1>5. CASE Recover BY <1>5 DEF Recover, GateHeld, Capturing, Executing
<1>6. CASE UNCHANGED vars BY <1>6 DEF vars, GateHeld, Capturing, Executing
<1> QED BY <1>1, <1>2, <1>3, <1>4, <1>5, <1>6 DEF Next, Progress, Demand, CaptureStep

\* Inv holds initially,
LEMMA InductiveInit == Init => Inv
<1> SUFFICES ASSUME Init PROVE Inv
    OBVIOUS
<1>1. GateHeld
    <2>1. alive /\ \A c \in Capture : cap[c] # "active" BY DEF Init
    <2> QED BY <2>1 DEF GateHeld, Capturing
<1>2. ASSUME NEW o \in Op PROVE Alright(o)
    <2>1. /\ op[o].at = "new" /\ op[o].task = "none" /\ receipt[o].cleanup = "none"
          /\ native = {} /\ stopped = {}
        BY DEF Init, NewOp
    <2> QED BY <2>1 DEF Alright, Sane, Survives, Covered, Owing
<1>3. ASSUME NEW s \in Stop PROVE StopSane(s)
    <2>1. stop[s].tasks = {} /\ stop[s].ops = {} /\ stop[s].at = "idle" BY DEF Init, Idle
    <2> QED BY <2>1 DEF StopSane
<1> QED BY <1>1, <1>2, <1>3 DEF Inv

\* and every step keeps it,
LEMMA InductiveNext ==
    ASSUME "late" \notin Env
    PROVE  TypeOK /\ Inv /\ [Next]_vars => Inv'
<1> SUFFICES ASSUME TypeOK, Inv, [Next]_vars PROVE Inv'
    OBVIOUS
<1> DEFINE Goal == (\A p \in Op : Alright(p)') /\ (\A s \in Stop : StopSane(s)')
<1>1. Inductive /\ PlainType BY Types DEF Inductive
<1>2. GateHeld' BY <1>1, GateNext DEF Inductive, Inv
<1>3. ASSUME NEW o \in Op, OpStep(o) PROVE Goal BY <1>1, <1>3, OpStepAlright
<1>4. ASSUME NEW o \in Op, Submit(o) \/ Calls(o) \/ CallerCancels(o) PROVE Goal
    BY <1>1, <1>4, OpDemandAlright
<1>5. ASSUME NEW s \in Stop, StopStep(s) \/ StopMarks(s) \/ StopGivesUp(s) PROVE Goal
    BY <1>1, <1>5, StopStepAlright
<1>6. ASSUME NEW c \in Capture, CaptureTries(c) \/ CaptureCancelled(c) \/ CaptureEnds(c) PROVE Goal
    BY <1>1, <1>6, CaptureAlright
<1>7. ASSUME Crash PROVE Goal BY <1>1, <1>7, CrashAlright
<1>8. ASSUME Recover PROVE Goal BY <1>1, <1>8, RecoverAlright
<1>9. ASSUME UNCHANGED vars PROVE Goal
    <2>1. \A o \in Op : Alright(o)'
        BY <1>9 DEF vars, Inv, Alright, Sane, Survives, Covered, Owing
    <2>2. \A s \in Stop : StopSane(s)'
        BY <1>9 DEF vars, Inv, StopSane, Joined
    <2> QED BY <2>1, <2>2
<1>10. Goal
    BY <1>3, <1>4, <1>5, <1>6, <1>7, <1>8, <1>9 DEF Next, Progress, Demand, CaptureStep
<1> QED BY <1>2, <1>10 DEF Inv

\* so that it always holds.
LEMMA Invariance ==
    ASSUME "late" \notin Env
    PROVE  Spec => []Inv
<1>1. Init => Inv BY InductiveInit
<1>2. TypeOK /\ Inv /\ [Next]_vars => Inv' BY InductiveNext
<1> QED BY <1>1, <1>2, TypeCorrect, PTL DEF Spec

\* While portable state is captured the world's commands stand still (CutIsStable):
\* the gate is held until the inner task has ended, cancelled or not.
THEOREM CutCorrect ==
    ASSUME "late" \notin Env
    PROVE  Spec => []CutIsStable
<1>1. TypeOK /\ Inv => CutIsStable
    <2> SUFFICES ASSUME TypeOK, Inv, Capturing PROVE
            /\ ~Executing
            /\ native \subseteq Debts
            /\ Cardinality({c \in Capture : cap[c] = "active"}) = 1
        BY DEF CutIsStable
    <2>1. alive /\ ~Executing BY DEF Inv, GateHeld
    <2>2. \A o \in native : o \in Op /\ op[o].at # "native"
        BY <2>1 DEF TypeOK, Executing, Within
    <2>3. native \subseteq Debts BY <2>1, <2>2 DEF Inv, Alright, Survives, Owing, Debts
    <2>4. PICK c \in Capture : cap[c] = "active" BY DEF Capturing
    <2>5. {d \in Capture : cap[d] = "active"} = {c} BY <2>4 DEF Inv, GateHeld
    <2> QED BY <2>1, <2>3, <2>5, FS_Singleton
<1> QED BY <1>1, Invariance, TypeCorrect, PTL

\* A command whose stop was confirmed has no process, then or later
\* (StoppedStaysStopped): a stop joins all it has collected before it confirms.
THEOREM StoppedCorrect ==
    ASSUME "late" \notin Env
    PROVE  Spec => []StoppedStaysStopped
<1>1. TypeOK /\ Inv => StoppedStaysStopped
    BY DEF TypeOK, Inv, Alright, Covered, StoppedStaysStopped
<1> QED BY <1>1, Invariance, TypeCorrect, PTL
=============================================================================
