------------------------ MODULE BackgroundJobsProof ------------------------
(***************************************************************************)
(* Proofs about BackgroundJobs, for any number of request keys, remote     *)
(* identities and turns, and any bounds on probes and continuations.       *)
(*                                                                         *)
(* Inv is inductive.  Data(k) ties a row to what is under way for it: the  *)
(* submission that owns it, the attachments, the inspections and the reads *)
(* of it that are still current.  Waiting(k) ties it to the turn that      *)
(* waits for it and to the continuation that claimed it.  LineSane and     *)
(* LiveFree say what a stop leaves behind.  An action that changes one row *)
(* leaves the others Untouched, and UntouchedStep deals with all of them.  *)
(* WakeInv is inductive relative to Inv, where Steady holds.               *)
(***************************************************************************)
EXTENDS BackgroundJobs, TLAPS

-----------------------------------------------------------------------------
(* The invariant.                                                          *)

\* A key without a row has nothing under way.
Known(k) ==
    rec[k].status = "absent" =>
        /\ rec[k] = NoRow /\ calls[k] = 0 /\ submission[k] = "idle" /\ k \notin todo
        /\ \A o \in Observer : look[k][o] = "idle"

\* A submission is alone with its row, and asks once.
Submitting(k) ==
    /\ calls[k] <= 1
    /\ submission[k] # "idle" =>
           /\ rec[k].status = "submitting" /\ rec[k].ext = None
           /\ \A a \in attaching : a[1] # k
           /\ submission[k] = "preflight" => calls[k] = 0
           /\ submission[k] \in External => remote[submission[k]] # "absent"

\* A row tracks work that exists, and is finished only if the work is.
Tracked(k) ==
    rec[k].ext # None =>
        /\ remote[rec[k].ext] # "absent"
        /\ rec[k].status = "finished" => remote[rec[k].ext] = "over"

Attached(k) ==
    \A a \in attaching : a[1] = k =>
        /\ rec[k].status # "absent" /\ remote[a[2]] # "absent"
        /\ a[4] = "over" => remote[a[2]] = "over"

\* What an inspection saw first is true as long as its read of the row is current.
Looking(k) ==
    \A o \in Observer :
        /\ look[k][o] # "idle" => rec[k].ext # None
        /\ look[k][o] # "idle" /\ <<k, o>> \in fresh =>
               /\ look[k][o] = "over" => remote[rec[k].ext] = "over"
               /\ rec[k].status = "finished" => look[k][o] = "over"
        /\ o = "probe" /\ <<k, o>> \in fresh => look[k][o] # "idle"

\* A tick works on what was a row, and on the row itself while its read is current.
Ticking(k) ==
    /\ snap[k].ext # None => rec[k].ext # None /\ remote[snap[k].ext] # "absent"
    /\ <<k, "tick">> \in fresh => k \in todo /\ snap[k] = rec[k]

Data(k) == Known(k) /\ Submitting(k) /\ Tracked(k) /\ Attached(k) /\ Looking(k) /\ Ticking(k)

\* What a turn is below of has begun, and is below of the same turns and fewer.
LineSane ==
    \A t \in Turn :
        /\ turn[t] = "absent" => line[t] = {} /\ t \notin stopped
        /\ \A u \in line[t] : turn[u] # "absent" /\ line[u] \subseteq line[t]

\* A stop takes everything below with it.
LiveFree == \A t \in Turn : Live(t) => t \notin stopped /\ line[t] \intersect stopped = {}

\* The turn that waits for a job has begun, and is over once the job is claimed;
\* the wake-up it was counted for is the one that the claim stands for.
Waiting(k) ==
    /\ rec[k].status # "absent" => rec[k].run \in Turn /\ turn[rec[k].run] # "absent"
    /\ rec[k].note # None => ~Live(rec[k].run)
    /\ woken[k] <= 1
    /\ woken[k] = 1 => rec[k].note # None /\ turn[rec[k].note] # "absent"

StopSane == "stop" \notin Env => stopped = {}

Inv ==
    /\ TypeOK /\ LineSane /\ LiveFree /\ StopSane
    /\ \A k \in Job : Data(k) /\ Waiting(k)

OneJob == \A j, k \in Job : j = k

\* With one job no tick is under way while anything else happens to it.
TickCurrent == OneJob => \A k \in todo : delivering = None /\ snap[k] = rec[k]

\* What is owed is owed to a turn that nobody has stopped.
Owed == \A k \in armed : ~StoppedLine(rec[k].run)

WakeInv == TickCurrent /\ Owed /\ WakeKept

-----------------------------------------------------------------------------
(* Rows that a step leaves alone.                                          *)

LEMMA NoRowType == NoRow \in Row
    BY DEF NoRow, Row, Status, ACTIVE

LEMMA UpdateStep ==
    ASSUME TypeOK, NEW k \in Job, NEW row \in Row, Update(k, row)
    PROVE  /\ rec' \in [Job -> Row] /\ rec'[k] = row
           /\ \A j \in Job : j # k => rec'[j] = rec[j]
           /\ fresh' \subseteq fresh
           /\ \A x : <<k, x>> \notin fresh'
           /\ \A j, x : j # k => (<<j, x>> \in fresh' <=> <<j, x>> \in fresh)
    BY DEF TypeOK, Update

\* Remote work only ever goes from absent to active to over.
Later ==
    \A e \in External : /\ remote[e] # "absent" => remote'[e] # "absent"
                        /\ remote[e] = "over" => remote'[e] = "over"

\* A row that keeps its status and its identity, with what is under way for it.
Untouched(j) ==
    /\ \/ rec'[j] = rec[j]
       \/ /\ rec[j].status # "absent" /\ rec'[j].status = rec[j].status
          /\ rec'[j].ext = rec[j].ext
          /\ \A x : <<j, x>> \notin fresh'
    /\ \A x : <<j, x>> \in fresh' => <<j, x>> \in fresh
    /\ calls'[j] = calls[j] /\ submission'[j] = submission[j] /\ look'[j] = look[j]
    /\ \A a \in attaching' : a[1] = j => a \in attaching
    /\ j \in todo' => j \in todo
    /\ snap'[j] \in {snap[j], NoRow}
    /\ <<j, "tick">> \in fresh' => j \in todo' /\ snap'[j] = snap[j]

LEMMA UntouchedStep ==
    ASSUME Inv, NEW j \in Job, Later, Untouched(j)
    PROVE  Data(j)'
<1> USE DEF Untouched, Later
<1>0. /\ rec[j] \in Row /\ snap[j] \in Row /\ submission[j] \in {"idle", "preflight", "calling"} \union External
      /\ \A a \in attaching : a[2] \in External
      /\ rec[j].ext \in External \union {None} /\ snap[j].ext \in External \union {None}
    BY DEF Inv, TypeOK, Row
<1>1. Data(j)
    BY DEF Inv
<1>2. rec'[j].status = rec[j].status /\ rec'[j].ext = rec[j].ext
    OBVIOUS
<1>3. Known(j)'
    BY <1>1 DEF Data, Known
<1>4. Submitting(j)'
    BY <1>0, <1>1, <1>2 DEF Data, Submitting
<1>5. Tracked(j)'
    BY <1>0, <1>1, <1>2 DEF Data, Tracked
<1>6. Attached(j)'
    BY <1>0, <1>1, <1>2 DEF Data, Attached
<1>7. Looking(j)'
    BY <1>0, <1>1, <1>2 DEF Data, Looking, Tracked
<1>8. Ticking(j)'
    <2>1. snap'[j].ext # None => rec'[j].ext # None /\ remote'[snap'[j].ext] # "absent"
        BY <1>0, <1>1, <1>2 DEF Data, Ticking, NoRow
    <2>2. <<j, "tick">> \in fresh' => j \in todo' /\ snap'[j] = rec'[j]
        BY <1>1 DEF Data, Ticking
    <2> QED BY <2>1, <2>2 DEF Ticking
<1> QED BY <1>3, <1>4, <1>5, <1>6, <1>7, <1>8 DEF Data

\* Steps of the jobs do not touch the turns.
LEMMA TurnsStep ==
    ASSUME Inv, UNCHANGED turns
    PROVE  LineSane' /\ LiveFree' /\ StopSane'
    BY DEF Inv, turns, LineSane, LiveFree, Live, StopSane

LEMMA WaitingStep ==
    ASSUME Inv, NEW j \in Job, UNCHANGED turn,
           rec'[j].run = rec[j].run, rec'[j].note = rec[j].note,
           rec'[j].status # "absent" => rec[j].status # "absent",
           woken'[j] \in {woken[j], 0}
    PROVE  Waiting(j)'
    BY DEF Inv, Waiting, Live

\* A turn that has begun stays begun, and never comes back to life.
LEMMA WaitingMoves ==
    ASSUME Inv, NEW j \in Job, rec'[j] = rec[j], woken'[j] = woken[j],
           \A u \in Turn : turn[u] # "absent" =>
               turn'[u] # "absent" /\ (turn'[u] = "live" => turn[u] = "live")
    PROVE  Waiting(j)'
<1>1. Waiting(j) /\ rec[j] \in Row
    BY DEF Inv, TypeOK
<1>2. rec[j].status = "absent" => rec[j].note = None
    BY DEF Inv, Data, Known, NoRow
<1>3. rec[j].note \in Turn \union {None}
    BY <1>1 DEF Row
<1> QED BY <1>1, <1>2, <1>3 DEF Waiting, Live

\* A step of one job that changes its row at most, and keeps status and identity.
LEMMA KeepsStep ==
    ASSUME Inv, NEW k \in Job, NEW row \in Row, Update(k, row),
           rec[k].status # "absent", row.status = rec[k].status, row.ext = rec[k].ext,
           UNCHANGED <<remote, submission, attaching, look, calls>>,
           \A j \in Job : /\ j \in todo' => j \in todo
                          /\ snap'[j] \in {snap[j], NoRow}
                          /\ j # k => snap'[j] = snap[j] /\ (j \in todo => j \in todo')
    PROVE  rec' \in [Job -> Row] /\ fresh' \subseteq fresh /\ \A j \in Job : Data(j)'
<1>1. /\ rec' \in [Job -> Row] /\ rec'[k] = row
      /\ \A j \in Job : j # k => rec'[j] = rec[j]
      /\ fresh' \subseteq fresh
      /\ \A x : <<k, x>> \notin fresh'
      /\ \A j, x : j # k => (<<j, x>> \in fresh' <=> <<j, x>> \in fresh)
    BY UpdateStep DEF Inv
<1>2. Later
    BY DEF Later
<1>3. ASSUME NEW j \in Job PROVE Untouched(j)
    <2>1. CASE j = k
        BY <1>1, <2>1 DEF Untouched
    <2>2. CASE j # k
        BY <1>1, <2>2 DEF Untouched, Inv, Data, Ticking
    <2> QED BY <2>1, <2>2
<1> QED BY <1>1, <1>2, <1>3, UntouchedStep

\* A step that leaves every row and every inspection alone.
LEMMA IdleStep ==
    ASSUME Inv, Later, UNCHANGED <<rec, submission, look, fresh, todo, snap, calls>>,
           attaching' \subseteq attaching
    PROVE  \A j \in Job : Data(j)'
<1>1. ASSUME NEW j \in Job PROVE Untouched(j)
    BY DEF Untouched, Inv, Data, Ticking
<1> QED BY <1>1, UntouchedStep

-----------------------------------------------------------------------------
LEMMA InitStep == Init => Inv /\ WakeInv
<1> SUFFICES ASSUME Init PROVE Inv /\ WakeInv
    OBVIOUS
<1> USE DEF Init
<1>1. TypeOK
    BY NoRowType, JobConstants DEF TypeOK, Observer
<1>2. LineSane /\ LiveFree /\ StopSane
    BY DEF LineSane, LiveFree, Live, StopSane
<1>3. ASSUME NEW k \in Job PROVE Data(k) /\ Waiting(k)
    BY DEF Data, Known, Submitting, Tracked, Attached, Looking, Ticking, Waiting, NoRow, Observer
<1>4. WakeInv
    BY DEF WakeInv, TickCurrent, Owed, WakeKept
<1> QED BY <1>1, <1>2, <1>3, <1>4 DEF Inv

-----------------------------------------------------------------------------
(* Turns, grants and remote work.                                          *)

LEMMA UserStartsStep ==
    ASSUME Inv, NEW t \in Turn, UserStarts(t)
    PROVE  Inv'
<1> USE DEF UserStarts
<1>1. /\ turn'[t] = "live" /\ \A u \in Turn : u # t => turn'[u] = turn[u]
      /\ turn' \in [Turn -> {"absent", "live", "succeeded", "broken"}]
      /\ turn[t] = "absent" /\ UNCHANGED <<stopped, line>>
    BY DEF Inv, TypeOK
<1>2. TypeOK'
    BY <1>1 DEF Inv, TypeOK, loop, history
<1>3. LineSane' /\ StopSane'
    BY <1>1 DEF Inv, TypeOK, LineSane, StopSane
<1>4. LiveFree'
    BY <1>1 DEF Inv, LineSane, LiveFree, Live
<1>5. \A k \in Job : Data(k)'
    BY IdleStep DEF Later, loop, history
<1>6. \A k \in Job : Waiting(k)'
    BY <1>1, WaitingMoves DEF history
<1> QED BY <1>2, <1>3, <1>4, <1>5, <1>6 DEF Inv

LEMMA TurnEndsStep ==
    ASSUME Inv, NEW t \in Turn, TurnEnds(t)
    PROVE  Inv'
<1> USE DEF TurnEnds
<1>1. /\ turn'[t] \in {"succeeded", "broken"} /\ \A u \in Turn : u # t => turn'[u] = turn[u]
      /\ turn' \in [Turn -> {"absent", "live", "succeeded", "broken"}]
      /\ turn[t] = "live" /\ UNCHANGED <<stopped, line>>
    BY DEF Inv, TypeOK, Live
<1>2. TypeOK'
    BY <1>1 DEF Inv, TypeOK, loop, history
<1>3. LineSane' /\ StopSane'
    BY <1>1 DEF Inv, TypeOK, LineSane, StopSane
<1>4. LiveFree'
    BY <1>1 DEF Inv, LineSane, LiveFree, Live
<1>5. \A k \in Job : Data(k)'
    BY IdleStep DEF Later, loop, history
<1>6. \A k \in Job : Waiting(k)'
    BY <1>1, WaitingMoves DEF history
<1> QED BY <1>2, <1>3, <1>4, <1>5, <1>6 DEF Inv

LEMMA UserStopsStep ==
    ASSUME Inv, NEW t \in Turn, UserStops(t)
    PROVE  Inv'
<1> USE DEF UserStops
<1> DEFINE family == {u \in Turn : t \in {u} \union line[u]}
<1>1. /\ \A u \in Turn : turn'[u] = IF u \in family /\ turn[u] = "live" THEN "broken" ELSE turn[u]
      /\ turn' \in [Turn -> {"absent", "live", "succeeded", "broken"}]
      /\ stopped' = stopped \union family /\ family \subseteq Turn
      /\ turn[t] # "absent" /\ UNCHANGED line /\ "stop" \in Env
    BY DEF Inv, TypeOK, Live
<1>2. TypeOK'
    BY <1>1 DEF Inv, TypeOK, loop, history
<1>3. LineSane' /\ StopSane'
    <2>1. \A u \in Turn : turn[u] = "absent" => u \notin family
        BY <1>1 DEF Inv, LineSane
    <2>2. \A u \in Turn : line[u] \subseteq Turn /\ (turn'[u] = "absent" <=> turn[u] = "absent")
        BY <1>1 DEF Inv, TypeOK
    <2> HIDE DEF family
    <2> QED BY <1>1, <2>1, <2>2 DEF Inv, LineSane, StopSane
<1>4. LiveFree'
    <2> SUFFICES ASSUME NEW u \in Turn, turn'[u] = "live"
                 PROVE  u \notin stopped' /\ line[u] \intersect stopped' = {}
        BY <1>1 DEF LiveFree, Live
    <2>1. turn[u] = "live" /\ u \notin family
        BY <1>1
    <2>2. \A v \in line[u] : v \notin family
        BY <2>1 DEF Inv, LineSane
    <2> QED BY <1>1, <2>1, <2>2 DEF Inv, LiveFree, Live
<1>5. \A k \in Job : Data(k)'
    BY IdleStep DEF Later, loop
<1>6. \A k \in Job : Waiting(k)'
    BY <1>1, WaitingMoves DEF history
<1> QED BY <1>2, <1>3, <1>4, <1>5, <1>6 DEF Inv

LEMMA WorldStep ==
    ASSUME Inv, AccessChanges \/ \E e \in External : RemoteEnds(e)
    PROVE  Inv'
<1> USE DEF AccessChanges, RemoteEnds
<1>1. /\ UNCHANGED <<rec, turns, submission, attaching, look, fresh, loop, history>>
      /\ remote' \in [External -> {"absent", "active", "over"}] /\ access' \in BOOLEAN
      /\ Later
    BY DEF Inv, TypeOK, Later
<1>2. TypeOK'
    BY <1>1 DEF Inv, TypeOK, turns, loop, history
<1>3. LineSane' /\ LiveFree' /\ StopSane'
    BY <1>1, TurnsStep
<1>4. \A k \in Job : Data(k)'
    BY <1>1, IdleStep DEF loop, history
<1>5. \A k \in Job : Waiting(k)'
    BY <1>1, WaitingStep DEF turns, history
<1> QED BY <1>2, <1>3, <1>4, <1>5 DEF Inv

-----------------------------------------------------------------------------
(* Submission and attachment.                                              *)

\* What a step of one job, between two ticks, leaves of the others.
LEMMA OthersStep ==
    ASSUME Inv, NEW k \in Job, NEW row \in Row, Update(k, row), Later,
           \A j \in Job : j # k => calls'[j] = calls[j] /\ submission'[j] = submission[j] /\ look'[j] = look[j],
           \A a \in attaching' : a \in attaching \/ a[1] = k,
           UNCHANGED <<todo, snap>>
    PROVE  /\ rec' \in [Job -> Row] /\ rec'[k] = row
           /\ \A j \in Job : j # k => rec'[j] = rec[j]
           /\ fresh' \subseteq fresh
           /\ \A x : <<k, x>> \notin fresh'
           /\ \A j \in Job : j # k => Data(j)'
<1>1. /\ rec' \in [Job -> Row] /\ rec'[k] = row
      /\ \A j \in Job : j # k => rec'[j] = rec[j]
      /\ fresh' \subseteq fresh
      /\ \A x : <<k, x>> \notin fresh'
      /\ \A j, x : j # k => (<<j, x>> \in fresh' <=> <<j, x>> \in fresh)
    BY UpdateStep DEF Inv
<1>2. ASSUME NEW j \in Job, j # k PROVE Untouched(j)
    BY <1>1, <1>2 DEF Untouched, Inv, Data, Ticking
<1> QED BY <1>1, <1>2, UntouchedStep

LEMMA ReservedType ==
    ASSUME NEW t \in Turn
    PROVE  /\ Reserved(t) \in Row /\ Reserved(t).status = "submitting" /\ Reserved(t).ext = None
           /\ Reserved(t).run = t /\ Reserved(t).note = None
           /\ Reserved(t).wake = TRUE /\ Reserved(t).paused = FALSE
    BY DEF Reserved, NoRow, Row, Status, ACTIVE

LEMMA SubmitReservesStep ==
    ASSUME Inv, NEW t \in Turn, NEW k \in Job, SubmitReserves(t, k)
    PROVE  Inv'
<1> USE DEF SubmitReserves, Arm
<1>1. /\ UNCHANGED <<remote, turns, access, attaching, look, loop, calls>>
      /\ submission'[k] = "preflight" /\ \A j \in Job : j # k => submission'[j] = submission[j]
      /\ submission' \in [Job -> {"idle", "preflight", "calling"} \union External]
      /\ woken' \in [Job -> Nat] /\ woken'[k] = 0 /\ \A j \in Job : j # k => woken'[j] = woken[j]
      /\ armed' \subseteq Job
    BY DEF Inv, TypeOK
<1>2. Reserved(t) \in Row /\ Update(k, Reserved(t)) /\ Later /\ UNCHANGED <<todo, snap>>
    BY ReservedType DEF Later, loop
<1>3. /\ rec' \in [Job -> Row] /\ rec'[k] = Reserved(t)
      /\ \A j \in Job : j # k => rec'[j] = rec[j]
      /\ fresh' \subseteq fresh
      /\ \A x : <<k, x>> \notin fresh'
      /\ \A j \in Job : j # k => Data(j)'
    BY <1>1, <1>2, OthersStep
<1>4. TypeOK'
    BY <1>1, <1>3 DEF Inv, TypeOK, turns, loop
<1>5. Data(k)'
    <2>1. /\ rec[k] = NoRow /\ calls[k] = 0 /\ k \notin todo
          /\ \A o \in Observer : look[k][o] = "idle"
          /\ \A a \in attaching : a[1] # k
          /\ snap[k].ext = None
        <3>1. rec[k].status = "absent" /\ Known(k) /\ Attached(k) /\ Ticking(k)
            BY DEF Reservable, Inv, Data
        <3>2. rec[k] = NoRow /\ NoRow.ext = None
            BY <3>1 DEF Known, NoRow
        <3> QED BY <3>1, <3>2 DEF Known, Attached, Ticking
    <2>2. "preflight" \notin External
        BY JobConstants
    <2>3. rec'[k].status = "submitting" /\ rec'[k].ext = None
        BY <1>3, ReservedType
    <2>4. UNCHANGED <<attaching, look, todo, snap, calls>>
        BY <1>1 DEF loop
    <2> QED BY <1>1, <1>3, <2>1, <2>2, <2>3, <2>4
            DEF Data, Known, Submitting, Tracked, Attached, Looking, Ticking
<1>6. ASSUME NEW j \in Job PROVE Waiting(j)'
    <2>1. CASE j = k
        <3>1. rec'[k].run = t /\ rec'[k].note = None
            BY <1>3, ReservedType
        <3>2. turn'[t] = "live"
            BY <1>1 DEF Calling, Live, turns
        <3> QED BY <1>1, <2>1, <3>1, <3>2 DEF Waiting
    <2>2. CASE j # k
        BY <1>1, <1>3, <2>2, WaitingStep DEF turns
    <2> QED BY <2>1, <2>2
<1> QED BY <1>1, <1>3, <1>4, <1>5, <1>6, TurnsStep DEF Inv

\* What is known of a row while its submission is under way.
LEMMA SubmittingFacts ==
    ASSUME Inv, NEW k \in Job, submission[k] # "idle"
    PROVE  /\ rec[k].status = "submitting" /\ rec[k].ext = None /\ rec[k] \in Row
           /\ \A a \in attaching : a[1] # k
           /\ \A o \in Observer : look[k][o] = "idle"
           /\ snap[k].ext = None
           /\ Known(k) /\ calls[k] <= 1
<1>1. rec[k] \in Row /\ Data(k)
    BY DEF Inv, TypeOK
<1>2. /\ rec[k].status = "submitting" /\ rec[k].ext = None /\ calls[k] <= 1
      /\ \A a \in attaching : a[1] # k
    BY <1>1 DEF Data, Submitting
<1>3. \A o \in Observer : look[k][o] = "idle"
    BY <1>1, <1>2 DEF Data, Looking
<1> QED BY <1>1, <1>2, <1>3 DEF Data, Ticking

\* However a submission ends, its row keeps the turn that waits for it.
LEMMA SubmitEndsStep ==
    ASSUME Inv, NEW k \in Job, submission[k] # "idle", submission' = [submission EXCEPT ![k] = "idle"],
           NEW row \in Row, Update(k, row), row.status \in {"finished", "unknown", "running"},
           row.run = rec[k].run, row.note = rec[k].note,
           \/ row.ext = None
           \/ row.ext = submission[k] /\ submission[k] \in External /\ row.status = "running",
           UNCHANGED <<remote, turns, access, attaching, look, loop, history>>
    PROVE  Inv'
<1>1. /\ submission'[k] = "idle" /\ \A j \in Job : j # k => submission'[j] = submission[j]
      /\ submission' \in [Job -> {"idle", "preflight", "calling"} \union External]
      /\ Later
    BY DEF Inv, TypeOK, Later
<1>2. /\ rec' \in [Job -> Row] /\ rec'[k] = row
      /\ \A j \in Job : j # k => rec'[j] = rec[j]
      /\ fresh' \subseteq fresh
      /\ \A x : <<k, x>> \notin fresh'
      /\ \A j \in Job : j # k => Data(j)'
    BY <1>1, OthersStep DEF history, loop
<1>3. TypeOK'
    BY <1>1, <1>2 DEF Inv, TypeOK, turns, loop, history
<1>4. Data(k)'
    <2>1. /\ rec[k].status = "submitting" /\ rec[k].ext = None
          /\ \A a \in attaching : a[1] # k
          /\ \A o \in Observer : look[k][o] = "idle"
          /\ snap[k].ext = None /\ calls[k] <= 1
          /\ submission[k] \in External => remote[submission[k]] # "absent"
        BY SubmittingFacts DEF Inv, Data, Submitting
    <2> QED BY <1>1, <1>2, <2>1 DEF history, loop, Data, Known, Submitting, Tracked, Attached, Looking, Ticking
<1>5. ASSUME NEW j \in Job PROVE Waiting(j)'
    <2>1. rec[k].status # "absent"
        BY SubmittingFacts
    <2> QED BY <1>2, <2>1, WaitingStep DEF turns, history
<1> QED BY <1>2, <1>3, <1>4, <1>5, TurnsStep DEF Inv

\* A step of a submission that leaves all rows alone.
LEMMA SubmitMovesStep ==
    ASSUME Inv, NEW k \in Job, submission[k] # "idle", UNCHANGED <<rec, fresh, turns, access, attaching, look, loop, armed, woken>>,
           NEW x \in {"idle", "calling"} \union External, submission' = [submission EXCEPT ![k] = x],
           NEW c \in {0, 1}, calls' = [calls EXCEPT ![k] = c],
           remote' \in [External -> {"absent", "active", "over"}], Later,
           x \in External => remote'[x] # "absent"
    PROVE  Inv'
<1>1. /\ submission'[k] = x /\ \A j \in Job : j # k => submission'[j] = submission[j]
      /\ submission' \in [Job -> {"idle", "preflight", "calling"} \union External]
      /\ calls'[k] = c /\ \A j \in Job : j # k => calls'[j] = calls[j]
      /\ calls' \in [Job -> Nat]
    BY DEF Inv, TypeOK
<1>2. TypeOK'
    BY <1>1 DEF Inv, TypeOK, turns, loop
<1>3. Data(k)'
    <2>1. /\ rec[k].status = "submitting" /\ rec[k].ext = None
          /\ \A a \in attaching : a[1] # k
          /\ \A o \in Observer : look[k][o] = "idle"
          /\ snap[k].ext = None
          /\ Ticking(k) /\ Looking(k)
        BY SubmittingFacts DEF Inv, Data
    <2>2. x # "preflight"
        BY JobConstants
    <2> QED BY <1>1, <2>1, <2>2 DEF loop, Data, Known, Submitting, Tracked, Attached, Looking, Ticking
<1>4. ASSUME NEW j \in Job, j # k PROVE Data(j)'
    <2>1. Untouched(j)
        BY <1>1, <1>4 DEF Untouched, Inv, Data, Ticking, loop
    <2> QED BY <2>1, UntouchedStep
<1>5. \A j \in Job : Waiting(j)'
    BY WaitingStep DEF turns
<1> QED BY <1>2, <1>3, <1>4, <1>5, TurnsStep DEF Inv

LEMMA SubmitStep ==
    ASSUME Inv, NEW k \in Job,
           \/ SubmitRefused(k) \/ SubmitCalls(k) \/ SubmitReturns(k) \/ SubmitUncertain(k)
           \/ \E e \in External : SubmitLands(k, e)
    PROVE  Inv'
<1>1. /\ rec[k] \in Row /\ submission \in [Job -> {"idle", "preflight", "calling"} \union External]
      /\ calls \in [Job -> Nat] /\ remote \in [External -> {"absent", "active", "over"}]
      /\ "idle" \notin External /\ "preflight" \notin External /\ "calling" \notin External
    BY JobConstants DEF Inv, TypeOK
<1>2. calls[k] \in {0, 1} /\ (submission[k] = "preflight" => calls[k] = 0)
    BY <1>1 DEF Inv, Data, Submitting
<1>3. rec[k].ext = None \/ submission[k] = "idle"
    BY SubmittingFacts
<1>4. CASE SubmitRefused(k)
    <2>1. CASE Update(k, [rec[k] EXCEPT !.status = "finished"])
        BY <1>1, <1>3, <1>4, <2>1, SubmitEndsStep DEF SubmitRefused, Row, Status
    <2>2. CASE UNCHANGED <<rec, fresh>>
        <3>1. calls' = [calls EXCEPT ![k] = calls[k]] /\ Later
            BY <1>1, <1>4 DEF SubmitRefused, history, Later
        <3> QED BY <1>1, <1>2, <1>4, <2>2, <3>1, SubmitMovesStep DEF SubmitRefused, history
    <2> QED BY <1>4, <2>1, <2>2 DEF SubmitRefused
<1>5. CASE SubmitCalls(k)
    <2>1. calls' = [calls EXCEPT ![k] = 1] /\ Later
        BY <1>1, <1>2, <1>5 DEF SubmitCalls, Later
    <2> QED BY <1>1, <1>5, <2>1, SubmitMovesStep DEF SubmitCalls
<1>6. CASE SubmitReturns(k)
    BY <1>1, <1>3, <1>6, SubmitEndsStep DEF SubmitReturns, Row, Status, ACTIVE
<1>7. CASE SubmitUncertain(k)
    BY <1>1, <1>3, <1>7, SubmitEndsStep DEF SubmitUncertain, Row, Status
<1>8. ASSUME NEW e \in External, SubmitLands(k, e) PROVE Inv'
    <2>1. calls' = [calls EXCEPT ![k] = calls[k]] /\ Later
        BY <1>1, <1>8 DEF SubmitLands, history, Later
    <2>2. remote' \in [External -> {"absent", "active", "over"}] /\ remote'[e] # "absent"
        BY <1>1, <1>8 DEF SubmitLands
    <2> QED BY <1>1, <1>2, <1>8, <2>1, <2>2, SubmitMovesStep DEF SubmitLands, history
<1> QED BY <1>4, <1>5, <1>6, <1>7, <1>8

\* A row changes on what has been seen of its remote work; the turn that waits stays.
LEMMA SeenStep ==
    ASSUME Inv, NEW k \in Job, NEW row \in Row, Update(k, row),
           submission[k] = "idle", rec[k].status # "absent", row.status # "absent",
           row.run = rec[k].run, row.note = rec[k].note,
           row.ext = rec[k].ext \/ row.ext # None,
           row.ext # None => /\ remote[row.ext] # "absent"
                             /\ row.status = "finished" => remote[row.ext] = "over",
           attaching' \subseteq attaching,
           look' \in [Job -> [Observer -> {"idle", "active", "over"}]],
           \A o \in Observer : look'[k][o] # "idle" => look'[k][o] = look[k][o],
           \A j \in Job : j # k => look'[j] = look[j],
           UNCHANGED <<remote, turns, access, submission, loop, history>>
    PROVE  Inv'
<1>1. UNCHANGED <<todo, snap, calls>> /\ Later
    BY DEF loop, history, Later
<1>2. /\ rec' \in [Job -> Row] /\ rec'[k] = row
      /\ \A j \in Job : j # k => rec'[j] = rec[j]
      /\ fresh' \subseteq fresh
      /\ \A x : <<k, x>> \notin fresh'
      /\ \A j \in Job : j # k => Data(j)'
    BY <1>1, OthersStep
<1>3. TypeOK'
    BY <1>2 DEF Inv, TypeOK, turns, loop, history
<1>4. Data(k)'
    <2>1. Data(k)
        BY DEF Inv
    <2> QED BY <1>1, <1>2, <2>1 DEF Data, Known, Submitting, Tracked, Attached, Looking, Ticking
<1>5. \A j \in Job : Waiting(j)'
    BY <1>2, WaitingStep DEF turns, history
<1> QED BY <1>2, <1>3, <1>4, <1>5, TurnsStep DEF Inv

LEMMA AttachBeginsStep ==
    ASSUME Inv, NEW t \in Turn, NEW k \in Job, NEW e \in External, AttachBegins(t, k, e)
    PROVE  Inv'
<1> USE DEF AttachBegins
<1> DEFINE a == <<k, e, rec[k].ext, remote[e]>>
<1>1. /\ UNCHANGED <<remote, turns, access, submission, look, loop, calls>>
      /\ submission[k] = "idle" /\ remote[e] # "absent" /\ turn[t] = "live"
      /\ attaching' = attaching \union {a}
      /\ attaching' \subseteq Job \X External \X (External \union {None}) \X {"active", "over"}
      /\ Later
    BY DEF Inv, TypeOK, Row, Attachable, Calling, Live, Later
<1>2. a[1] = k /\ a[2] = e /\ a[4] = remote[e]
    OBVIOUS
<1> HIDE DEF a
<1>3. Data(k) /\ Waiting(k)
    BY DEF Inv
<1>4. CASE UNCHANGED <<rec, fresh, armed, woken>> /\ ~Reservable(k)
    <2>1. TypeOK'
        BY <1>1, <1>4 DEF Inv, TypeOK, turns, loop
    <2>2. Data(k)'
        BY <1>1, <1>2, <1>3, <1>4
           DEF loop, Reservable, Data, Known, Submitting, Tracked, Attached, Looking, Ticking
    <2>3. ASSUME NEW j \in Job, j # k PROVE Data(j)'
        <3>1. Untouched(j)
            BY <1>1, <1>2, <1>4, <2>3 DEF Untouched, Inv, Data, Ticking, loop
        <3> QED BY <1>1, <3>1, UntouchedStep
    <2>4. \A j \in Job : Waiting(j)'
        BY <1>1, <1>4, WaitingStep DEF turns
    <2> QED BY <1>1, <2>1, <2>2, <2>3, <2>4, TurnsStep DEF Inv
<1>5. CASE Reservable(k) /\ Update(k, Reserved(t)) /\ Arm(k)
    <2>1. /\ woken' \in [Job -> Nat] /\ woken'[k] = 0 /\ \A j \in Job : j # k => woken'[j] = woken[j]
          /\ armed' \subseteq Job
        BY <1>5 DEF Inv, TypeOK, Arm
    <2>2. /\ rec' \in [Job -> Row] /\ rec'[k] = Reserved(t)
          /\ \A j \in Job : j # k => rec'[j] = rec[j]
          /\ fresh' \subseteq fresh
          /\ \A x : <<k, x>> \notin fresh'
          /\ \A j \in Job : j # k => Data(j)'
        BY <1>1, <1>2, <1>5, ReservedType, OthersStep DEF loop
    <2>new. /\ Reserved(t).status = "submitting" /\ Reserved(t).ext = None
          /\ Reserved(t).run = t /\ Reserved(t).note = None
        BY ReservedType
    <2>3. TypeOK'
        BY <1>1, <2>1, <2>2 DEF Inv, TypeOK, turns, loop
    <2>4. Data(k)'
        <3>1. rec[k].status = "absent" /\ rec[k] = NoRow /\ NoRow.ext = None
            BY <1>3, <1>5 DEF Reservable, Data, Known, NoRow
        <3>2. /\ k \notin todo /\ snap[k].ext = None /\ calls[k] = 0
              /\ \A o \in Observer : look[k][o] = "idle"
              /\ \A b \in attaching : b[1] # k
            BY <1>3, <3>1 DEF Data, Known, Attached, Ticking
        <3>3. rec'[k].status = "submitting" /\ rec'[k].ext = None
            BY <2>2, <2>new
        <3> QED BY <1>1, <1>2, <2>2, <3>2, <3>3
                DEF loop, Data, Known, Submitting, Tracked, Attached, Looking, Ticking
    <2>5. ASSUME NEW j \in Job PROVE Waiting(j)'
        <3>1. CASE j = k
            BY <1>1, <2>1, <2>2, <2>new, <3>1 DEF Waiting, turns
        <3>2. CASE j # k
            BY <1>1, <2>1, <2>2, <3>2, WaitingStep DEF turns
        <3> QED BY <3>1, <3>2
    <2> QED BY <1>1, <2>2, <2>3, <2>4, <2>5, TurnsStep DEF Inv
<1> QED BY <1>4, <1>5

LEMMA AttachEndsStep ==
    ASSUME Inv, NEW a \in attaching, AttachRecords(a) \/ AttachFails(a)
    PROVE  Inv'
<1>1. /\ a[1] \in Job /\ a[2] \in External /\ a[4] \in {"active", "over"}
      /\ rec[a[1]] \in Row /\ look \in [Job -> [Observer -> {"idle", "active", "over"}]]
    BY DEF Inv, TypeOK
<1>2. /\ rec[a[1]].status # "absent" /\ submission[a[1]] = "idle"
      /\ remote[a[2]] # "absent" /\ (a[4] = "over" => remote[a[2]] = "over")
      /\ Tracked(a[1])
    BY <1>1 DEF Inv, Data, Attached, Submitting
<1>3. a[2] # None
    BY <1>1, JobConstants
<1>4. CASE AttachRecords(a)
    <2>1. PICK state \in {a[4], remote[a[2]]} :
                Update(a[1], [rec[a[1]] EXCEPT !.ext = a[2], !.status = Observed(state)])
        BY <1>4 DEF AttachRecords
    <2>2. Observed(state) \in {"finished", "running"} /\ (Observed(state) = "finished" => state = "over")
        BY DEF Observed
    <2> DEFINE row == [rec[a[1]] EXCEPT !.ext = a[2], !.status = Observed(state)]
    <2>3. /\ row \in Row /\ row.ext = a[2] /\ row.status = Observed(state)
          /\ row.run = rec[a[1]].run /\ row.note = rec[a[1]].note
        BY <1>1, <2>2 DEF Row, Status, ACTIVE
    <2> HIDE DEF row
    <2> QED BY <1>1, <1>2, <1>3, <1>4, <2>1, <2>2, <2>3, SeenStep DEF row, AttachRecords
<1>5. CASE AttachFails(a) /\ a[3] = None
    <2> DEFINE row == [rec[a[1]] EXCEPT !.status = "unknown"]
    <2>1. /\ row \in Row /\ row.ext = rec[a[1]].ext /\ row.status = "unknown"
          /\ row.run = rec[a[1]].run /\ row.note = rec[a[1]].note
        BY <1>1 DEF Row, Status
    <2>2. Update(a[1], row)
        BY <1>5 DEF AttachFails
    <2> HIDE DEF row
    <2> QED BY <1>1, <1>2, <1>5, <2>1, <2>2, SeenStep DEF AttachFails, Tracked
<1>6. CASE AttachFails(a) /\ a[3] # None
    <2>1. /\ UNCHANGED <<rec, fresh, remote, turns, access, submission, look, loop, history>>
          /\ attaching' \subseteq attaching /\ Later
        BY <1>6 DEF AttachFails, Later
    <2>2. TypeOK'
        BY <2>1 DEF Inv, TypeOK, turns, loop, history
    <2>3. \A j \in Job : Data(j)'
        BY <2>1, IdleStep DEF loop, history
    <2>4. \A j \in Job : Waiting(j)'
        BY <2>1, WaitingStep DEF turns, history
    <2> QED BY <2>1, <2>2, <2>3, <2>4, TurnsStep DEF Inv
<1> QED BY <1>4, <1>5, <1>6

-----------------------------------------------------------------------------
(* Waiting and controls.                                                   *)

\* A control keeps what the row is about, and the turn that waits or one that lives.
LEMMA ControlStep ==
    ASSUME Inv, NEW k \in Job, NEW row \in Row, Update(k, row), rec[k].status # "absent",
           row.status = rec[k].status, row.ext = rec[k].ext,
           armed' \subseteq Job, woken' \in [Job -> Nat],
           \A j \in Job : woken'[j] = woken[j] \/ woken'[j] = 0,
           \/ row.run = rec[k].run /\ row.note = rec[k].note
           \/ row.run \in Turn /\ Live(row.run) /\ row.note = None /\ woken'[k] = 0,
           UNCHANGED <<remote, turns, access, submission, attaching, look, loop, calls>>
    PROVE  Inv'
<1>1. /\ rec' \in [Job -> Row] /\ rec'[k] = row
      /\ \A j \in Job : j # k => rec'[j] = rec[j]
      /\ fresh' \subseteq fresh
    BY UpdateStep DEF Inv
<1>2. TypeOK'
    BY <1>1 DEF Inv, TypeOK, turns, loop
<1>3. \A j \in Job : Data(j)'
    BY KeepsStep DEF loop
<1>4. ASSUME NEW j \in Job PROVE Waiting(j)'
    <2>1. CASE rec'[j].run = rec[j].run /\ rec'[j].note = rec[j].note
        <3>1. rec'[j].status # "absent" => rec[j].status # "absent"
            BY <1>1
        <3> QED BY <2>1, <3>1, WaitingStep DEF turns
    <2>2. CASE j = k /\ row.run \in Turn /\ Live(row.run) /\ row.note = None /\ woken'[k] = 0
        BY <1>1, <2>2 DEF Waiting, Live, turns
    <2> QED BY <1>1, <2>1, <2>2
<1> QED BY <1>2, <1>3, <1>4, TurnsStep DEF Inv

LEMMA ArmFacts ==
    ASSUME TypeOK, NEW k \in Job, Arm(k) \/ Disarm(k) \/ UNCHANGED <<armed, woken>>
    PROVE  /\ armed' \subseteq Job /\ woken' \in [Job -> Nat]
           /\ \A j \in Job : woken'[j] = woken[j] \/ woken'[j] = 0
           /\ Arm(k) => woken'[k] = 0
    BY DEF TypeOK, Arm, Disarm

LEMMA WaitStep ==
    ASSUME Inv, NEW t \in Turn, NEW k \in Job, Wait(t, k) \/ ResumeByTurn(t, k)
    PROVE  Inv'
<1> USE DEF Wait, ResumeByTurn, Controllable, Calling
<1>1. rec[k] \in Row
    BY DEF Inv, TypeOK
<1>2. PICK row \in Row :
          /\ Update(k, row) /\ row.status = rec[k].status /\ row.ext = rec[k].ext
          /\ \/ row.run = rec[k].run /\ row.note = rec[k].note
             \/ row.run = t /\ row.note = None
    <2>1. CASE Wait(t, k)
        <3>1. /\ Awaited(rec[k], t) \in Row
              /\ Awaited(rec[k], t).status = rec[k].status /\ Awaited(rec[k], t).ext = rec[k].ext
              /\ \/ Awaited(rec[k], t).run = rec[k].run /\ Awaited(rec[k], t).note = rec[k].note
                 \/ Awaited(rec[k], t).run = t /\ Awaited(rec[k], t).note = None
            BY <1>1 DEF Awaited, Row
        <3>2. Update(k, Awaited(rec[k], t))
            BY <2>1
        <3> QED BY <3>1, <3>2
    <2>2. CASE ResumeByTurn(t, k)
        <3> DEFINE row == [rec[k] EXCEPT !.paused = FALSE, !.run = t, !.wake = TRUE, !.note = None,
                                         !.monitor = FALSE]
        <3>1. row \in Row /\ row.status = rec[k].status /\ row.ext = rec[k].ext /\ row.run = t /\ row.note = None
            BY <1>1 DEF Row
        <3> QED BY <2>2, <3>1
    <2> QED BY <2>1, <2>2
<1>3. /\ armed' \subseteq Job /\ woken' \in [Job -> Nat] /\ woken'[k] = 0
      /\ \A j \in Job : woken'[j] = woken[j] \/ woken'[j] = 0
    BY ArmFacts DEF Inv
<1> QED BY <1>2, <1>3, ControlStep

LEMMA BoardStep ==
    ASSUME Inv, NEW k \in Job, Relinquish(k) \/ ResumeByBoard(k)
    PROVE  Inv'
<1> USE DEF Relinquish, ResumeByBoard, Controllable, history
<1>1. rec[k] \in Row
    BY DEF Inv, TypeOK
<1>2. PICK row \in Row :
          /\ Update(k, row) /\ row.status = rec[k].status /\ row.ext = rec[k].ext
          /\ row.run = rec[k].run /\ row.note = rec[k].note
    <2> DEFINE Kept(row) == /\ row \in Row /\ row.status = rec[k].status /\ row.ext = rec[k].ext
                            /\ row.run = rec[k].run /\ row.note = rec[k].note
    <2>1. /\ Kept([rec[k] EXCEPT !.paused = TRUE]) /\ Kept([rec[k] EXCEPT !.wake = FALSE])
          /\ Kept([rec[k] EXCEPT !.paused = TRUE, !.wake = FALSE])
          /\ Kept([rec[k] EXCEPT !.paused = FALSE, !.monitor = TRUE, !.wake = FALSE])
          /\ Kept([rec[k] EXCEPT !.paused = FALSE])
        BY <1>1 DEF Row
    <2> HIDE DEF Kept
    <2>2. CASE Relinquish(k)
        <3>1. PICK row \in {[rec[k] EXCEPT !.paused = TRUE], [rec[k] EXCEPT !.wake = FALSE],
                            [rec[k] EXCEPT !.paused = TRUE, !.wake = FALSE]} : Update(k, row)
            BY <2>2
        <3> QED BY <2>1, <3>1 DEF Kept
    <2>3. CASE ResumeByBoard(k)
        <3>1. PICK row : Kept(row) /\ Update(k, row)
            BY <2>1, <2>3
        <3> QED BY <3>1 DEF Kept
    <2> QED BY <2>2, <2>3
<1>3. /\ armed' \subseteq Job /\ woken' \in [Job -> Nat]
      /\ \A j \in Job : woken'[j] = woken[j] \/ woken'[j] = 0
    BY ArmFacts DEF Inv
<1> QED BY <1>2, <1>3, ControlStep

LEMMA CancelAsksStep ==
    ASSUME Inv, NEW k \in Job, CancelAsks(k)
    PROVE  Inv'
<1> USE DEF CancelAsks, Controllable
<1>1. rec[k] \in Row /\ rec[k].ext \in External /\ Data(k)
    BY DEF Inv, TypeOK, Row
<1>2. /\ rec' \in [Job -> Row] /\ rec'[k].status = rec[k].status /\ rec'[k].ext = rec[k].ext
      /\ rec'[k].run = rec[k].run /\ rec'[k].note = rec[k].note
      /\ \A j \in Job : j # k => rec'[j] = rec[j]
    <2> DEFINE row == [rec[k] EXCEPT !.paused = TRUE, !.wake = FALSE]
    <2>1. row \in Row /\ row.status = rec[k].status /\ row.ext = rec[k].ext
          /\ row.run = rec[k].run /\ row.note = rec[k].note
        BY <1>1 DEF Row
    <2>2. rec' = [rec EXCEPT ![k] = row]
        BY DEF Inv, TypeOK
    <2> HIDE DEF row
    <2> QED BY <2>1, <2>2 DEF Inv, TypeOK
<1>3. /\ look' \in [Job -> [Observer -> {"idle", "active", "over"}]]
      /\ look'[k]["cancel"] = remote[rec[k].ext]
      /\ \A o \in Observer : o # "cancel" => look'[k][o] = look[k][o]
      /\ \A j \in Job : j # k => look'[j] = look[j]
    <2>1. remote[rec[k].ext] \in {"active", "over"}
        BY <1>1 DEF Inv, TypeOK, Data, Tracked
    <2> QED BY <2>1 DEF Inv, TypeOK, Observer
<1>4. /\ fresh' \subseteq Job \X (Observer \union {"tick"})
      /\ \A x : <<k, x>> \in fresh' <=> x = "cancel"
      /\ \A j \in Job : \A x : j # k => (<<j, x>> \in fresh' <=> <<j, x>> \in fresh)
    BY DEF Inv, TypeOK, Observer
<1>5. TypeOK'
    BY <1>2, <1>3, <1>4 DEF Inv, TypeOK, turns, loop, Disarm
<1>6. Data(k)'
    BY <1>1, <1>2, <1>3, <1>4, JobConstants
       DEF loop, Data, Known, Submitting, Tracked, Attached, Looking, Ticking, Observer
<1>7. ASSUME NEW j \in Job, j # k PROVE Data(j)'
    <2>1. Untouched(j) /\ Later
        BY <1>2, <1>3, <1>4, <1>7 DEF Untouched, Inv, Data, Ticking, loop, Later
    <2> QED BY <2>1, UntouchedStep
<1>8. \A j \in Job : Waiting(j)'
    BY <1>2, WaitingStep DEF turns, Disarm
<1> QED BY <1>5, <1>6, <1>7, <1>8, TurnsStep DEF Inv

LEMMA RefreshBeginsStep ==
    ASSUME Inv, NEW k \in Job, RefreshBegins(k)
    PROVE  Inv'
<1> USE DEF RefreshBegins, Controllable
<1>1. rec[k] \in Row /\ rec[k].ext \in External /\ Data(k)
    BY DEF Inv, TypeOK, Row
<1>2. /\ look' \in [Job -> [Observer -> {"idle", "active", "over"}]]
      /\ look'[k]["refresh"] = remote[rec[k].ext]
      /\ \A o \in Observer : o # "refresh" => look'[k][o] = look[k][o]
      /\ \A j \in Job : j # k => look'[j] = look[j]
    <2>1. remote[rec[k].ext] \in {"active", "over"}
        BY <1>1 DEF Inv, TypeOK, Data, Tracked
    <2> QED BY <2>1 DEF Inv, TypeOK, Observer
<1>3. /\ fresh' \subseteq Job \X (Observer \union {"tick"})
      /\ \A j, x : <<j, x>> \in fresh' <=> <<j, x>> \in fresh \/ (j = k /\ x = "refresh")
    <2>1. fresh' = fresh \union {<<k, "refresh">>}
        OBVIOUS
    <2>2. fresh \subseteq Job \X (Observer \union {"tick"}) /\ "refresh" \in Observer
        BY DEF Inv, TypeOK, Observer
    <2>3. fresh' \subseteq Job \X (Observer \union {"tick"})
        BY <2>1, <2>2
    <2>4. \A j, x : <<j, x>> \in fresh' <=> <<j, x>> \in fresh \/ (j = k /\ x = "refresh")
        BY <2>1
    <2> QED BY <2>3, <2>4
<1>4. TypeOK'
    BY <1>2, <1>3 DEF Inv, TypeOK, turns, loop, history
<1>5. Data(k)'
    BY <1>1, <1>2, <1>3, JobConstants
       DEF loop, history, Data, Known, Submitting, Tracked, Attached, Looking, Ticking, Observer
<1>6. ASSUME NEW j \in Job, j # k PROVE Data(j)'
    <2>1. Untouched(j) /\ Later
        BY <1>2, <1>3, <1>6 DEF Untouched, Inv, Data, Ticking, loop, Later, history
    <2> QED BY <2>1, UntouchedStep
<1>7. \A j \in Job : Waiting(j)'
    BY WaitingStep DEF turns, history
<1> QED BY <1>4, <1>5, <1>6, <1>7, TurnsStep DEF Inv

LEMMA ObservationStep ==
    ASSUME Inv, NEW k \in Job, NEW o \in Observer, ObservationRecorded(k, o) \/ ObservationFails(k, o)
    PROVE  Inv'
<1> USE DEF ObservationRecorded, ObservationFails
<1>1. rec[k] \in Row /\ rec[k].ext \in External /\ rec[k].status # "absent" /\ submission[k] = "idle" /\ Data(k)
    <2>1. Data(k) /\ rec[k] \in Row
        BY DEF Inv, TypeOK
    <2>2. rec[k].ext # None /\ submission[k] = "idle"
        BY <2>1 DEF Data, Looking, Submitting
    <2> QED BY <2>1, <2>2 DEF Data, Known, NoRow, Row
<1>2. /\ UNCHANGED <<remote, turns, access, submission, attaching, loop, history>>
      /\ look[k][o] # "idle" /\ look[k][o] \in {"active", "over"}
      /\ look' \in [Job -> [Observer -> {"idle", "active", "over"}]]
      /\ look'[k][o] = "idle"
      /\ \A p \in Observer : p # o => look'[k][p] = look[k][p]
      /\ \A j \in Job : j # k => look'[j] = look[j]
    <2>1. look' = [look EXCEPT ![k][o] = "idle"] /\ look[k][o] # "idle"
        OBVIOUS
    <2>2. look \in [Job -> [Observer -> {"idle", "active", "over"}]]
        BY DEF Inv, TypeOK
    <2>3. UNCHANGED <<remote, turns, access, submission, attaching, loop, history>>
        OBVIOUS
    <2> QED BY <2>1, <2>2, <2>3
<1>3. CASE UNCHANGED <<rec, fresh>> /\ (o = "probe" => <<k, o>> \notin fresh)
    <2>1. TypeOK'
        BY <1>2, <1>3 DEF Inv, TypeOK, turns, loop, history
    <2>2. Data(k)'
        BY <1>1, <1>2, <1>3, JobConstants
           DEF loop, history, Data, Known, Submitting, Tracked, Attached, Looking, Ticking, Observer
    <2>3. ASSUME NEW j \in Job, j # k PROVE Data(j)'
        <3>1. Untouched(j) /\ Later
            BY <1>2, <1>3, <2>3 DEF Untouched, Inv, Data, Ticking, loop, Later, history
        <3> QED BY <3>1, UntouchedStep
    <2>4. \A j \in Job : Waiting(j)'
        BY <1>2, <1>3, WaitingStep DEF turns, history
    <2> QED BY <1>2, <2>1, <2>2, <2>3, <2>4, TurnsStep DEF Inv
<1>4. ASSUME NEW row \in Row, Update(k, row), <<k, o>> \in fresh,
             row.run = rec[k].run, row.note = rec[k].note, row.ext = rec[k].ext, row.status # "absent",
             row.status = "finished" => rec[k].status = "finished" \/ remote[rec[k].ext] = "over"
      PROVE  Inv'
    <2>1. /\ remote[row.ext] # "absent"
          /\ row.status = "finished" => remote[row.ext] = "over"
        BY <1>1, <1>4, JobConstants DEF Data, Tracked
    <2>2. \A p \in Observer : look'[k][p] # "idle" => look'[k][p] = look[k][p]
        BY <1>2
    <2> QED BY <1>1, <1>2, <1>4, <2>1, <2>2, SeenStep
<1>5. CASE ObservationRecorded(k, o)
    <2>1. PICK state \in {look[k][o], remote[rec[k].ext]} :
                UpdateIfFresh(k, o, [rec[k] EXCEPT !.status = Observed(state)])
        BY <1>5
    <2> DEFINE row == [rec[k] EXCEPT !.status = Observed(state)]
    <2>2. /\ row \in Row /\ row.run = rec[k].run /\ row.note = rec[k].note /\ row.ext = rec[k].ext
          /\ row.status \in {"finished", "running"} /\ (row.status = "finished" => state = "over")
        BY <1>1 DEF Row, Status, ACTIVE, Observed
    <2> HIDE DEF row
    <2>3. CASE <<k, o>> \notin fresh
        BY <1>3, <2>1, <2>3 DEF UpdateIfFresh
    <2>4. CASE <<k, o>> \in fresh
        <3>1. row.status = "finished" => remote[rec[k].ext] = "over"
            BY <1>1, <1>2, <2>2, <2>4 DEF Data, Looking
        <3> QED BY <1>4, <2>1, <2>2, <2>4, <3>1 DEF UpdateIfFresh, row
    <2> QED BY <2>3, <2>4
<1>6. CASE ObservationFails(k, o)
    <2> DEFINE row == [rec[k] EXCEPT !.status = "unknown"]
    <2>1. /\ row \in Row /\ row.run = rec[k].run /\ row.note = rec[k].note /\ row.ext = rec[k].ext
          /\ row.status = "unknown"
        BY <1>1 DEF Row, Status
    <2> HIDE DEF row
    <2>2. CASE o # "cancel" /\ UpdateIfFresh(k, o, rec[k])
        BY <1>1, <1>3, <1>4, <2>2 DEF UpdateIfFresh
    <2>3. CASE o = "cancel" /\ UpdateIfFresh(k, o, row)
        BY <1>3, <1>4, <2>1, <2>3 DEF UpdateIfFresh
    <2>4. CASE o = "cancel" /\ UNCHANGED <<rec, fresh>>
        BY <1>3, <2>4
    <2> QED BY <1>6, <2>2, <2>3, <2>4 DEF row
<1> QED BY <1>5, <1>6

-----------------------------------------------------------------------------
(* The host's loop.                                                        *)

LEMMA TickStartsStep ==
    ASSUME Inv, TickStarts
    PROVE  Inv'
<1> USE DEF TickStarts
<1>1. /\ UNCHANGED <<rec, remote, turns, access, submission, attaching, look, delivering, history>>
      /\ todo' = {k \in Job : rec[k].status # "absent"} /\ snap' = rec /\ todo = {}
      /\ \A j, x : <<j, x>> \in fresh' <=> <<j, x>> \in fresh \/ (j \in todo' /\ x = "tick")
      /\ fresh' \subseteq Job \X (Observer \union {"tick"})
    BY DEF Inv, TypeOK
<1>2. TypeOK'
    BY <1>1 DEF Inv, TypeOK, turns, history
<1>3. ASSUME NEW k \in Job PROVE Data(k)'
    <2>1. Data(k) /\ (rec[k].status = "absent" => rec[k] = NoRow)
        BY DEF Inv, Data, Known
    <2>2. "tick" \notin Observer
        BY DEF Observer
    <2> QED BY <1>1, <2>1, <2>2
            DEF history, Data, Known, Submitting, Tracked, Attached, Looking, Ticking
<1>4. \A j \in Job : Waiting(j)'
    BY <1>1, WaitingStep DEF turns, history
<1> QED BY <1>1, <1>2, <1>3, <1>4, TurnsStep DEF Inv

\* One row of the tick is dealt with.
LEMMA TicksFacts ==
    ASSUME Inv, NEW k \in Job, Ticks(k)
    PROVE  /\ k \in todo /\ todo' \subseteq Job /\ snap' \in [Job -> Row]
           /\ snap'[k] = NoRow /\ k \notin todo'
           /\ \A j \in Job : j # k => snap'[j] = snap[j] /\ (j \in todo' <=> j \in todo)
           /\ rec[k].status # "absent" /\ Data(k)
    BY NoRowType DEF Ticks, Inv, TypeOK, Data, Known

\* The rows stay as they are, and at most the read of this tick is given up.
LEMMA TickMovesStep ==
    ASSUME Inv, NEW k \in Job, Ticks(k), fresh' = fresh \ {<<k, "tick">>},
           UNCHANGED <<rec, remote, turns, access, submission, attaching, look, history>>,
           delivering' \in Job \union {None}
    PROVE  Inv'
<1>1. TypeOK'
    BY TicksFacts DEF Inv, TypeOK, turns, history
<1>2. ASSUME NEW j \in Job PROVE Data(j)'
    <2>1. Later
        BY DEF Later
    <2>2. /\ \A x : <<j, x>> \in fresh' => <<j, x>> \in fresh
          /\ j = k => <<j, "tick">> \notin fresh'
        OBVIOUS
    <2>3. Untouched(j)
        BY <2>2, TicksFacts DEF Untouched, Inv, Data, Ticking, history
    <2> QED BY <2>1, <2>3, UntouchedStep
<1>3. \A j \in Job : Waiting(j)'
    BY WaitingStep DEF turns, history
<1> QED BY <1>1, <1>2, <1>3, TurnsStep DEF Inv

LEMMA TickPausesStep ==
    ASSUME Inv, NEW k \in Job, TickPauses(k)
    PROVE  Inv'
<1> USE DEF TickPauses
<1>1. /\ k \in todo /\ todo' \subseteq Job /\ snap' \in [Job -> Row]
      /\ snap'[k] = NoRow /\ k \notin todo'
      /\ \A j \in Job : j # k => snap'[j] = snap[j] /\ (j \in todo' <=> j \in todo)
      /\ rec[k].status # "absent" /\ rec[k] \in Row
    BY TicksFacts DEF Inv, TypeOK
<1>2. PICK row \in Row :
          /\ Update(k, row) /\ row.status = rec[k].status /\ row.ext = rec[k].ext
          /\ row.run = rec[k].run /\ row.note = rec[k].note
    <2> DEFINE Kept(row) == /\ row \in Row /\ row.status = rec[k].status /\ row.ext = rec[k].ext
                            /\ row.run = rec[k].run /\ row.note = rec[k].note
    <2>1. /\ Kept([rec[k] EXCEPT !.paused = TRUE]) /\ Kept([rec[k] EXCEPT !.paused = TRUE, !.wake = FALSE])
        BY <1>1 DEF Row
    <2> HIDE DEF Kept
    <2>2. PICK row : Kept(row) /\ Update(k, row)
        BY <2>1
    <2> QED BY <2>2 DEF Kept
<1>3. rec' \in [Job -> Row] /\ fresh' \subseteq fresh /\ \A j \in Job : Data(j)'
    BY <1>1, <1>2, KeepsStep
<1>4. /\ armed' \subseteq Job /\ woken' \in [Job -> Nat]
      /\ \A j \in Job : woken'[j] = woken[j] \/ woken'[j] = 0
    BY ArmFacts DEF Inv
<1>5. TypeOK'
    BY <1>1, <1>3, <1>4 DEF Inv, TypeOK, turns
<1>6. /\ rec'[k] = row /\ \A j \in Job : j # k => rec'[j] = rec[j]
    BY <1>2, UpdateStep DEF Inv
<1>7. ASSUME NEW j \in Job PROVE Waiting(j)'
    <2>1. /\ rec'[j].run = rec[j].run /\ rec'[j].note = rec[j].note
          /\ rec'[j].status # "absent" => rec[j].status # "absent"
        BY <1>2, <1>6
    <2> QED BY <1>4, <2>1, WaitingStep DEF turns
<1> QED BY <1>3, <1>5, <1>7, TurnsStep DEF Inv

LEMMA TickProbesStep ==
    ASSUME Inv, NEW k \in Job, TickProbes(k)
    PROVE  Inv'
<1> USE DEF TickProbes
<1>1. /\ k \in todo /\ todo' \subseteq Job /\ snap' \in [Job -> Row]
      /\ snap'[k] = NoRow /\ k \notin todo'
      /\ \A j \in Job : j # k => snap'[j] = snap[j] /\ (j \in todo' <=> j \in todo)
      /\ rec[k].status # "absent" /\ Data(k) /\ snap[k] \in Row
      /\ UNCHANGED <<rec, remote, turns, access, submission, attaching, delivering, history>>
    BY TicksFacts DEF Inv, TypeOK
<1>2. CASE UNCHANGED look /\ fresh' = fresh \ {<<k, "tick">>}
    <2>1. delivering' \in Job \union {None}
        BY <1>1 DEF Inv, TypeOK
    <2> QED BY <1>1, <1>2, <2>1, TickMovesStep
<1>3. CASE /\ snap[k].ext # None /\ look[k]["probe"] = "idle"
           /\ look' = [look EXCEPT ![k]["probe"] = remote[snap[k].ext]]
           /\ fresh' = IF <<k, "tick">> \in fresh
                       THEN (fresh \ {<<k, "tick">>}) \union {<<k, "probe">>} ELSE fresh
    <2>1. rec[k].ext # None /\ remote[snap[k].ext] \in {"active", "over"}
        BY <1>1, <1>3 DEF Inv, TypeOK, Data, Ticking, Row
    <2>2. /\ look' \in [Job -> [Observer -> {"idle", "active", "over"}]]
          /\ look'[k]["probe"] = remote[snap[k].ext]
          /\ \A o \in Observer : o # "probe" => look'[k][o] = look[k][o]
          /\ \A j \in Job : j # k => look'[j] = look[j]
        BY <1>3, <2>1 DEF Inv, TypeOK, Observer
    <2>3. /\ <<k, "probe">> \in fresh' => snap[k] = rec[k]
          /\ <<k, "tick">> \notin fresh'
          /\ \A x : x \notin {"probe", "tick"} => (<<k, x>> \in fresh' <=> <<k, x>> \in fresh)
        <3>1. "probe" \in Observer /\ "probe" # "tick"
            BY DEF Observer
        <3>2. <<k, "probe">> \notin fresh /\ (<<k, "tick">> \in fresh => snap[k] = rec[k])
            BY <1>1, <1>3, <3>1 DEF Data, Looking, Ticking
        <3> QED BY <1>3, <3>1, <3>2
    <2>4. \A j, x : j # k => (<<j, x>> \in fresh' <=> <<j, x>> \in fresh)
        BY <1>3
    <2>5. fresh' \subseteq Job \X (Observer \union {"tick"})
        BY <1>3 DEF Inv, TypeOK, Observer
    <2>6. TypeOK'
        BY <1>1, <2>2, <2>5 DEF Inv, TypeOK, turns, history
    <2>7. Data(k)'
        <3>1. snap[k].status # "finished"
            BY DEF ACTIVE
        <3>2. /\ submission[k] = "idle"
              /\ remote[rec[k].ext] # "absent"
            BY <1>1, <2>1 DEF Data, Submitting, Tracked
        <3>3. Looking(k)'
            BY <1>1, <2>1, <2>2, <2>3, <3>1 DEF Data, Looking, Observer
        <3>4. Ticking(k)'
            BY <1>1, <2>3, NoRowType DEF Ticking, NoRow
        <3> QED BY <1>1, <3>2, <3>3, <3>4 DEF history, Data, Known, Submitting, Tracked, Attached
    <2>8. ASSUME NEW j \in Job, j # k PROVE Data(j)'
        <3>1. Untouched(j) /\ Later
            BY <1>1, <2>2, <2>4, <2>8 DEF Untouched, Inv, Data, Ticking, Later, history
        <3> QED BY <3>1, UntouchedStep
    <2>9. \A j \in Job : Waiting(j)'
        BY <1>1, WaitingStep DEF turns, history
    <2> QED BY <1>1, <2>6, <2>7, <2>8, <2>9, TurnsStep DEF Inv
<1> QED BY <1>2, <1>3

LEMMA TickSettlesStep ==
    ASSUME Inv, NEW k \in Job, TickSkips(k) \/ TickDelivers(k)
    PROVE  Inv'
<1>1. delivering' \in Job \union {None}
    BY DEF TickSkips, TickDelivers, Inv, TypeOK
<1> QED BY <1>1, TickMovesStep DEF TickSkips, TickDelivers

-----------------------------------------------------------------------------
(* Deliveries.                                                             *)

\* What is due waits for a turn that has begun, and has not been counted yet.
LEMMA DueFacts ==
    ASSUME Inv, NEW k \in Job, Due(k)
    PROVE  /\ rec[k] \in Row /\ rec[k].status # "absent" /\ rec[k].note = None /\ rec[k].wake /\ ~rec[k].paused
           /\ rec[k].run \in Turn /\ turn[rec[k].run] # "absent"
           /\ woken[k] = 0
           /\ rec[k].run \notin stopped /\ line[rec[k].run] \intersect stopped = {}
<1>1. rec[k] \in Row /\ rec[k].wake /\ rec[k].note = None /\ ~rec[k].paused
    BY DEF Due, Inv, TypeOK
<1>2. rec[k].status # "absent"
    BY <1>1 DEF Inv, Data, Known, NoRow
<1>3. rec[k].run \in Turn /\ turn[rec[k].run] # "absent" /\ woken[k] \in Nat /\ woken[k] <= 1 /\ woken[k] # 1
    BY <1>1, <1>2 DEF Inv, TypeOK, Waiting
<1>4. rec[k].run # None
    BY <1>3, JobConstants DEF Turn
<1> QED BY <1>1, <1>2, <1>3, <1>4 DEF Due, StoppedLine

\* A continuation is admitted below the turn that waited: the line stays a line.
LEMMA AdmittedStep ==
    ASSUME Inv, NEW k \in Job, Due(k), NEW u \in Turn, turn[u] = "absent", NEW x \in {"live", "broken"}
    PROVE  LET t == [turn EXCEPT ![u] = x]
               above == [line EXCEPT ![u] = Below(rec[k].run)]
           IN  /\ t \in [Turn -> {"absent", "live", "succeeded", "broken"}]
               /\ above \in [Turn -> SUBSET Turn]
               /\ t[u] = x /\ \A v \in Turn : v # u => t[v] = turn[v] /\ above[v] = line[v]
               /\ rec[k].run # u /\ u \notin stopped /\ above[u] \intersect stopped = {}
               /\ \A v \in Turn :
                      /\ t[v] = "absent" => above[v] = {} /\ v \notin stopped
                      /\ \A w \in above[v] : t[w] # "absent" /\ above[w] \subseteq above[v]
<1> DEFINE t == [turn EXCEPT ![u] = x]
<1> DEFINE above == [line EXCEPT ![u] = Below(rec[k].run)]
<1>1. /\ rec[k].run \in Turn /\ turn[rec[k].run] # "absent"
      /\ rec[k].run \notin stopped /\ line[rec[k].run] \intersect stopped = {}
    BY DueFacts
<1>2. /\ t \in [Turn -> {"absent", "live", "succeeded", "broken"}]
      /\ above \in [Turn -> SUBSET Turn]
      /\ t[u] = x /\ \A v \in Turn : v # u => t[v] = turn[v] /\ above[v] = line[v]
      /\ above[u] = {rec[k].run} \union line[rec[k].run]
    BY <1>1 DEF Inv, TypeOK, Below
<1> HIDE DEF t, above
<1>3. rec[k].run # u /\ u \notin stopped /\ line \in [Turn -> SUBSET Turn]
    BY <1>1 DEF Inv, LineSane, TypeOK
<1>4. ASSUME NEW v \in Turn, NEW w \in above[v]
      PROVE  t[w] # "absent" /\ above[w] \subseteq above[v]
    <2>1. CASE v = u
        <3>1. w \in Turn /\ turn[w] # "absent" /\ line[w] \subseteq {rec[k].run} \union line[rec[k].run]
            BY <1>1, <1>2, <1>3, <1>4, <2>1 DEF Inv, LineSane
        <3> QED BY <1>2, <2>1, <3>1
    <2>2. CASE v # u
        <3>1. w \in Turn /\ turn[w] # "absent" /\ line[w] \subseteq line[v]
            BY <1>2, <1>3, <1>4, <2>2 DEF Inv, LineSane
        <3> QED BY <1>2, <2>2, <3>1
    <2> QED BY <2>1, <2>2
<1>5. \A v \in Turn : t[v] = "absent" => above[v] = {} /\ v \notin stopped
    BY <1>2 DEF Inv, LineSane
<1>6. above[u] \intersect stopped = {}
    BY <1>1, <1>2
<1> QED BY <1>2, <1>3, <1>4, <1>5, <1>6 DEF t, above

LEMMA ClaimedType ==
    ASSUME NEW row \in Row, NEW u \in Turn
    PROVE  /\ Claimed(row, u) \in Row /\ Claimed(row, u).note = u
           /\ Claimed(row, u).status = row.status /\ Claimed(row, u).ext = row.ext
           /\ Claimed(row, u).run = row.run /\ Claimed(row, u).wake = row.wake
           /\ Claimed(row, u).paused = row.paused
    BY DEF Claimed, Row

\* A delivery that claims the row for u, with u in the state x.
LEMMA ClaimStep ==
    ASSUME Inv, NEW k \in Job, Due(k), ~Busy, NEW u \in NextTurn, turn[u] = "absent",
           NEW x \in {"live", "broken"},
           turn' = [turn EXCEPT ![u] = x], line' = [line EXCEPT ![u] = Below(rec[k].run)],
           NEW row \in Row, rec' = [rec EXCEPT ![k] = row],
           row.status = rec[k].status, row.ext = rec[k].ext, row.run = rec[k].run, row.note = u,
           woken' = [woken EXCEPT ![k] = @ + 1], armed' = armed \ {k}, delivering' = None,
           fresh' \subseteq fresh, \A j : <<k, j>> \notin fresh',
           \/ UNCHANGED <<todo, snap>>
           \/ todo' = {} /\ snap' = [j \in Job |-> NoRow] /\ \A j : <<j, "tick">> \notin fresh',
           UNCHANGED <<remote, stopped, access, submission, attaching, look, calls>>
    PROVE  Inv'
<1>1. u \in Turn /\ u # None
    BY JobConstants DEF Turn
<1>2. /\ turn' \in [Turn -> {"absent", "live", "succeeded", "broken"}]
      /\ line' \in [Turn -> SUBSET Turn]
      /\ turn'[u] = x /\ \A v \in Turn : v # u => turn'[v] = turn[v] /\ line'[v] = line[v]
      /\ rec[k].run # u /\ u \notin stopped /\ line'[u] \intersect stopped = {}
      /\ \A v \in Turn :
             /\ turn'[v] = "absent" => line'[v] = {} /\ v \notin stopped
             /\ \A w \in line'[v] : turn'[w] # "absent" /\ line'[w] \subseteq line'[v]
    <2> DEFINE t == [turn EXCEPT ![u] = x]
    <2> DEFINE above == [line EXCEPT ![u] = Below(rec[k].run)]
    <2>2. turn' = t /\ line' = above
        OBVIOUS
    <2>3. /\ t \in [Turn -> {"absent", "live", "succeeded", "broken"}]
          /\ above \in [Turn -> SUBSET Turn]
          /\ t[u] = x /\ \A v \in Turn : v # u => t[v] = turn[v] /\ above[v] = line[v]
          /\ rec[k].run # u /\ u \notin stopped /\ above[u] \intersect stopped = {}
          /\ \A v \in Turn :
                 /\ t[v] = "absent" => above[v] = {} /\ v \notin stopped
                 /\ \A w \in above[v] : t[w] # "absent" /\ above[w] \subseteq above[v]
        BY <1>1, AdmittedStep
    <2> HIDE DEF t, above
    <2> QED BY <2>2, <2>3
<1>3. /\ rec[k].status # "absent" /\ rec[k].run \in Turn /\ woken[k] = 0 /\ turn[rec[k].run] # "absent"
      /\ \A v \in Turn : turn[v] # "live"
    BY DueFacts DEF Busy, Live
<1>4. /\ rec' \in [Job -> Row] /\ rec'[k] = row /\ \A j \in Job : j # k => rec'[j] = rec[j]
      /\ woken' \in [Job -> Nat] /\ woken'[k] = 1 /\ \A j \in Job : j # k => woken'[j] = woken[j]
    BY <1>3 DEF Inv, TypeOK
<1>5. TypeOK'
    <2>1. todo' \subseteq Job /\ snap' \in [Job -> Row]
        BY NoRowType DEF Inv, TypeOK
    <2> QED BY <1>2, <1>4, <2>1 DEF Inv, TypeOK
<1>6. LineSane' /\ StopSane'
    BY <1>2 DEF LineSane, StopSane, Inv
<1>7. LiveFree'
    BY <1>2, <1>3 DEF LiveFree, Live
<1>8. ASSUME NEW j \in Job PROVE Data(j)'
    <2>1. \A y : <<j, y>> \in fresh' => <<j, y>> \in fresh
        OBVIOUS
    <2>2. j = k => \A y : <<j, y>> \notin fresh'
        OBVIOUS
    <2>3. /\ snap'[j] \in {snap[j], NoRow} /\ (j \in todo' => j \in todo)
          /\ <<j, "tick">> \in fresh' => todo' = todo /\ snap' = snap
        OBVIOUS
    <2>4. Ticking(j)
        BY DEF Inv, Data
    <2>5. Untouched(j)
        BY <1>3, <1>4, <2>1, <2>2, <2>3, <2>4 DEF Untouched, Ticking
    <2> QED BY <2>5, UntouchedStep DEF Later
<1>9. ASSUME NEW j \in Job PROVE Waiting(j)'
    <2>1. CASE j = k
        BY <1>1, <1>2, <1>3, <1>4, <2>1 DEF Waiting, Live
    <2>2. CASE j # k
        BY <1>2, <1>4, <2>2, WaitingMoves
    <2> QED BY <2>1, <2>2
<1> QED BY <1>5, <1>6, <1>7, <1>8, <1>9 DEF Inv

LEMMA DeliverAdmitsStep ==
    ASSUME Inv, NEW k \in Job, NEW u \in NextTurn, DeliverAdmits(k, u)
    PROVE  Inv'
<1> USE DEF DeliverAdmits, Admissible
<1> DEFINE row == [Claimed(rec[k], u) EXCEPT !.wake = FALSE]
<1>1. rec[k] \in Row /\ u \in Turn
    BY DEF Inv, TypeOK, Turn
<1>2. /\ row \in Row /\ row.status = rec[k].status /\ row.ext = rec[k].ext
      /\ row.run = rec[k].run /\ row.note = u
    BY <1>1, ClaimedType DEF Row
<1>3. Update(k, row)
    OBVIOUS
<1> HIDE DEF row
<1>4. rec' = [rec EXCEPT ![k] = row] /\ fresh' \subseteq fresh /\ \A j : <<k, j>> \notin fresh'
    BY <1>3 DEF Update
<1> QED BY <1>2, <1>4, ClaimStep

LEMMA DeliverFailsStep ==
    ASSUME Inv, NEW k \in Job, NEW u \in NextTurn, DeliverFails(k, u)
    PROVE  Inv'
<1> USE DEF DeliverFails, Admissible
<1>1. rec[k] \in Row /\ u \in Turn
    BY DEF Inv, TypeOK, Turn
<1>2. /\ fresh' \subseteq fresh /\ (\A j : <<k, j>> \notin fresh') /\ (\A j : <<j, "tick">> \notin fresh')
      /\ todo' = {} /\ snap' = [j \in Job |-> NoRow]
    BY DEF TickFails
<1>3. CASE UNCHANGED <<rec, turn, line, armed, woken>>
    <2>1. TypeOK'
        BY <1>2, <1>3, NoRowType DEF Inv, TypeOK
    <2>2. ASSUME NEW j \in Job PROVE Data(j)'
        <3>1. Untouched(j)
            BY <1>2, <1>3 DEF Untouched
        <3> QED BY <3>1, UntouchedStep DEF Later
    <2>3. \A j \in Job : Waiting(j)'
        BY <1>3, WaitingStep
    <2> QED BY <1>3, <2>1, <2>2, <2>3, TurnsStep DEF Inv, turns
<1>4. CASE /\ rec' = [rec EXCEPT ![k] = Claimed(rec[k], u)]
           /\ turn' = [turn EXCEPT ![u] = "broken"]
           /\ line' = [line EXCEPT ![u] = Below(rec[k].run)]
           /\ armed' = armed \ {k}
           /\ woken' = [woken EXCEPT ![k] = @ + 1]
    <2>1. /\ Claimed(rec[k], u) \in Row /\ Claimed(rec[k], u).note = u
          /\ Claimed(rec[k], u).status = rec[k].status /\ Claimed(rec[k], u).ext = rec[k].ext
          /\ Claimed(rec[k], u).run = rec[k].run
        BY <1>1, ClaimedType
    <2> QED BY <1>2, <1>4, <2>1, ClaimStep
<1> QED BY <1>3, <1>4

LEMMA DeliverSkipsStep ==
    ASSUME Inv, NEW k \in Job, DeliverSkips(k)
    PROVE  Inv'
<1> USE DEF DeliverSkips
<1>1. /\ delivering' = None /\ UNCHANGED <<remote, turns, access, submission, attaching, look, calls>>
      /\ rec[k] \in Row
    BY DEF Inv, TypeOK
<1>2. CASE TickFails(fresh) /\ UNCHANGED <<rec, armed, woken>>
    <2>1. /\ fresh' \subseteq fresh /\ (\A j : <<j, "tick">> \notin fresh')
          /\ todo' = {} /\ snap' = [j \in Job |-> NoRow]
        BY <1>2 DEF TickFails
    <2>2. TypeOK'
        BY <1>1, <1>2, <2>1, NoRowType DEF Inv, TypeOK, turns
    <2>3. ASSUME NEW j \in Job PROVE Data(j)'
        <3>1. Untouched(j)
            BY <1>1, <1>2, <2>1 DEF Untouched
        <3> QED BY <1>1, <3>1, UntouchedStep DEF Later
    <2>4. \A j \in Job : Waiting(j)'
        BY <1>1, <1>2, WaitingStep DEF turns
    <2> QED BY <1>1, <2>2, <2>3, <2>4, TurnsStep DEF Inv
<1>3. CASE Due(k) /\ Update(k, [rec[k] EXCEPT !.paused = TRUE]) /\ Disarm(k) /\ UNCHANGED <<todo, snap>>
    <2> DEFINE row == [rec[k] EXCEPT !.paused = TRUE]
    <2>1. /\ row \in Row /\ row.status = rec[k].status /\ row.ext = rec[k].ext
          /\ row.run = rec[k].run /\ row.note = rec[k].note
        BY <1>1 DEF Row
    <2>2. Update(k, row)
        BY <1>3
    <2> HIDE DEF row
    <2>3. rec[k].status # "absent"
        BY <1>3, DueFacts
    <2>4. rec' \in [Job -> Row] /\ fresh' \subseteq fresh /\ \A j \in Job : Data(j)'
        BY <1>1, <1>3, <2>1, <2>2, <2>3, KeepsStep
    <2>5. rec'[k] = row /\ \A j \in Job : j # k => rec'[j] = rec[j]
        BY <2>1, <2>2, UpdateStep DEF Inv
    <2>6. TypeOK'
        BY <1>1, <1>3, <2>4 DEF Inv, TypeOK, turns, Disarm
    <2>7. ASSUME NEW j \in Job PROVE Waiting(j)'
        <3>1. /\ rec'[j].run = rec[j].run /\ rec'[j].note = rec[j].note
              /\ rec'[j].status # "absent" => rec[j].status # "absent"
            BY <2>1, <2>3, <2>5
        <3> QED BY <1>1, <1>3, <3>1, WaitingStep DEF turns, Disarm
    <2> QED BY <1>1, <2>4, <2>6, <2>7, TurnsStep DEF Inv
<1>4. CASE UNCHANGED <<rec, fresh, armed, woken, todo, snap>>
    <2>1. TypeOK'
        BY <1>1, <1>4 DEF Inv, TypeOK, turns
    <2>2. \A j \in Job : Data(j)'
        BY <1>1, <1>4, IdleStep DEF Later
    <2>3. \A j \in Job : Waiting(j)'
        BY <1>1, <1>4, WaitingStep DEF turns
    <2> QED BY <1>1, <2>1, <2>2, <2>3, TurnsStep DEF Inv
<1> QED BY <1>2, <1>3, <1>4

-----------------------------------------------------------------------------
(* Crash and startup.                                                      *)

LEMMA RecoveredType ==
    ASSUME NEW row \in Row, NEW t \in [Turn -> {"absent", "live", "succeeded", "broken"}]
    PROVE  /\ Recovered(row, t) \in Row
           /\ Recovered(row, t).ext = row.ext /\ Recovered(row, t).run = row.run
           /\ Recovered(row, t).wake = row.wake /\ Recovered(row, t).monitor = row.monitor
           /\ \/ Recovered(row, t).status = row.status
              \/ row.status = "submitting" /\ Recovered(row, t).status = "unknown"
           /\ Recovered(row, t).note = IF row.note # None /\ t[row.note] = "absent" THEN None ELSE row.note
           /\ Recovered(row, t).paused = (row.paused \/ (row.note # None /\ t[row.note] = "broken"))
<1>1. "unknown" \in Status /\ None \in Turn \union {None}
    BY DEF Status
<1>2. row.note # None => row.note \in Turn
    BY DEF Row
<1> QED BY <1>1, <1>2 DEF Recovered, Row

LEMMA RecoveredNothing ==
    ASSUME NEW t \in [Turn -> {"absent", "live", "succeeded", "broken"}]
    PROVE  Recovered(NoRow, t) = NoRow
<1>1. NoRow \in Row
    BY NoRowType
<1>2. /\ NoRow.status = "absent" /\ NoRow.ext = None /\ NoRow.paused = FALSE /\ NoRow.wake = FALSE
      /\ NoRow.note = None /\ NoRow.run = None /\ NoRow.monitor = FALSE
    BY DEF NoRow
<1> DEFINE row == Recovered(NoRow, t)
<1>3. /\ row \in Row
      /\ row.status = "absent" /\ row.ext = None /\ row.paused = FALSE /\ row.wake = FALSE
      /\ row.note = None /\ row.run = None /\ row.monitor = FALSE
    BY <1>1, <1>2, RecoveredType
<1> HIDE DEF row
<1>4. row = [status |-> row.status, ext |-> row.ext, paused |-> row.paused, wake |-> row.wake,
             note |-> row.note, run |-> row.run, monitor |-> row.monitor]
    BY <1>3 DEF Row
<1>5. row = NoRow
    BY <1>3, <1>4 DEF NoRow
<1> QED BY <1>5 DEF row

\* A process that comes back with these rows and these runs: no run has been lost,
\* and a row is claimed at most by the run that counts for it.
LEMMA RestartWithStep ==
    ASSUME Inv, NEW rows \in [Job -> Row],
           NEW t \in [Turn -> {"absent", "live", "succeeded", "broken"}],
           NEW above \in [Turn -> SUBSET Turn],
           RestartWith(rows, t, above), woken' \in [Job -> Nat],
           \A j \in Job : /\ rows[j].status = rec[j].status /\ rows[j].ext = rec[j].ext
                          /\ rows[j].run = rec[j].run
                          /\ rec[j].status = "absent" => rows[j] = rec[j]
                          /\ woken'[j] <= 1
                          /\ woken'[j] = 1 => rows[j].note # None /\ t[rows[j].note] # "absent",
           \A v \in Turn : turn[v] # "absent" => t[v] # "absent",
           \A v \in Turn :
               /\ t[v] = "absent" => above[v] = {} /\ v \notin stopped
               /\ \A w \in above[v] : t[w] # "absent" /\ above[w] \subseteq above[v]
    PROVE  Inv'
<1> DEFINE ended == [u \in Turn |-> IF t[u] = "live" THEN "broken" ELSE t[u]]
<1>1. /\ rec' = [k \in Job |-> Recovered(rows[k], ended)]
      /\ turn' = ended /\ line' = above
      /\ armed' = {k \in armed : ~rec'[k].paused}
      /\ submission' = [k \in Job |-> "idle"] /\ attaching' = {}
      /\ look' = [k \in Job |-> [o \in Observer |-> "idle"]]
      /\ fresh' = {} /\ snap' = [k \in Job |-> NoRow] /\ todo' = {} /\ delivering' = None
      /\ UNCHANGED <<remote, stopped, access, calls>>
    BY DEF RestartWith
<1>2. /\ ended \in [Turn -> {"absent", "live", "succeeded", "broken"}]
      /\ \A v \in Turn : ended[v] # "live" /\ (ended[v] = "absent" <=> t[v] = "absent")
    OBVIOUS
<1> HIDE DEF ended
<1>3. ASSUME NEW k \in Job
      PROVE  /\ rec'[k] = Recovered(rows[k], ended) /\ rows[k] \in Row
             /\ rec'[k] \in Row /\ rec'[k].ext = rec[k].ext /\ rec'[k].run = rec[k].run
             /\ \/ rec'[k].status = rec[k].status
                \/ rec[k].status = "submitting" /\ rec'[k].status = "unknown"
             /\ rec'[k].note = IF rows[k].note # None /\ ended[rows[k].note] = "absent"
                               THEN None ELSE rows[k].note
    <2>1. rec'[k] = Recovered(rows[k], ended) /\ rows[k] \in Row
        BY <1>1
    <2>2. /\ rows[k].status = rec[k].status /\ rows[k].ext = rec[k].ext /\ rows[k].run = rec[k].run
        OBVIOUS
    <2> DEFINE row == rows[k]
    <2>3. /\ Recovered(row, ended) \in Row
          /\ Recovered(row, ended).ext = row.ext /\ Recovered(row, ended).run = row.run
          /\ \/ Recovered(row, ended).status = row.status
             \/ row.status = "submitting" /\ Recovered(row, ended).status = "unknown"
          /\ Recovered(row, ended).note = IF row.note # None /\ ended[row.note] = "absent"
                                          THEN None ELSE row.note
        BY <1>2, <2>1, RecoveredType
    <2> QED BY <2>1, <2>2, <2>3
<1>4. TypeOK'
    BY <1>1, <1>2, <1>3, NoRowType DEF Inv, TypeOK
<1>5. LineSane' /\ LiveFree' /\ StopSane'
    BY <1>1, <1>2 DEF LineSane, LiveFree, Live, StopSane, Inv
<1>6. ASSUME NEW k \in Job PROVE Data(k)'
    <2>1. Data(k) /\ calls[k] <= 1
        BY DEF Inv, Data, Submitting
    <2>2. Known(k)'
        <3>1. CASE rec[k].status = "absent"
            <4>1. rows[k] = NoRow /\ calls[k] = 0
                BY <2>1, <3>1 DEF Data, Known
            <4>2. rec'[k] = NoRow
                BY <1>2, <1>3, <4>1, RecoveredNothing
            <4> QED BY <1>1, <4>1, <4>2 DEF Known
        <3>2. CASE rec[k].status # "absent"
            BY <1>3, <3>2 DEF Known
        <3> QED BY <3>1, <3>2
    <2>3. Submitting(k)' /\ Attached(k)' /\ Looking(k)'
        BY <1>1, <2>1 DEF Submitting, Attached, Looking
    <2>4. Tracked(k)'
        BY <1>1, <1>3, <2>1 DEF Data, Tracked
    <2>5. Ticking(k)'
        BY <1>1 DEF Ticking, NoRow
    <2> QED BY <2>2, <2>3, <2>4, <2>5 DEF Data
<1>7. ASSUME NEW k \in Job PROVE Waiting(k)'
    <2>1. rec'[k].status # "absent" => rec'[k].run \in Turn /\ turn'[rec'[k].run] # "absent"
        BY <1>1, <1>2, <1>3 DEF Inv, Waiting
    <2>2. rec'[k].note # None => ~Live(rec[k].run)'
        <3>1. rec[k].status = "absent" => rec'[k].note = None
            <4>1. rec[k].status = "absent" => rows[k].note = None
                BY DEF Inv, Data, Known, NoRow
            <4> QED BY <1>3, <4>1
        <3>2. rec[k].status # "absent" => rec[k].run \in Turn
            BY DEF Inv, Waiting
        <3> QED BY <1>1, <1>2, <1>3, <3>1, <3>2 DEF Live
    <2>3. woken'[k] = 1 => rec'[k].note # None /\ turn'[rec'[k].note] # "absent"
        <3>1. rows[k].note # None => rows[k].note \in Turn
            BY DEF Row
        <3> QED BY <1>1, <1>2, <1>3, <3>1
    <2> QED BY <1>3, <2>1, <2>2, <2>3 DEF Waiting, Live
<1> QED BY <1>4, <1>5, <1>6, <1>7 DEF Inv

LEMMA RestartStep ==
    ASSUME Inv, Restart
    PROVE  Inv'
<1>1. /\ rec \in [Job -> Row] /\ turn \in [Turn -> {"absent", "live", "succeeded", "broken"}]
      /\ line \in [Turn -> SUBSET Turn] /\ woken' \in [Job -> Nat]
      /\ RestartWith(rec, turn, line)
    BY DEF Inv, TypeOK, Restart
<1>2. \A j \in Job : /\ woken'[j] <= 1
                     /\ woken'[j] = 1 => rec[j].note # None /\ turn[rec[j].note] # "absent"
    BY DEF Inv, Waiting, Restart
<1>3. \A v \in Turn :
          /\ turn[v] = "absent" => line[v] = {} /\ v \notin stopped
          /\ \A w \in line[v] : turn[w] # "absent" /\ line[w] \subseteq line[v]
    BY DEF Inv, LineSane
<1> QED BY <1>1, <1>2, <1>3, RestartWithStep

LEMMA DeliverCutStep ==
    ASSUME Inv, NEW k \in Job, NEW u \in NextTurn, DeliverCut(k, u)
    PROVE  Inv'
<1> DEFINE claimed == [rec EXCEPT ![k] = Claimed(rec[k], u)]
<1> DEFINE t == [turn EXCEPT ![u] = "live"]
<1> DEFINE above == [line EXCEPT ![u] = Below(rec[k].run)]
<1>1. Due(k) /\ turn[u] = "absent" /\ u \in Turn /\ u # None /\ rec[k] \in Row
    BY JobConstants DEF DeliverCut, Admissible, Turn, Inv, TypeOK
<1>2. /\ claimed \in [Job -> Row] /\ claimed[k].note = u
      /\ claimed[k].status = rec[k].status /\ claimed[k].ext = rec[k].ext /\ claimed[k].run = rec[k].run
      /\ \A j \in Job : j # k => claimed[j] = rec[j]
    BY <1>1, ClaimedType DEF Inv, TypeOK
<1>3. rec[k].status # "absent" /\ woken[k] = 0
    BY <1>1, DueFacts
<1>4. \/ (RestartWith(claimed, turn, line) /\ UNCHANGED woken)
      \/ (RestartWith(claimed, t, above) /\ woken' = [woken EXCEPT ![k] = @ + 1])
    BY DEF DeliverCut
<1>5. /\ t \in [Turn -> {"absent", "live", "succeeded", "broken"}]
      /\ above \in [Turn -> SUBSET Turn]
      /\ t[u] = "live" /\ \A v \in Turn : v # u => t[v] = turn[v] /\ above[v] = line[v]
      /\ \A v \in Turn :
             /\ t[v] = "absent" => above[v] = {} /\ v \notin stopped
             /\ \A w \in above[v] : t[w] # "absent" /\ above[w] \subseteq above[v]
    BY <1>1, AdmittedStep
<1> HIDE DEF claimed, t, above
<1>6. ASSUME NEW j \in Job, j # k
      PROVE  /\ woken[j] <= 1 /\ woken[j] \in Nat
             /\ woken[j] = 1 => rec[j].note # None /\ turn[rec[j].note] # "absent" /\ rec[j].note \in Turn
    BY DEF Inv, TypeOK, Row, Waiting
<1>7. CASE RestartWith(claimed, turn, line) /\ UNCHANGED woken
    <2>1. /\ turn \in [Turn -> {"absent", "live", "succeeded", "broken"}]
          /\ line \in [Turn -> SUBSET Turn] /\ woken' \in [Job -> Nat]
          /\ \A v \in Turn :
                 /\ turn[v] = "absent" => line[v] = {} /\ v \notin stopped
                 /\ \A w \in line[v] : turn[w] # "absent" /\ line[w] \subseteq line[v]
        BY <1>7 DEF Inv, TypeOK, LineSane
    <2>2. \A j \in Job : /\ claimed[j].status = rec[j].status /\ claimed[j].ext = rec[j].ext
                         /\ claimed[j].run = rec[j].run
                         /\ rec[j].status = "absent" => claimed[j] = rec[j]
                         /\ woken'[j] <= 1
                         /\ woken'[j] = 1 => claimed[j].note # None /\ turn[claimed[j].note] # "absent"
        BY <1>2, <1>3, <1>6, <1>7
    <2> QED BY <1>2, <1>7, <2>1, <2>2, RestartWithStep
<1>8. CASE RestartWith(claimed, t, above) /\ woken' = [woken EXCEPT ![k] = @ + 1]
    <2>1. /\ woken' \in [Job -> Nat] /\ woken'[k] = 1 /\ \A j \in Job : j # k => woken'[j] = woken[j]
        BY <1>3, <1>8 DEF Inv, TypeOK
    <2>2. \A j \in Job : /\ claimed[j].status = rec[j].status /\ claimed[j].ext = rec[j].ext
                         /\ claimed[j].run = rec[j].run
                         /\ rec[j].status = "absent" => claimed[j] = rec[j]
                         /\ woken'[j] <= 1
                         /\ woken'[j] = 1 => claimed[j].note # None /\ t[claimed[j].note] # "absent"
        <3>1. \A v \in Turn : turn[v] # "absent" => t[v] # "absent"
            BY <1>5
        <3> QED BY <1>1, <1>2, <1>3, <1>5, <1>6, <2>1, <3>1
    <2>3. \A v \in Turn : turn[v] # "absent" => t[v] # "absent"
        BY <1>5
    <2> QED BY <1>2, <1>5, <1>8, <2>1, <2>2, <2>3, RestartWithStep
<1> QED BY <1>4, <1>7, <1>8

-----------------------------------------------------------------------------
LEMMA NextStep == Inv /\ [Next]_vars => Inv'
<1> SUFFICES ASSUME Inv, [Next]_vars PROVE Inv'
    OBVIOUS
<1>1. ASSUME NEW t \in Turn, TurnStep(t) PROVE Inv'
    BY <1>1, UserStartsStep, TurnEndsStep, UserStopsStep, SubmitReservesStep, WaitStep, AttachBeginsStep
       DEF TurnStep
<1>2. ASSUME NEW k \in Job, JobStep(k) PROVE Inv'
    BY <1>2, SubmitStep, BoardStep, CancelAsksStep, RefreshBeginsStep, ObservationStep DEF JobStep
<1>3. ASSUME NEW k \in Job, LoopStep(k) PROVE Inv'
    BY <1>3, TickSettlesStep, TickPausesStep, TickProbesStep, DeliverSkipsStep, DeliverAdmitsStep,
       DeliverFailsStep, DeliverCutStep DEF LoopStep
<1>4. ASSUME NEW a \in attaching, AttachRecords(a) \/ AttachFails(a) PROVE Inv'
    BY <1>4, AttachEndsStep
<1>5. CASE AccessChanges \/ \E e \in External : RemoteEnds(e)
    BY <1>5, WorldStep
<1>6. CASE TickStarts \/ Restart
    BY <1>6, TickStartsStep, RestartStep
<1>7. CASE UNCHANGED vars
    <2>1. UNCHANGED <<rec, remote, turns, access, submission, attaching, look, fresh, loop, history>>
        BY <1>7 DEF vars
    <2>2. TypeOK'
        BY <2>1 DEF Inv, TypeOK, turns, loop, history
    <2>3. \A k \in Job : Data(k)'
        BY <2>1, IdleStep DEF Later, loop, history
    <2>4. \A k \in Job : Waiting(k)'
        BY <2>1, WaitingStep DEF turns, history
    <2> QED BY <2>1, <2>2, <2>3, <2>4, TurnsStep DEF Inv
<1> QED BY <1>1, <1>2, <1>3, <1>4, <1>5, <1>6, <1>7 DEF Next

\* The inductive invariant holds in every reachable state, for any number of jobs,
\* turns and identities, whatever users, providers, grants and crashes do.
THEOREM Invariance == Spec => []Inv
<1> QED BY InitStep, NextStep, PTL DEF Spec

\* Rows are well formed, and provider.submit is called at most once for a request key,
\* through uncertain outcomes, repeated calls, attachments and restarts.
THEOREM RowsCorrect == Spec => []RowsSound
<1>1. Inv => RowsSound
    BY DEF Inv, RowsSound, SubmittedOnce, Data, Submitting
<1> QED BY <1>1, Invariance, PTL

\* One arming of a wake-up admits at most one continuation, although the claim, the
\* admission of the run and the mark on the row are separate steps that a crash may part.
THEOREM WokenCorrect == Spec => []WokenOnce
<1>1. Inv => WokenOnce
    BY DEF Inv, WokenOnce, Waiting
<1> QED BY <1>1, Invariance, PTL

-----------------------------------------------------------------------------
(* Stopped turns.                                                          *)

NoneRevived ==
    \A u \in NextTurn : turn[u] = "absent" /\ turn'[u] # "absent" => line'[u] \intersect stopped = {}

LEMMA TurnsKept ==
    ASSUME UNCHANGED turns \/ \A u \in NextTurn : turn[u] = "absent" => turn'[u] = "absent"
    PROVE  NoneRevived
    BY DEF turns, NoneRevived

LEMMA AdmissionRevivesNone ==
    ASSUME Inv, NEW k \in Job, NEW u \in NextTurn,
           DeliverAdmits(k, u) \/ DeliverFails(k, u) \/ DeliverCut(k, u)
    PROVE  NoneRevived
<1>1. Due(k) /\ u \in Turn /\ turn[u] = "absent"
    BY DEF DeliverAdmits, DeliverFails, DeliverCut, Admissible, Turn
<1>2. turn \in [Turn -> {"absent", "live", "succeeded", "broken"}] /\ NextTurn \subseteq Turn
    BY DEF Inv, TypeOK, Turn
<1> DEFINE T(x) == [turn EXCEPT ![u] = x]
<1> DEFINE above == [line EXCEPT ![u] = Below(rec[k].run)]
<1>3. above[u] \intersect stopped = {}
    <2>1. "live" \in {"live", "broken"}
        OBVIOUS
    <2> QED BY <1>1, <2>1, AdmittedStep
<1>4. \A x : \A v \in Turn : v # u => T(x)[v] = turn[v]
    BY <1>2
<1>5. CASE UNCHANGED turn
    BY <1>5 DEF NoneRevived
<1>6. CASE line' = above /\ \E x : turn' = T(x)
    <2> HIDE DEF above, T
    <2> QED BY <1>2, <1>3, <1>4, <1>6 DEF NoneRevived
<1>7. ASSUME NEW rows, NEW t \in [Turn -> {"absent", "live", "succeeded", "broken"}], NEW up,
             RestartWith(rows, t, up), t = turn \/ (t = T("live") /\ up = above)
      PROVE  NoneRevived
    <2>1. line' = up /\ \A v \in Turn : turn'[v] = "absent" <=> t[v] = "absent"
        BY <1>7 DEF RestartWith
    <2> HIDE DEF above, T
    <2> QED BY <1>2, <1>3, <1>4, <1>7, <2>1 DEF NoneRevived
<1>8. CASE DeliverCut(k, u)
    <2> DEFINE claimed == [rec EXCEPT ![k] = Claimed(rec[k], u)]
    <2>1. RestartWith(claimed, turn, line) \/ RestartWith(claimed, T("live"), above)
        BY <1>8 DEF DeliverCut
    <2>2. T("live") \in [Turn -> {"absent", "live", "succeeded", "broken"}]
        BY <1>1, <1>2
    <2> HIDE DEF claimed, above, T
    <2> QED BY <1>2, <1>7, <2>1, <2>2
<1>9. CASE DeliverAdmits(k, u)
    BY <1>6, <1>9 DEF DeliverAdmits
<1>10. CASE DeliverFails(k, u)
    BY <1>5, <1>6, <1>10 DEF DeliverFails
<1> QED BY <1>8, <1>9, <1>10

LEMMA RevivesNone == Inv /\ [Next]_vars => NoneRevived
<1> SUFFICES ASSUME Inv, [Next]_vars PROVE NoneRevived
    OBVIOUS
<1>1. turn \in [Turn -> {"absent", "live", "succeeded", "broken"}] /\ NextTurn \subseteq Turn
    BY DEF Inv, TypeOK, Turn
<1>2. ASSUME NEW t \in Turn, TurnStep(t) PROVE NoneRevived
    <2>1. CASE UserStarts(t)
        BY <1>1, <2>1, TurnsKept, JobConstants DEF UserStarts
    <2>2. CASE TurnEnds(t) \/ UserStops(t)
        BY <1>1, <2>2, TurnsKept DEF TurnEnds, UserStops, Live
    <2>3. CASE UNCHANGED turns
        BY <2>3, TurnsKept
    <2> QED BY <1>2, <2>1, <2>2, <2>3
            DEF TurnStep, SubmitReserves, Wait, ResumeByTurn, AttachBegins
<1>3. ASSUME NEW k \in Job, JobStep(k) PROVE NoneRevived
    <2>1. UNCHANGED turns
        BY <1>3 DEF JobStep, SubmitRefused, SubmitCalls, SubmitReturns, SubmitUncertain, SubmitLands,
           Relinquish, ResumeByBoard, CancelAsks, RefreshBegins, ObservationRecorded, ObservationFails
    <2> QED BY <2>1, TurnsKept
<1>4. ASSUME NEW k \in Job, LoopStep(k) PROVE NoneRevived
    <2>1. CASE \E u \in NextTurn : DeliverAdmits(k, u) \/ DeliverFails(k, u) \/ DeliverCut(k, u)
        BY <2>1, AdmissionRevivesNone
    <2>2. CASE UNCHANGED turns
        BY <2>2, TurnsKept
    <2> QED BY <1>4, <2>1, <2>2
            DEF LoopStep, TickSkips, TickPauses, TickProbes, TickDelivers, DeliverSkips
<1>5. CASE Restart
    <2>1. \A v \in Turn : turn[v] = "absent" => turn'[v] = "absent"
        BY <1>5 DEF Restart, RestartWith
    <2> QED BY <1>1, <2>1, TurnsKept
<1>6. CASE UNCHANGED vars \/ UNCHANGED turns
    BY <1>6, TurnsKept DEF vars
<1>7. ASSUME NEW a \in attaching, AttachRecords(a) \/ AttachFails(a) PROVE UNCHANGED turns
    BY <1>7 DEF AttachRecords, AttachFails
<1> QED BY <1>2, <1>3, <1>4, <1>5, <1>6, <1>7 DEF Next, RemoteEnds, AccessChanges, TickStarts

\* No continuation is ever admitted below a turn that a user has stopped, although
\* the stop and the delivery race for the mutation lock.
THEOREM RevivalNever == Spec => NoRevival
<1>1. Inv /\ [Next]_vars => [NoneRevived]_vars
    BY RevivesNone
<1> QED BY <1>1, Invariance, PTL DEF Spec, NoRevival, NoneRevived

-----------------------------------------------------------------------------
(* Finished work.                                                          *)

InOrder ==
    \A k \in Job :
        rec[k].status = "finished" /\ attaching \subseteq attaching' => rec'[k].status \notin ACTIVE

LEMMA OrderKept ==
    ASSUME Inv, NEW k \in Job, NEW row, rec' = [rec EXCEPT ![k] = row],
           \/ row.status = rec[k].status
           \/ rec[k].status # "finished"
           \/ row.status \notin ACTIVE
    PROVE  InOrder
<1>1. rec'[k] = row /\ \A j \in Job : j # k => rec'[j] = rec[j]
    BY DEF Inv, TypeOK
<1> QED BY <1>1 DEF InOrder, ACTIVE

LEMMA SameRowsInOrder == UNCHANGED rec => InOrder
    BY DEF InOrder, ACTIVE

LEMMA TurnOrder ==
    ASSUME Inv, NEW t \in Turn, TurnStep(t)
    PROVE  InOrder
<1>1. CASE UNCHANGED rec
    BY <1>1, SameRowsInOrder
<1>2. ASSUME NEW k \in Job, SubmitReserves(t, k) PROVE InOrder
    BY <1>2, OrderKept DEF SubmitReserves, Reservable, Update
<1>3. ASSUME NEW k \in Job, NEW e \in External, AttachBegins(t, k, e) PROVE InOrder
    BY <1>1, <1>3, OrderKept DEF AttachBegins, Reservable, Update
<1>4. ASSUME NEW k \in Job, Wait(t, k) PROVE InOrder
    <2>1. Awaited(rec[k], t).status = rec[k].status
        BY DEF Awaited, Inv, TypeOK, Row
    <2> QED BY <1>4, <2>1, OrderKept DEF Wait, Update
<1>5. ASSUME NEW k \in Job, ResumeByTurn(t, k) PROVE InOrder
    <2> DEFINE row == [rec[k] EXCEPT !.paused = FALSE, !.run = t, !.wake = TRUE, !.note = None,
                                     !.monitor = FALSE]
    <2>1. row.status = rec[k].status
        BY DEF Inv, TypeOK, Row
    <2> QED BY <1>5, <2>1, OrderKept DEF ResumeByTurn, Update
<1> QED BY <1>1, <1>2, <1>3, <1>4, <1>5 DEF TurnStep, UserStarts, TurnEnds, UserStops

\* What the provider says of finished work is that it has finished, or it is not recorded.
LEMMA ObservationOrder ==
    ASSUME Inv, NEW k \in Job, NEW o \in Observer, ObservationRecorded(k, o) \/ ObservationFails(k, o)
    PROVE  InOrder
<1>1. rec[k] \in Row /\ Data(k)
    BY DEF Inv, TypeOK
<1>2. CASE UNCHANGED rec
    BY <1>2, SameRowsInOrder
<1>3. CASE ObservationRecorded(k, o) /\ <<k, o>> \in fresh
    <2>1. PICK state \in {look[k][o], remote[rec[k].ext]} :
              Update(k, [rec[k] EXCEPT !.status = Observed(state)])
        BY <1>3 DEF ObservationRecorded, UpdateIfFresh
    <2>2. rec[k].status = "finished" => state = "over"
        BY <1>1, <1>3, <2>1 DEF ObservationRecorded, Data, Looking, Tracked
    <2>3. /\ [rec[k] EXCEPT !.status = Observed(state)].status = Observed(state)
          /\ rec[k].status = "finished" => Observed(state) \notin ACTIVE
        BY <1>1, <2>2 DEF Row, Observed, ACTIVE
    <2> QED BY <2>1, <2>3, OrderKept DEF Update
<1>4. CASE ObservationFails(k, o) /\ <<k, o>> \in fresh
    <2>1. /\ [rec[k] EXCEPT !.status = "unknown"].status = "unknown" /\ "unknown" \notin ACTIVE
        BY <1>1 DEF Row, ACTIVE
    <2>2. CASE Update(k, rec[k])
        BY <2>2, OrderKept DEF Update
    <2>3. CASE Update(k, [rec[k] EXCEPT !.status = "unknown"])
        BY <2>1, <2>3, OrderKept DEF Update
    <2> QED BY <1>2, <1>4, <2>2, <2>3 DEF ObservationFails, UpdateIfFresh
<1> QED BY <1>2, <1>3, <1>4 DEF ObservationRecorded, ObservationFails, UpdateIfFresh

LEMMA JobOrder ==
    ASSUME Inv, NEW k \in Job, JobStep(k)
    PROVE  InOrder
<1> USE DEF Update
<1>1. rec[k] \in Row /\ rec \in [Job -> Row]
    BY DEF Inv, TypeOK
<1>2. CASE UNCHANGED rec
    BY <1>2, SameRowsInOrder
<1>3. CASE submission[k] # "idle" /\ \E row : rec' = [rec EXCEPT ![k] = row]
    BY <1>3, SubmittingFacts, OrderKept
<1>4. CASE SubmitRefused(k) \/ SubmitReturns(k) \/ SubmitUncertain(k)
    BY <1>2, <1>3, <1>4, JobConstants DEF SubmitRefused, SubmitReturns, SubmitUncertain
<1>5. CASE Relinquish(k) \/ ResumeByBoard(k)
    <2> DEFINE Kept(row) == row.status = rec[k].status
    <2>1. /\ Kept([rec[k] EXCEPT !.paused = TRUE]) /\ Kept([rec[k] EXCEPT !.wake = FALSE])
          /\ Kept([rec[k] EXCEPT !.paused = TRUE, !.wake = FALSE])
          /\ Kept([rec[k] EXCEPT !.paused = FALSE, !.monitor = TRUE, !.wake = FALSE])
          /\ Kept([rec[k] EXCEPT !.paused = FALSE])
        BY <1>1 DEF Row
    <2> HIDE DEF Kept
    <2>2. PICK row : Kept(row) /\ rec' = [rec EXCEPT ![k] = row]
        BY <1>5, <2>1 DEF Relinquish, ResumeByBoard
    <2> QED BY <2>2, OrderKept DEF Kept
<1>6. CASE CancelAsks(k)
    <2> DEFINE row == [rec[k] EXCEPT !.paused = TRUE, !.wake = FALSE]
    <2>1. rec' = [rec EXCEPT ![k] = row] /\ row.status = rec[k].status
        BY <1>1, <1>6 DEF CancelAsks, Row
    <2> QED BY <2>1, OrderKept
<1>7. CASE \E o \in Observer : ObservationRecorded(k, o) \/ ObservationFails(k, o)
    BY <1>7, ObservationOrder
<1> QED BY <1>2, <1>4, <1>5, <1>6, <1>7 DEF JobStep, SubmitCalls, SubmitLands, RefreshBegins

LEMMA RestartOrder ==
    ASSUME Inv, NEW rows \in [Job -> Row], \A j \in Job : rows[j].status = rec[j].status,
           NEW t \in [Turn -> {"absent", "live", "succeeded", "broken"}], NEW up, RestartWith(rows, t, up)
    PROVE  InOrder
<1> DEFINE ended == [u \in Turn |-> IF t[u] = "live" THEN "broken" ELSE t[u]]
<1>1. ended \in [Turn -> {"absent", "live", "succeeded", "broken"}]
    OBVIOUS
<1>2. rec' = [j \in Job |-> Recovered(rows[j], ended)]
    BY DEF RestartWith
<1> HIDE DEF ended
<1>3. ASSUME NEW j \in Job
      PROVE  rec'[j].status = rec[j].status \/ rec'[j].status = "unknown"
    <2> DEFINE row == rows[j]
    <2>1. row \in Row /\ rec'[j] = Recovered(row, ended) /\ row.status = rec[j].status
        BY <1>2
    <2>2. Recovered(row, ended).status \in {row.status, "unknown"}
        BY <1>1, <2>1, RecoveredType
    <2> QED BY <2>1, <2>2
<1> QED BY <1>3 DEF InOrder, ACTIVE

LEMMA LoopOrder ==
    ASSUME Inv, NEW k \in Job, LoopStep(k)
    PROVE  InOrder
<1> USE DEF Update
<1>1. rec[k] \in Row /\ rec \in [Job -> Row] /\ NextTurn \subseteq Turn
    BY DEF Inv, TypeOK, Turn
<1>2. CASE UNCHANGED rec
    BY <1>2, SameRowsInOrder
<1> DEFINE Kept(row) == row.status = rec[k].status
<1>3. CASE \E row : Kept(row) /\ rec' = [rec EXCEPT ![k] = row]
    BY <1>3, OrderKept
<1>4. /\ Kept([rec[k] EXCEPT !.paused = TRUE])
      /\ Kept([rec[k] EXCEPT !.paused = TRUE, !.wake = FALSE])
      /\ \A u \in NextTurn : Kept(Claimed(rec[k], u)) /\ Kept([Claimed(rec[k], u) EXCEPT !.wake = FALSE])
    BY <1>1 DEF Row, Claimed
<1> HIDE DEF Kept
<1>5. CASE TickPauses(k)
    BY <1>3, <1>4, <1>5 DEF TickPauses
<1>6. CASE DeliverSkips(k)
    BY <1>2, <1>3, <1>4, <1>6 DEF DeliverSkips
<1>7. ASSUME NEW u \in NextTurn, DeliverAdmits(k, u) \/ DeliverFails(k, u) PROVE InOrder
    BY <1>2, <1>3, <1>4, <1>7 DEF DeliverAdmits, DeliverFails
<1>8. ASSUME NEW u \in NextTurn, DeliverCut(k, u) PROVE InOrder
    <2> DEFINE claimed == [rec EXCEPT ![k] = Claimed(rec[k], u)]
    <2>1. claimed \in [Job -> Row] /\ \A j \in Job : claimed[j].status = rec[j].status
        <3>1. Claimed(rec[k], u) \in Row /\ Claimed(rec[k], u).status = rec[k].status
            BY <1>1, ClaimedType
        <3> QED BY <1>1, <3>1
    <2>2. [turn EXCEPT ![u] = "live"] \in [Turn -> {"absent", "live", "succeeded", "broken"}]
        BY DEF Inv, TypeOK
    <2>3. turn \in [Turn -> {"absent", "live", "succeeded", "broken"}]
        BY DEF Inv, TypeOK
    <2>4. \/ RestartWith(claimed, turn, line)
          \/ RestartWith(claimed, [turn EXCEPT ![u] = "live"], [line EXCEPT ![u] = Below(rec[k].run)])
        BY <1>8 DEF DeliverCut
    <2> HIDE DEF claimed
    <2> QED BY <2>1, <2>2, <2>3, <2>4, RestartOrder
<1> QED BY <1>2, <1>5, <1>6, <1>7, <1>8 DEF LoopStep, TickSkips, TickProbes, TickDelivers

LEMMA Ordered == Inv /\ [Next]_vars => InOrder
<1> SUFFICES ASSUME Inv, [Next]_vars PROVE InOrder
    OBVIOUS
<1>1. ASSUME NEW a \in attaching, AttachRecords(a) \/ AttachFails(a) PROVE InOrder
    BY <1>1 DEF AttachRecords, AttachFails, InOrder
<1>2. CASE Restart
    <2>1. rec \in [Job -> Row] /\ turn \in [Turn -> {"absent", "live", "succeeded", "broken"}]
        BY DEF Inv, TypeOK
    <2> QED BY <1>2, <2>1, RestartOrder DEF Restart
<1>3. CASE UNCHANGED rec
    BY <1>3, SameRowsInOrder
<1> QED BY <1>1, <1>2, <1>3, TurnOrder, JobOrder, LoopOrder
        DEF Next, RemoteEnds, AccessChanges, TickStarts, vars

\* A late answer to a probe, a refresh or a cancellation never takes a finished job
\* back to an active state, in whatever order the answers come in.
THEOREM AnswersInOrder == Spec => ObservationsInOrder
<1>1. Inv /\ [Next]_vars => [InOrder]_vars
    BY Ordered
<1> QED BY <1>1, Invariance, PTL DEF Spec, ObservationsInOrder, InOrder

-----------------------------------------------------------------------------
(* Wake-ups that are owed.                                                 *)

Armed(k) ==
    k \in armed => rec[k].wake /\ rec[k].note = None /\ ~rec[k].paused /\ ~StoppedLine(rec[k].run)

LEMMA WakeParts == Inv => (WakeInv <=> TickCurrent /\ \A k \in Job : Armed(k))
    BY DEF Inv, TypeOK, WakeInv, Owed, WakeKept, Armed

LEMMA ArmedKept ==
    ASSUME Inv, NEW j \in Job, Armed(j), j \in armed' => j \in armed,
           rec'[j].wake = rec[j].wake, rec'[j].note = rec[j].note,
           rec'[j].paused = rec[j].paused, rec'[j].run = rec[j].run,
           stopped' = stopped, \A v \in Turn : turn[v] # "absent" => line'[v] = line[v]
    PROVE  Armed(j)'
<1> SUFFICES ASSUME j \in armed' PROVE Armed(j)'
    BY DEF Armed
<1>1. rec[j].wake /\ rec[j].note = None /\ ~rec[j].paused /\ ~StoppedLine(rec[j].run)
    BY DEF Armed
<1>2. rec[j].status # "absent"
    BY <1>1 DEF Inv, Data, Known, NoRow
<1>3. rec[j].run \in Turn /\ line'[rec[j].run] = line[rec[j].run]
    BY <1>2 DEF Inv, Waiting
<1> QED BY <1>1, <1>3 DEF Armed, StoppedLine

LEMMA ArmedUpdate ==
    ASSUME Inv, \A j \in Job : Armed(j), NEW k \in Job, NEW row, rec' = [rec EXCEPT ![k] = row],
           UNCHANGED <<stopped, line>>, armed' \subseteq armed \union {k},
           k \in armed' => row.wake /\ row.note = None /\ ~row.paused /\ ~StoppedLine(row.run)
    PROVE  \A j \in Job : Armed(j)'
<1>1. rec'[k] = row /\ \A j \in Job : j # k => rec'[j] = rec[j]
    BY DEF Inv, TypeOK
<1>2. Armed(k)'
    BY <1>1 DEF Armed, StoppedLine
<1>3. ASSUME NEW j \in Job, j # k PROVE Armed(j)'
    BY <1>1, <1>3, ArmedKept
<1> QED BY <1>2, <1>3

LEMMA ArmedIdle ==
    ASSUME Inv, \A j \in Job : Armed(j), UNCHANGED <<rec, stopped, line>>, armed' \subseteq armed
    PROVE  \A j \in Job : Armed(j)'
    BY ArmedKept

\* A turn that asks for a wake-up lives, and no stop has reached it.
LEMMA CallingFacts ==
    ASSUME Inv, NEW t \in Turn, Calling(t)
    PROVE  Live(t) /\ ~StoppedLine(t)
    BY DEF Inv, LiveFree, Calling, StoppedLine

LEMMA TurnArmed ==
    ASSUME Inv, \A j \in Job : Armed(j), NEW t \in Turn, TurnStep(t)
    PROVE  \A j \in Job : Armed(j)'
<1>1. CASE UserStarts(t) \/ TurnEnds(t)
    BY <1>1, ArmedIdle DEF UserStarts, TurnEnds, history
<1>2. CASE UserStops(t)
    <2> DEFINE family == {u \in Turn : t \in {u} \union line[u]}
    <2>1. /\ stopped' = stopped \union family /\ armed' = {k \in armed : rec[k].run \notin family}
          /\ UNCHANGED <<rec, line>>
        BY <1>2 DEF UserStops
    <2>2. SUFFICES ASSUME NEW j \in Job, j \in armed' PROVE Armed(j)'
        BY DEF Armed
    <2>3. rec[j].wake /\ rec[j].note = None /\ ~rec[j].paused /\ ~StoppedLine(rec[j].run) /\ rec[j].run \notin family
        BY <2>1, <2>2 DEF Armed
    <2>4. ASSUME rec[j].run # None PROVE ({rec[j].run} \union line[rec[j].run]) \intersect family = {}
        <3>1. rec[j].run \in Turn
            BY <2>4 DEF Inv, TypeOK, Row
        <3>2. \A u \in line[rec[j].run] : line[u] \subseteq line[rec[j].run]
            BY <3>1 DEF Inv, LineSane
        <3> QED BY <2>3, <3>1, <3>2
    <2> HIDE DEF family
    <2> QED BY <2>1, <2>3, <2>4 DEF Armed, StoppedLine
<1>3. ASSUME NEW row, row = Reserved(t), Calling(t)
      PROVE  row.wake /\ row.note = None /\ ~row.paused /\ ~StoppedLine(row.run)
    BY <1>3, CallingFacts DEF Reserved, NoRow
<1>4. ASSUME NEW k \in Job, SubmitReserves(t, k) PROVE \A j \in Job : Armed(j)'
    BY <1>3, <1>4, ArmedUpdate DEF SubmitReserves, Update, Arm, turns
<1>5. ASSUME NEW k \in Job, NEW e \in External, AttachBegins(t, k, e) PROVE \A j \in Job : Armed(j)'
    <2>1. CASE Update(k, Reserved(t)) /\ Arm(k)
        BY <1>3, <1>5, <2>1, ArmedUpdate DEF AttachBegins, Update, Arm, turns
    <2>2. CASE UNCHANGED <<rec, armed>>
        BY <1>5, <2>2, ArmedIdle DEF AttachBegins, turns
    <2> QED BY <1>5, <2>1, <2>2 DEF AttachBegins
<1>6. ASSUME NEW k \in Job, Wait(t, k) PROVE \A j \in Job : Armed(j)'
    <2>1. /\ Live(t) /\ ~StoppedLine(t) /\ rec[k] \in Row /\ rec[k].status # "absent" /\ ~rec[k].paused
          /\ Update(k, Awaited(rec[k], t)) /\ Arm(k) /\ UNCHANGED turns
        BY <1>6, CallingFacts DEF Wait, Inv, TypeOK
    <2>2. rec[k].note # None => rec[k].run # t
        BY <2>1 DEF Inv, Waiting
    <2>3. /\ Awaited(rec[k], t).wake /\ Awaited(rec[k], t).note = None
          /\ ~Awaited(rec[k], t).paused /\ Awaited(rec[k], t).run = t
        BY <2>1, <2>2 DEF Awaited, Row
    <2> QED BY <2>1, <2>3, ArmedUpdate DEF Update, Arm, turns
<1>7. ASSUME NEW k \in Job, ResumeByTurn(t, k) PROVE \A j \in Job : Armed(j)'
    <2> DEFINE row == [rec[k] EXCEPT !.paused = FALSE, !.run = t, !.wake = TRUE, !.note = None,
                                     !.monitor = FALSE]
    <2>1. row.wake /\ row.note = None /\ ~row.paused /\ row.run = t
        BY DEF Inv, TypeOK, Row
    <2>2. ~StoppedLine(t) /\ Update(k, row) /\ Arm(k) /\ UNCHANGED turns
        BY <1>7, CallingFacts DEF ResumeByTurn
    <2> QED BY <2>1, <2>2, ArmedUpdate DEF Update, Arm, turns
<1> QED BY <1>1, <1>2, <1>4, <1>5, <1>6, <1>7 DEF TurnStep

LEMMA StatusArmed ==
    ASSUME Inv, \A j \in Job : Armed(j), NEW k \in Job, NEW row,
           row.wake = rec[k].wake, row.note = rec[k].note, row.paused = rec[k].paused,
           row.run = rec[k].run, rec' = [rec EXCEPT ![k] = row],
           UNCHANGED <<stopped, line, armed>>
    PROVE  \A j \in Job : Armed(j)'
    BY ArmedUpdate DEF Armed

LEMMA JobArmed ==
    ASSUME Inv, \A j \in Job : Armed(j), NEW k \in Job, JobStep(k)
    PROVE  \A j \in Job : Armed(j)'
<1> USE DEF Update, UpdateIfFresh, Disarm, turns, history
<1>1. rec[k] \in Row /\ rec \in [Job -> Row]
    BY DEF Inv, TypeOK
<1>2. CASE UNCHANGED <<rec, stopped, line, armed>>
    BY <1>2, ArmedIdle
<1>3. CASE /\ UNCHANGED <<stopped, line, armed>>
           /\ \E s, x : rec' = [rec EXCEPT ![k] = [rec[k] EXCEPT !.ext = x, !.status = s]]
    <2>1. PICK s, x : rec' = [rec EXCEPT ![k] = [rec[k] EXCEPT !.ext = x, !.status = s]]
        BY <1>3
    <2> QED BY <1>1, <1>3, <2>1, StatusArmed DEF Row
<1>4. CASE /\ UNCHANGED <<stopped, line, armed>>
           /\ \E s : rec' = [rec EXCEPT ![k] = [rec[k] EXCEPT !.status = s]]
    <2>1. PICK s : rec' = [rec EXCEPT ![k] = [rec[k] EXCEPT !.status = s]]
        BY <1>4
    <2> QED BY <1>1, <1>4, <2>1, StatusArmed DEF Row
<1>5. CASE SubmitRefused(k) \/ SubmitReturns(k) \/ SubmitUncertain(k)
    BY <1>2, <1>3, <1>4, <1>5 DEF SubmitRefused, SubmitReturns, SubmitUncertain
<1>6. CASE Relinquish(k)
    BY <1>6, ArmedUpdate DEF Relinquish
<1>7. CASE ResumeByBoard(k)
    <2>1. CASE StoppedLine(rec[k].run)
        <3>1. k \notin armed
            BY <2>1 DEF Armed
        <3> QED BY <1>7, <2>1, <3>1, ArmedUpdate DEF ResumeByBoard
    <2>2. CASE ~StoppedLine(rec[k].run)
        <3> DEFINE row == [rec[k] EXCEPT !.paused = FALSE]
        <3>1. row.wake = rec[k].wake /\ row.note = rec[k].note /\ ~row.paused /\ row.run = rec[k].run
            BY <1>1 DEF Row
        <3>2. k \in armed => rec[k].wake /\ rec[k].note = None
            BY DEF Armed
        <3>3. rec' = [rec EXCEPT ![k] = row] /\ UNCHANGED <<stopped, line, armed>>
            BY <1>7, <2>2 DEF ResumeByBoard
        <3> HIDE DEF row
        <3> QED BY <2>2, <3>1, <3>2, <3>3, ArmedUpdate
    <2> QED BY <2>1, <2>2
<1>8. CASE CancelAsks(k)
    <2>1. rec' = [rec EXCEPT ![k] = [rec[k] EXCEPT !.paused = TRUE, !.wake = FALSE]]
        BY <1>1, <1>8 DEF CancelAsks
    <2> QED BY <1>8, <2>1, ArmedUpdate DEF CancelAsks
<1>9. ASSUME NEW o \in Observer, ObservationRecorded(k, o) PROVE \A j \in Job : Armed(j)'
    BY <1>2, <1>4, <1>9 DEF ObservationRecorded
<1>10. ASSUME NEW o \in Observer, ObservationFails(k, o) PROVE \A j \in Job : Armed(j)'
    <2>1. CASE rec' = [rec EXCEPT ![k] = rec[k]]
        BY <1>10, <2>1, StatusArmed DEF ObservationFails
    <2> QED BY <1>2, <1>4, <1>10, <2>1 DEF ObservationFails
<1> QED BY <1>2, <1>5, <1>6, <1>7, <1>8, <1>9, <1>10 DEF JobStep, SubmitCalls, SubmitLands, RefreshBegins

LEMMA AttachArmed ==
    ASSUME Inv, \A j \in Job : Armed(j), NEW a \in attaching, AttachRecords(a) \/ AttachFails(a)
    PROVE  \A j \in Job : Armed(j)'
<1> USE DEF Update, turns, history
<1>1. a[1] \in Job /\ rec[a[1]] \in Row
    BY DEF Inv, TypeOK
<1>2. CASE AttachRecords(a)
    <2>1. PICK s : rec' = [rec EXCEPT ![a[1]] = [rec[a[1]] EXCEPT !.ext = a[2], !.status = s]]
        BY <1>2 DEF AttachRecords
    <2> QED BY <1>1, <1>2, <2>1, StatusArmed DEF AttachRecords, Row
<1>3. CASE AttachFails(a)
    <2>1. CASE rec' = [rec EXCEPT ![a[1]] = [rec[a[1]] EXCEPT !.status = "unknown"]]
        BY <1>1, <1>3, <2>1, StatusArmed DEF AttachFails, Row
    <2>2. CASE UNCHANGED rec
        BY <1>3, <2>2, ArmedIdle DEF AttachFails
    <2> QED BY <1>3, <2>1, <2>2 DEF AttachFails
<1> QED BY <1>2, <1>3

\* A process that is back owes what it owed, except for what is now on hold.
LEMMA RestartArmed ==
    ASSUME Inv, \A j \in Job : Armed(j), NEW rows \in [Job -> Row],
           NEW t \in [Turn -> {"absent", "live", "succeeded", "broken"}], NEW up,
           RestartWith(rows, t, up), \A v \in Turn : turn[v] # "absent" => up[v] = line[v],
           \A j \in Job :
               \/ rows[j] = rec[j]
               \/ /\ rows[j].wake = rec[j].wake /\ rows[j].paused = rec[j].paused
                  /\ rows[j].run = rec[j].run
                  /\ rows[j].note # None /\ t[rows[j].note] \in {"absent", "live"}
    PROVE  \A j \in Job : Armed(j)'
<1> DEFINE ended == [u \in Turn |-> IF t[u] = "live" THEN "broken" ELSE t[u]]
<1>1. /\ rec' = [j \in Job |-> Recovered(rows[j], ended)] /\ armed' = {j \in armed : ~rec'[j].paused}
      /\ line' = up /\ UNCHANGED stopped
      /\ ended \in [Turn -> {"absent", "live", "succeeded", "broken"}]
    BY DEF RestartWith
<1>2. \A u \in Turn : /\ t[u] = "absent" => ended[u] = "absent"
                      /\ t[u] = "live" => ended[u] = "broken"
    OBVIOUS
<1> HIDE DEF ended
<1>3. SUFFICES ASSUME NEW j \in Job, j \in armed' PROVE Armed(j)'
    BY DEF Armed
<1>4. j \in armed /\ ~rec'[j].paused /\ rec[j].note = None
    BY <1>1, <1>3 DEF Armed
<1> DEFINE row == rows[j]
<1>5. /\ row \in Row /\ rec'[j] = Recovered(row, ended) /\ row.note \in Turn \union {None}
      /\ row.wake = rec[j].wake /\ row.paused = rec[j].paused /\ row.run = rec[j].run
      /\ row.note = None \/ (row.note # None /\ t[row.note] \in {"absent", "live"})
    BY <1>1, <1>4 DEF Row
<1>6. /\ rec'[j].run = row.run /\ rec'[j].wake = row.wake
      /\ rec'[j].note = IF row.note # None /\ ended[row.note] = "absent" THEN None ELSE row.note
      /\ rec'[j].paused = (row.paused \/ (row.note # None /\ ended[row.note] = "broken"))
    BY <1>1, <1>5, RecoveredType
<1>7. rec'[j].note = None
    <2>1. CASE row.note = None
        BY <1>6, <2>1
    <2>2. CASE row.note # None
        <3>1. row.note \in Turn /\ ended[row.note] # "broken"
            BY <1>4, <1>5, <1>6, <2>2
        <3> QED BY <1>2, <1>5, <1>6, <2>2, <3>1
    <2> QED BY <2>1, <2>2
<1>8. rec'[j].paused = rec[j].paused
    BY <1>4, <1>5, <1>6, <1>3 DEF Armed, Inv, TypeOK, Row
<1> QED BY <1>1, <1>4, <1>5, <1>6, <1>7, <1>8, ArmedKept

\* With several jobs a tick may act on a row it read before a stop and a new wait.
Steady == OneJob \/ "stop" \notin Env

LEMMA LoopArmed ==
    ASSUME Steady, Inv, TickCurrent, \A j \in Job : Armed(j), NEW k \in Job, LoopStep(k)
    PROVE  \A j \in Job : Armed(j)'
<1> USE DEF Update, Disarm, turns, history, loop
<1>1. rec[k] \in Row /\ rec \in [Job -> Row] /\ NextTurn \subseteq Turn
      /\ turn \in [Turn -> {"absent", "live", "succeeded", "broken"}] /\ line \in [Turn -> SUBSET Turn]
    BY DEF Inv, TypeOK, Turn
<1>2. CASE UNCHANGED <<rec, stopped, line>> /\ armed' \subseteq armed
    BY <1>2, ArmedIdle
<1>3. CASE \E row : rec' = [rec EXCEPT ![k] = row] /\ UNCHANGED <<stopped, line>> /\ armed' = armed \ {k}
    BY <1>3, ArmedUpdate
<1>4. CASE TickPauses(k)
    <2>1. CASE access /\ StoppedLine(snap[k].run) /\ UNCHANGED <<armed, woken>>
        <3>1. StoppedLine(rec[k].run)
            <4>1. stopped # {}
                BY <2>1 DEF StoppedLine
            <4>2. OneJob /\ k \in todo
                BY <1>4, <4>1 DEF Steady, Inv, StopSane, TickPauses, Ticks
            <4> QED BY <2>1, <4>2 DEF TickCurrent
        <3>2. k \notin armed
            BY <3>1 DEF Armed
        <3>3. PICK row : rec' = [rec EXCEPT ![k] = row]
            BY <1>4 DEF TickPauses
        <3> QED BY <1>4, <2>1, <3>2, <3>3, ArmedUpdate DEF TickPauses
    <2> QED BY <1>3, <1>4, <2>1 DEF TickPauses
<1>5. CASE DeliverSkips(k)
    BY <1>2, <1>3, <1>5 DEF DeliverSkips
<1>6. ASSUME NEW u \in NextTurn, DeliverAdmits(k, u) \/ DeliverFails(k, u) PROVE \A j \in Job : Armed(j)'
    <2>1. CASE UNCHANGED <<rec, turn, line, armed, woken>>
        BY <1>2, <1>6, <2>1 DEF DeliverAdmits, DeliverFails
    <2>2. CASE \E row : /\ rec' = [rec EXCEPT ![k] = row] /\ armed' = armed \ {k}
                        /\ line' = [line EXCEPT ![u] = Below(rec[k].run)] /\ UNCHANGED stopped
        <3>1. turn[u] = "absent" /\ \A v \in Turn : v # u => line'[v] = line[v]
            BY <1>1, <1>6, <2>2 DEF DeliverAdmits, DeliverFails
        <3>2. \A j \in Job : j # k => rec'[j] = rec[j] /\ (j \in armed' => j \in armed)
            BY <1>1, <2>2
        <3>3. \A j \in Job : j # k => Armed(j)'
            BY <2>2, <3>1, <3>2, ArmedKept
        <3>4. Armed(k)'
            BY <2>2 DEF Armed
        <3> QED BY <3>3, <3>4
    <2> QED BY <1>6, <2>1, <2>2 DEF DeliverAdmits, DeliverFails
<1>7. ASSUME NEW u \in NextTurn, DeliverCut(k, u) PROVE \A j \in Job : Armed(j)'
    <2> DEFINE claimed == [rec EXCEPT ![k] = Claimed(rec[k], u)]
    <2> DEFINE t == [turn EXCEPT ![u] = "live"]
    <2> DEFINE above == [line EXCEPT ![u] = Below(rec[k].run)]
    <2>1. /\ turn[u] = "absent" /\ u \in Turn /\ u # None
          /\ t \in [Turn -> {"absent", "live", "succeeded", "broken"}] /\ t[u] = "live"
          /\ \A v \in Turn : turn[v] # "absent" => above[v] = line[v]
        BY <1>1, <1>7, JobConstants DEF DeliverCut, Turn
    <2>2. /\ claimed \in [Job -> Row] /\ \A j \in Job : j # k => claimed[j] = rec[j]
          /\ claimed[k].wake = rec[k].wake /\ claimed[k].paused = rec[k].paused
          /\ claimed[k].run = rec[k].run /\ claimed[k].note = u
        <3>1. Claimed(rec[k], u) \in Row
            BY <1>1, <2>1, ClaimedType
        <3> QED BY <1>1, <2>1, <3>1, ClaimedType
    <2>3. RestartWith(claimed, turn, line) \/ RestartWith(claimed, t, above)
        BY <1>7 DEF DeliverCut
    <2> HIDE DEF claimed, t, above
    <2>4. CASE RestartWith(claimed, turn, line)
        <3>1. \A j \in Job :
                  \/ claimed[j] = rec[j]
                  \/ /\ claimed[j].wake = rec[j].wake /\ claimed[j].paused = rec[j].paused
                     /\ claimed[j].run = rec[j].run
                     /\ claimed[j].note # None /\ turn[claimed[j].note] \in {"absent", "live"}
            BY <2>1, <2>2
        <3> QED BY <1>1, <2>2, <2>4, <3>1, RestartArmed
    <2>5. CASE RestartWith(claimed, t, above)
        <3>1. \A j \in Job :
                  \/ claimed[j] = rec[j]
                  \/ /\ claimed[j].wake = rec[j].wake /\ claimed[j].paused = rec[j].paused
                     /\ claimed[j].run = rec[j].run
                     /\ claimed[j].note # None /\ t[claimed[j].note] \in {"absent", "live"}
            BY <2>1, <2>2
        <3> QED BY <2>1, <2>2, <2>5, <3>1, RestartArmed
    <2> QED BY <2>3, <2>4, <2>5
<1>8. CASE TickSkips(k) \/ TickProbes(k) \/ TickDelivers(k)
    BY <1>2, <1>8 DEF TickSkips, TickProbes, TickDelivers
<1> QED BY <1>4, <1>5, <1>6, <1>7, <1>8 DEF LoopStep

\* Nothing but the loop comes between a tick's read of the only row and its step.
LEMMA TickCurrentStep ==
    ASSUME Inv, TickCurrent, [Next]_vars
    PROVE  TickCurrent'
<1> SUFFICES ASSUME OneJob PROVE (\A k \in todo : delivering = None /\ snap[k] = rec[k])'
    BY DEF TickCurrent, OneJob
<1>1. todo \subseteq Job /\ None \notin Job /\ \A k \in todo : delivering = None /\ snap[k] = rec[k]
    BY JobConstants DEF TickCurrent, Inv, TypeOK
<1>2. CASE UNCHANGED <<loop, rec>>
    BY <1>1, <1>2 DEF loop
<1>3. CASE LoopYields /\ UNCHANGED loop
    BY <1>1, <1>3 DEF LoopYields, loop
<1>4. CASE todo' = {}
    BY <1>4
<1>5. CASE TickStarts
    BY <1>5 DEF TickStarts
<1>6. ASSUME NEW k \in Job, LoopStep(k) PROVE todo' = {}
    <2>1. todo \subseteq {k}
        BY <1>1 DEF OneJob
    <2>2. CASE Ticks(k)
        BY <2>1, <2>2 DEF Ticks
    <2>3. CASE delivering = k
        BY <1>1, <1>6, <2>3
           DEF LoopStep, DeliverSkips, DeliverAdmits, DeliverFails, DeliverCut, RestartWith, TickFails,
               TickSkips, TickPauses, TickProbes, TickDelivers, Ticks
    <2> QED BY <1>6, <2>2, <2>3
            DEF LoopStep, TickSkips, TickPauses, TickProbes, TickDelivers,
                DeliverSkips, DeliverAdmits, DeliverFails, DeliverCut
<1>7. ASSUME NEW t \in Turn, TurnStep(t) PROVE LoopYields /\ UNCHANGED loop
    BY <1>7 DEF TurnStep, UserStarts, TurnEnds, UserStops, SubmitReserves, Wait, ResumeByTurn, AttachBegins
<1>8. ASSUME NEW k \in Job, JobStep(k) PROVE LoopYields /\ UNCHANGED loop
    BY <1>8 DEF JobStep, SubmitRefused, SubmitCalls, SubmitReturns, SubmitUncertain, SubmitLands,
       Relinquish, ResumeByBoard, CancelAsks, RefreshBegins, ObservationRecorded, ObservationFails
<1>9. CASE Restart
    BY <1>4, <1>9 DEF Restart, RestartWith
<1> QED BY <1>2, <1>3, <1>4, <1>5, <1>6, <1>7, <1>8, <1>9
        DEF Next, AttachRecords, AttachFails, RemoteEnds, AccessChanges, vars

LEMMA WakeStep == Steady => (Inv /\ WakeInv /\ [Next]_vars => WakeInv')
<1> SUFFICES ASSUME Steady, Inv, WakeInv, [Next]_vars PROVE WakeInv'
    OBVIOUS
<1>1. TickCurrent /\ \A j \in Job : Armed(j)
    BY WakeParts
<1>2. Inv' /\ TickCurrent'
    BY <1>1, NextStep, TickCurrentStep
<1>3. ASSUME Restart PROVE \A j \in Job : Armed(j)'
    <2>1. /\ rec \in [Job -> Row] /\ turn \in [Turn -> {"absent", "live", "succeeded", "broken"}]
          /\ RestartWith(rec, turn, line)
        BY <1>3 DEF Restart, Inv, TypeOK
    <2> QED BY <1>1, <2>1, RestartArmed
<1>4. ASSUME UNCHANGED <<rec, stopped, line, armed>> PROVE \A j \in Job : Armed(j)'
    BY <1>1, <1>4, ArmedIdle
<1>5. \A j \in Job : Armed(j)'
    BY <1>1, <1>3, <1>4, TurnArmed, JobArmed, AttachArmed, LoopArmed
       DEF Next, RemoteEnds, AccessChanges, TickStarts, vars, turns, history
<1> QED BY <1>2, <1>5, WakeParts DEF Inv, TypeOK, WakeInv, Owed, WakeKept, Armed

\* A wake-up that is owed stays armed, on one job with every kind of interference, and
\* on any number of jobs when no user stops a turn.
THEOREM WakeUpKept == (OneJob \/ "stop" \notin Env) => (Spec => []WakeKept)
<1> SUFFICES ASSUME Steady PROVE Spec => []WakeKept
    BY DEF Steady
<1>1. Init => WakeInv
    BY InitStep
<1>2. Inv /\ WakeInv /\ [Next]_vars => WakeInv'
    BY WakeStep
<1>3. WakeInv => WakeKept
    BY DEF WakeInv
<1> QED BY <1>1, <1>2, <1>3, Invariance, PTL DEF Spec
=============================================================================
