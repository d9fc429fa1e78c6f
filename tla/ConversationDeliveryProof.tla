---------------------- MODULE ConversationDeliveryProof ----------------------
(***************************************************************************)
(* The deliveries proved correct for every number of messages, sessions,   *)
(* Runs and crashes.  Inv is inductive whatever else happens to the Agent  *)
(* and gives RowsSound: claims of a Run that never began belong to the one *)
(* drain that awaits facts, all others to a model that was given them.  The*)
(* bound on the drains comes from counting what may still ask for one      *)
(* (Counted).                                                              *)
(*                                                                         *)
(* The other properties hold of a narrower environment, named in their     *)
(* theorems, and each has an invariant of its own relative to Inv: Owned,  *)
(* Ordered, Singular, Answered.  Their proofs go by StepCases, which says  *)
(* of every step, field by field, which of a few shapes it has.            *)
(***************************************************************************)
EXTENDS ConversationDelivery, FiniteSetTheorems, SequenceTheorems, TLAPS

-----------------------------------------------------------------------------
(* The invariant.                                                          *)

\* A Run that has not begun has left no trace.
Unbegun ==
    \A r \in Run : run[r].status = "absent" =>
        /\ ~run[r].executing /\ run[r].cleanup = "none"
        /\ seen[r] = {} /\ taken[r] = {} /\ peeked[r] = {}
        /\ persist[r] = "none" /\ outcome[r] = 0

\* A process that is not up has no tasks; once startup has begun, no Run goes on.
Asleep ==
    ~Up => /\ drains = 0 /\ recovering = NoBurst /\ waiter = NoWaiter
           /\ \A r \in Run : peeked[r] = {} /\ persist[r] = "none"
           /\ host.up # "down" => \A r \in Run : ~Live(r) /\ ~run[r].executing

\* The drain that awaits recovery facts holds exactly the claims of its Run.
Recovering ==
    recovering # NoBurst =>
        /\ recovering.run \in ConvRun /\ run[recovering.run].status = "absent"
        /\ recovering.burst = ClaimedBy(recovering.run)
        /\ recovering.burst \intersect Continue # {}
        /\ \E z \in Session : InSession(recovering.burst) = {z}

\* A claim is one of a model that was given the message, or of a Run yet to be created.
Claims ==
    \A m \in Message : delivery[m].status = "claimed" =>
        LET r == delivery[m].run IN
        IF run[r].status = "absent" THEN Up => recovering.run = r ELSE m \in seen[r]

\* The task that persists an outcome belongs to a Run that no restart has interrupted,
\* and it has written nothing before it says so.
Persisting ==
    \A r \in Run :
        /\ persist[r] # "none" => run[r].status \notin {"absent", "interrupted"}
        /\ persist[r] = "waiting" => outcome[r] = 0
        /\ persist[r] = "posted" => Ended(r)

Waited == \A r \in waiter.runs : run[r].status # "absent"

\* Each message brings one drain, each Run brings one, and so does a start.
Unsent == {m \in Message : delivery[m].status = "unsent"}
Open == {r \in Run : run[r].status = "absent" \/ persist[r] # "none"}
Counted ==
    /\ Len(posted) + Cardinality(Unsent) = Cardinality(Message)
    /\ drains + (IF waiter = NoWaiter THEN 0 ELSE 1) + Cardinality(Unsent) + Cardinality(Open)
          <= Cardinality(Message) + Cardinality(Run) + 1

Written == \A i \in DOMAIN posted : delivery[posted[i]].status # "unsent"

Inv ==
    /\ TypeOK /\ Written /\ Unbegun /\ Asleep /\ Recovering /\ Claims /\ Persisting /\ Waited /\ Counted
    /\ ConsumedWasGiven /\ OutcomeOnce

\* Turns that another Agent requests apart, a live Run of a session has its task.
Owned ==
    /\ ClaimOwned
    /\ \A r \in Run :
          /\ Up /\ Live(r) /\ run[r].session # None => persist[r] = "waiting"
          /\ peeked[r] # {} => run[r].session # None

OwnInv == "handoff" \notin Env => Owned

\* Nothing starts a Run in the session of a burst while its drain awaits recovery facts.
Undisturbed == Continue = {} \/ Env \intersect {"handoff", "continuation"} = {}

RecoversAlone ==
    recovering # NoBurst => \A r \in Active : run[r].session \notin InSession(recovering.burst)

\* Whatever is about to be given comes with all that was posted before it.
Given == UNION {seen[r] : r \in Run}
Prefix(p, S, G) ==
    \A i, j \in DOMAIN p : i < j /\ SessionOf[p[i]] = SessionOf[p[j]] /\ p[j] \in S => p[i] \in S \union G

Ordered ==
    /\ RecoversAlone
    /\ \A r \in Run : \A m \in peeked[r] : delivery[m].status # "unsent"
    /\ Prefix(posted, recovering.burst, Given)
    /\ \A r \in Run : Prefix(posted, peeked[r], Given)

OrderInv == Undisturbed => Ordered

\* One Run of a session at a time, which alone reads the session's queue.
OneAtATime ==
    \A q, r \in Active : q # r => run[q].session = None \/ run[q].session # run[r].session
ReadQueued ==
    \A r \in Run : \A m \in peeked[r] :
        run[r].executing /\ delivery[m].status = "queued" /\ SessionOf[m] = run[r].session
TakenIsClaimed ==
    \A r \in Run : \A m \in taken[r] :
        run[r].status # "interrupted" => delivery[m].status \in {"claimed", "done"} /\ delivery[m].run = r

Singular == OneAtATime /\ ReadQueued /\ TakenIsClaimed

\* As long as the Agent stays connected, what is consumed has been answered for.
Answered ==
    /\ host.connected
    /\ \A r \in Run :
          /\ run[r].status # "absent" => run[r].kind \in Kinds
          /\ run[r].kind = "direct" => run[r].session = None
          /\ seen[r] # {} \/ peeked[r] # {} => run[r].kind # "direct"
          /\ persist[r] = "posted" => outcome[r] > 0
          /\ (/\ host.up = "reported" /\ run[r].status # "absent"
             /\ run[r].kind \in {"conversation", "continuation"}) => outcome[r] > 0
    /\ AnswerVisible

-----------------------------------------------------------------------------
(* The parts of a state.                                                   *)

RowType == [status : {"unsent", "queued"}, run : {None}] \cup [status : {"claimed", "done"}, run : Run]
RunType == [status : Terminal \cup {"absent", "running"}, executing : BOOLEAN,
            cleanup : {"none", "pending", "failed", "complete"},
            kind : Kinds \cup {None}, session : Session \cup {None}]
WaiterType == [kind : {"none", "capacity", "cleanup"}, runs : SUBSET Run, joining : Run \cup {None}]
HostType == [up : {"up", "down", "interrupted", "reported"}, crashes : 0..MaxCrashes,
             paused : BOOLEAN, connected : BOOLEAN]

\* A sequence of a bounded length is one of finitely many functions.
LEMMA PostedType ==
    \A q : q \in UNION {[1..n -> Message] : n \in 0..Cardinality(Message)}
           <=> q \in Seq(Message) /\ Len(q) <= Cardinality(Message)
<1> DEFINE Bounded == UNION {[1..n -> Message] : n \in 0..Cardinality(Message)}
<1>1. Cardinality(Message) \in Nat
    BY FS_CardinalityType, DeliveryConstants
<1>2. ASSUME NEW q \in Bounded PROVE q \in Seq(Message) /\ Len(q) <= Cardinality(Message)
    <2>1. PICK n \in 0..Cardinality(Message) : q \in [1..n -> Message]
        BY <1>2
    <2>2. q \in Seq(Message) /\ n \in Nat /\ DOMAIN q = 1..n
        BY <1>1, <2>1, SeqDef
    <2>3. Len(q) = n
        BY <2>2
    <2> QED BY <1>1, <2>1, <2>2, <2>3
<1>3. ASSUME NEW q \in Seq(Message), Len(q) <= Cardinality(Message) PROVE q \in Bounded
    <2>1. q \in [1..Len(q) -> Message] /\ Len(q) \in Nat
        BY ElementOfSeq
    <2> QED BY <1>1, <1>3, <2>1
<1> QED BY <1>2, <1>3

LEMMA Sizes ==
    /\ Cardinality(Message) \in Nat /\ Cardinality(Run) \in Nat
    /\ \A S \in SUBSET Message : /\ IsFiniteSet(S) /\ Cardinality(S) \in Nat
                                 /\ Cardinality(S) <= Cardinality(Message)
    /\ \A S \in SUBSET Run : IsFiniteSet(S) /\ Cardinality(S) \in Nat /\ Cardinality(S) <= Cardinality(Run)
    BY FS_CardinalityType, FS_Subset, DeliveryConstants

\* What TypeOK says, but for the two bounds that Counted gives.
Typed ==
    /\ delivery \in [Message -> RowType] /\ posted \in Seq(Message)
    /\ run \in [Run -> RunType]
    /\ seen \in [Run -> SUBSET Message] /\ taken \in [Run -> SUBSET Message] /\ peeked \in [Run -> SUBSET Message]
    /\ persist \in [Run -> {"none", "waiting", "posted"}]
    /\ outcome \in [Run -> 0..2]
    /\ drains \in Nat
    /\ recovering \in [run : Run \cup {None}, burst : SUBSET Message]
    /\ waiter \in WaiterType /\ host \in HostType

LEMMA TypedCounted == TypeOK /\ Counted <=> Typed /\ Counted
<1> DEFINE bound == Cardinality(Message) + Cardinality(Run) + 1
<1>1. bound \in Nat /\ (TypeOK <=> /\ Typed /\ Len(posted) <= Cardinality(Message) /\ drains \in 0..bound)
    <2>1. bound \in Nat
        BY Sizes
    <2>2. drains \in 0..bound <=> drains \in Nat /\ drains \in 0..bound
        BY <2>1
    <2> HIDE DEF bound
    <2>3. TypeOK <=> /\ Typed /\ Len(posted) <= Cardinality(Message) /\ drains \in 0..bound
        BY <2>2, PostedType DEF TypeOK, Typed, RowType, RunType, WaiterType, HostType, bound
    <2> QED BY <2>1, <2>3
<1>2. ASSUME Typed, Counted PROVE Len(posted) <= Cardinality(Message) /\ drains \in 0..bound
    <2>1. Unsent \in SUBSET Message /\ Open \in SUBSET Run
        BY DEF Unsent, Open
    <2>2. Cardinality(Unsent) \in Nat /\ Cardinality(Open) \in Nat /\ Len(posted) \in Nat /\ drains \in Nat
        BY <1>2, <2>1, Sizes DEF Typed
    <2> QED BY <1>2, <2>2, Sizes DEF Counted
<1> HIDE DEF bound
<1> QED BY <1>1, <1>2

LEMMA Sum ==
    ASSUME NEW d \in Nat, NEW e \in Nat, NEW b \in Nat, NEW c \in Nat, NEW u \in Nat,
           NEW o \in Nat, NEW p \in Nat, NEW t \in Nat,
           d + b + u + o <= t,
           \/ e + c <= d + b /\ p <= o
           \/ e + c = d + b + 1 /\ p <= o - 1
    PROVE  e + c + u + p <= t
    OBVIOUS

\* The counts go down, or up by what a message or a Run has given.
LEMMA CountedStep ==
    ASSUME Inv, posted' = posted, Unsent' = Unsent, Open' \subseteq Open, drains' \in Nat,
           \/ waiter = NoWaiter /\ drains' <= drains + (IF waiter' = NoWaiter THEN 0 ELSE -1)
           \/ waiter # NoWaiter /\ drains' <= drains + (IF waiter' = NoWaiter THEN 1 ELSE 0)
           \/ /\ waiter' = waiter /\ drains' = drains + 1
              /\ \E r \in Open : Open' \subseteq Open \ {r}
    PROVE  Counted'
<1>1. Unsent \in SUBSET Message /\ Open \in SUBSET Run /\ Open' \in SUBSET Run
    BY DEF Unsent, Open
<1>2. /\ Cardinality(Unsent) \in Nat /\ Cardinality(Open) \in Nat /\ Cardinality(Open') \in Nat
      /\ IsFiniteSet(Open) /\ IsFiniteSet(Open')
      /\ Cardinality(Message) \in Nat /\ Cardinality(Run) \in Nat /\ drains \in Nat
    BY <1>1, Sizes, TypedCounted DEF Inv, Typed
<1>3. Cardinality(Open') <= Cardinality(Open)
    BY <1>2, FS_Subset
<1>4. ASSUME NEW r \in Open, Open' \subseteq Open \ {r} PROVE Cardinality(Open') <= Cardinality(Open) - 1
    <2>1. Cardinality(Open \ {r}) = Cardinality(Open) - 1 /\ IsFiniteSet(Open \ {r})
        BY <1>2, FS_RemoveElement
    <2> QED BY <1>4, <2>1, FS_Subset
<1> DEFINE bit == IF waiter = NoWaiter THEN 0 ELSE 1
<1> DEFINE total == Cardinality(Message) + Cardinality(Run) + 1
<1> DEFINE size == Cardinality(Open)
<1> DEFINE rest == Cardinality(Unsent)
<1>5. /\ Len(posted) + rest = Cardinality(Message)
      /\ drains + bit + rest + size <= total
    BY DEF Inv, Counted
<1>6. bit \in Nat /\ bit' \in Nat /\ total \in Nat /\ size \in Nat /\ size' \in Nat /\ rest \in Nat /\ rest' = rest
    BY <1>2
<1>7. PICK d \in Nat, e \in Nat, b \in Nat, c \in Nat, o \in Nat, p \in Nat, u \in Nat, t \in Nat :
          /\ d = drains /\ e = drains' /\ b = bit /\ c = bit' /\ o = size /\ p = size' /\ u = rest /\ t = total
    BY <1>2, <1>6
<1>8. drains' + bit' + rest' + size' <= total
    <2>1. d + b + u + o <= t
        BY <1>5, <1>7
    <2>2. \/ e + c <= d + b /\ p <= o
          \/ e + c = d + b + 1 /\ p <= o - 1
        <3>1. CASE /\ waiter' = waiter /\ drains' = drains + 1
                   /\ \E r \in Open : Open' \subseteq Open \ {r}
            <4>1. p <= o - 1 /\ c = b /\ e = d + 1
                BY <1>4, <1>7, <3>1
            <4> QED BY <4>1
        <3>2. CASE waiter = NoWaiter /\ drains' <= drains + (IF waiter' = NoWaiter THEN 0 ELSE -1)
            <4>1. p <= o /\ b = 0 /\ e <= d + (IF c = 0 THEN 0 ELSE -1) /\ c \in {0, 1}
                BY <1>3, <1>7, <3>2
            <4> QED BY <4>1
        <3>3. CASE waiter # NoWaiter /\ drains' <= drains + (IF waiter' = NoWaiter THEN 1 ELSE 0)
            <4>1. p <= o /\ b = 1 /\ e <= d + (IF c = 0 THEN 1 ELSE 0) /\ c \in {0, 1}
                BY <1>3, <1>7, <3>3
            <4> QED BY <4>1
        <3> QED BY <3>1, <3>2, <3>3
    <2>3. e + c + u + p <= t
        BY <2>1, <2>2, Sum
    <2> QED BY <1>6, <1>7, <2>3
<1>9. Len(posted') + rest' = Cardinality(Message)
    BY <1>5, <1>6
<1> QED BY <1>8, <1>9 DEF Counted

-----------------------------------------------------------------------------
(* Steps that leave the ledger alone.                                      *)

LEMMA InvTyped == Inv => Typed
    BY TypedCounted DEF Inv

LEMMA TypedInv ==
    ASSUME Typed', Counted', Written', Unbegun', Asleep', Recovering', Claims', Persisting', Waited',
           ConsumedWasGiven', OutcomeOnce'
    PROVE  Inv'
<1>1. TypeOK'
    BY TypedCounted, PTL
<1> QED BY <1>1 DEF Inv

LEMMA Vocabulary ==
    /\ None \notin Run /\ None \notin Session /\ None \notin Kinds
    /\ NoWaiter.kind = "none" /\ NoWaiter.runs = {} /\ NoWaiter.joining = None /\ NoWaiter \in WaiterType
    /\ NoBurst.run = None /\ NoBurst.burst = {}
    /\ Terminal = {"succeeded", "failed", "cancelled", "interrupted"}
    BY DeliveryConstants DEF NoWaiter, NoBurst, WaiterType, Terminal

\* Runs go from running to an end, and stop executing.
RunsEnd ==
    \A r \in Run :
        /\ \/ run'[r].status = run[r].status
           \/ Live(r) /\ run'[r].status \in {"succeeded", "failed", "cancelled"}
        /\ run'[r].executing => run[r].executing
        /\ run[r].status = "absent" => run'[r].cleanup = run[r].cleanup

LEMMA TurnMoves ==
    ASSUME Inv, run' \in [Run -> RunType], RunsEnd,
           waiter' \in WaiterType, waiter'.runs \subseteq waiter.runs,
           waiter = NoWaiter <=> waiter' = NoWaiter,
           UNCHANGED <<ledger, input, ending, drains, recovering, host>>
    PROVE  Inv'
<1> USE DEF ledger, input, ending
<1>1. Typed /\ Typed'
    BY InvTyped DEF Typed
<1>2. \A r \in Run : run'[r].status = "absent" <=> run[r].status = "absent"
    BY DEF RunsEnd, Live
<1>3. Counted'
    <2>1. Unsent' = Unsent /\ Open' \subseteq Open
        BY <1>2 DEF Unsent, Open
    <2>2. drains' \in Nat /\ drains \in Nat
        BY <1>1 DEF Typed
    <2> QED BY <2>1, <2>2, CountedStep
<1>4. Written' /\ Unbegun' /\ Waited' /\ OutcomeOnce'
    BY <1>1, <1>2 DEF Inv, Written, Unbegun, Waited, OutcomeOnce, RunsEnd, Typed, WaiterType
<1>5. Asleep'
    BY DEF Inv, Asleep, Up, RunsEnd, Live
<1>6. Recovering' /\ Claims'
    BY <1>1, <1>2 DEF Inv, Recovering, Claims, ClaimedBy, InSession, Up, Typed, RowType, Run
<1>7. Persisting' /\ ConsumedWasGiven'
    BY <1>1 DEF Inv, Persisting, ConsumedWasGiven, RunsEnd, Live, Ended, Typed, RowType, Terminal
<1> QED BY <1>1, <1>3, <1>4, <1>5, <1>6, <1>7, TypedInv

LEMMA TurnStep ==
    ASSUME Inv, NEW r \in Run, Ends(r) \/ StreamCloses(r) \/ Stop(r) \/ CleanupEnds(r)
    PROVE  Inv'
<1> USE DEF Live
<1>1. run \in [Run -> RunType] /\ waiter \in WaiterType
    BY InvTyped DEF Typed
<1>2. ASSUME NEW new \in RunType, run' = [run EXCEPT ![r] = new],
             \/ new.status = run[r].status
             \/ Live(r) /\ new.status \in {"succeeded", "failed", "cancelled"},
             new.executing => run[r].executing,
             run[r].status = "absent" => new.cleanup = run[r].cleanup,
             UNCHANGED <<ledger, input, ending, draining, host>>
      PROVE  Inv'
    <2>1. run' \in [Run -> RunType] /\ run'[r] = new /\ \A q \in Run : q # r => run'[q] = run[q]
        BY <1>1, <1>2
    <2>2. RunsEnd
        BY <1>2, <2>1 DEF RunsEnd
    <2> QED BY <1>1, <1>2, <2>1, <2>2, TurnMoves DEF draining
<1>3. CASE Ends(r)
    <2>1. PICK end \in {"succeeded", "failed"} : run' = [run EXCEPT ![r] = [run[r] EXCEPT !.status = end]]
        BY <1>1, <1>3 DEF Ends
    <2> DEFINE new == [run[r] EXCEPT !.status = end]
    <2>2. new \in RunType /\ new.status = end /\ new.executing = run[r].executing /\ new.cleanup = run[r].cleanup
        BY <1>1 DEF RunType, Terminal
    <2> HIDE DEF new
    <2> QED BY <1>2, <1>3, <2>1, <2>2 DEF Ends, new
<1>4. CASE StreamCloses(r)
    <2> DEFINE new == [run[r] EXCEPT !.executing = FALSE]
    <2>1. /\ run' = [run EXCEPT ![r] = new] /\ new \in RunType
          /\ new.status = run[r].status /\ new.executing = FALSE /\ new.cleanup = run[r].cleanup
        BY <1>1, <1>4 DEF StreamCloses, RunType
    <2> HIDE DEF new
    <2> QED BY <1>2, <1>4, <2>1 DEF StreamCloses
<1>5. CASE Stop(r)
    <2> DEFINE new == [run[r] EXCEPT !.cleanup = "pending", !.status = IF Live(r) THEN "cancelled" ELSE @]
    <2>1. /\ run' = [run EXCEPT ![r] = new] /\ new \in RunType
          /\ new.status = IF Live(r) THEN "cancelled" ELSE run[r].status
          /\ new.executing = run[r].executing
        BY <1>1, <1>5 DEF Stop, RunType, Terminal
    <2>2. run[r].status # "absent"
        BY <1>5 DEF Stop, Inv, Unbegun
    <2> HIDE DEF new
    <2> QED BY <1>2, <1>5, <2>1, <2>2 DEF Stop
<1>6. CASE CleanupEnds(r)
    <2>1. PICK c \in {"complete", "failed"} : run' = [run EXCEPT ![r] = [run[r] EXCEPT !.cleanup = c]]
        BY <1>1, <1>6 DEF CleanupEnds
    <2> DEFINE new == [run[r] EXCEPT !.cleanup = c]
    <2>2. new \in RunType /\ new.status = run[r].status /\ new.executing = run[r].executing
        BY <1>1 DEF RunType
    <2>3. run[r].status # "absent"
        BY <1>6 DEF CleanupEnds, Inv, Unbegun
    <2> HIDE DEF new
    <2> QED BY <1>2, <1>6, <2>1, <2>2, <2>3 DEF CleanupEnds, new
<1> QED BY <1>3, <1>4, <1>5, <1>6

LEMMA JoinBeginsStep ==
    ASSUME Inv, NEW r \in Run, JoinBegins(r)
    PROVE  Inv'
<1> USE DEF JoinBegins
<1>1. run \in [Run -> RunType] /\ waiter \in WaiterType
    BY InvTyped DEF Typed
<1>2. run' \in [Run -> RunType] /\ RunsEnd
    <2> DEFINE new == [run[r] EXCEPT !.cleanup = IF run[r].cleanup = "failed" THEN "pending" ELSE run[r].cleanup]
    <2>1. /\ run' = [run EXCEPT ![r] = new] /\ new \in RunType
          /\ new.status = run[r].status /\ new.executing = run[r].executing
          /\ run[r].cleanup # "failed" => new.cleanup = run[r].cleanup
        BY <1>1 DEF RunType
    <2>2. run[r].status = "absent" => run[r].cleanup # "failed"
        BY DEF Inv, Unbegun
    <2> HIDE DEF new
    <2> QED BY <1>1, <2>1, <2>2 DEF RunsEnd
<1>3. /\ waiter' \in WaiterType /\ waiter'.runs \subseteq waiter.runs
      /\ waiter # NoWaiter /\ waiter' # NoWaiter
    <2>1. waiter'.kind = "cleanup" /\ waiter' \in WaiterType /\ waiter'.runs = waiter.runs \ {r}
        BY <1>1 DEF WaiterType
    <2> QED BY <2>1, Vocabulary
<1> QED BY <1>2, <1>3, TurnMoves

LEMMA DrainMoves ==
    ASSUME Inv, Up, drains' \in Nat, waiter' \in WaiterType, \A r \in waiter'.runs : run[r].status # "absent",
           \/ waiter = NoWaiter /\ drains' <= drains + (IF waiter' = NoWaiter THEN 0 ELSE -1)
           \/ waiter # NoWaiter /\ drains' <= drains + (IF waiter' = NoWaiter THEN 1 ELSE 0),
           UNCHANGED <<ledger, run, input, ending, recovering, host>>
    PROVE  Inv'
<1> USE DEF ledger, input, ending
<1>1. Typed /\ Typed'
    BY InvTyped DEF Typed
<1>2. Counted'
    <2>1. Unsent' = Unsent /\ Open' \subseteq Open
        BY DEF Unsent, Open
    <2> QED BY <2>1, CountedStep
<1>3. Asleep' /\ Waited'
    BY DEF Asleep, Up, Waited
<1>4. Written' /\ Unbegun' /\ OutcomeOnce' /\ Recovering' /\ Claims' /\ Persisting' /\ ConsumedWasGiven'
    BY DEF Inv, Written, Unbegun, OutcomeOnce, Recovering, Claims, Persisting, ConsumedWasGiven,
           ClaimedBy, InSession, Up, Ended
<1> QED BY <1>1, <1>2, <1>3, <1>4, TypedInv

LEMMA DrainStepsBack ==
    ASSUME Inv, DrainReturns \/ DrainWaits
    PROVE  Inv'
<1> USE DEF DrainReturns, DrainWaits, DrainTakesLock
<1>1. /\ Typed /\ drains \in Nat /\ drains > 0 /\ drains' = drains - 1
      /\ waiter \in WaiterType /\ Up
      /\ \A r \in waiter.runs : run[r].status # "absent"
    BY InvTyped DEF Typed, Inv, Waited
<1>2. \/ waiter' = waiter
      \/ waiter = NoWaiter /\ waiter' = [kind |-> "capacity", runs |-> Blocking, joining |-> None]
      \/ waiter = NoWaiter /\ waiter' = [kind |-> "cleanup", runs |-> Indebted, joining |-> None]
    OBVIOUS
<1>3. /\ waiter' \in WaiterType
      /\ \A r \in waiter'.runs : run[r].status # "absent"
    <2>1. Blocking \subseteq Run /\ Indebted \subseteq Run
        BY DEF Blocking, Active, Indebted
    <2>2. \A r \in Blocking \union Indebted : run[r].status # "absent"
        BY DEF Inv, Unbegun, Blocking, Active, Indebted, Live
    <2> QED BY <1>1, <1>2, <2>1, <2>2 DEF WaiterType
<1>4. drains' \in Nat /\ drains' <= drains /\ drains' <= drains + 1 /\ drains' <= drains + -1 /\ drains' <= drains + 0
    BY <1>1
<1> QED BY <1>1, <1>3, <1>4, DrainMoves

LEMMA WaiterStep ==
    ASSUME Inv, CapacityFrees \/ JoinSucceeds \/ JoinFails
    PROVE  Inv'
<1> USE DEF CapacityFrees, JoinSucceeds, JoinFails
<1>1. /\ Typed /\ drains \in Nat /\ waiter \in WaiterType /\ Up
      /\ \A r \in waiter.runs : run[r].status # "absent"
    BY InvTyped DEF Typed, Inv, Waited
<1>2. waiter # NoWaiter
    BY Vocabulary
<1>3. \/ waiter' = NoWaiter /\ drains' \in {drains, drains + 1}
      \/ waiter' = [waiter EXCEPT !.joining = None] /\ waiter.runs # {} /\ drains' = drains
    OBVIOUS
<1>4. /\ waiter' \in WaiterType /\ \A r \in waiter'.runs : run[r].status # "absent"
      /\ waiter' = NoWaiter \/ (waiter' # NoWaiter /\ drains' = drains)
    <2>1. CASE waiter' = NoWaiter
        BY <2>1, Vocabulary
    <2>2. CASE waiter' = [waiter EXCEPT !.joining = None] /\ waiter.runs # {} /\ drains' = drains
        <3>1. waiter' \in WaiterType /\ waiter'.runs = waiter.runs
            BY <1>1, <2>2 DEF WaiterType
        <3> QED BY <1>1, <2>2, <3>1, Vocabulary
    <2> QED BY <1>3, <2>1, <2>2
<1>5. drains' \in Nat /\ drains' <= drains + (IF waiter' = NoWaiter THEN 1 ELSE 0)
    BY <1>1, <1>3, <1>4
<1>6. UNCHANGED <<ledger, run, input, ending, recovering, host>>
    OBVIOUS
<1> QED BY <1>1, <1>2, <1>4, <1>5, <1>6, DrainMoves

-----------------------------------------------------------------------------
(* Rows of the ledger.                                                     *)

LEMMA ClaimedByFacts ==
    ASSUME Typed, NEW r \in Run, NEW m \in Message
    PROVE  m \in ClaimedBy(r) <=> delivery[m].status = "claimed" /\ delivery[m].run = r
<1>1. delivery[m] \in RowType
    BY DEF Typed
<1>2. ASSUME delivery[m].status = "claimed", delivery[m].run = r
      PROVE  delivery[m] = [status |-> "claimed", run |-> r]
    BY <1>1, <1>2 DEF RowType
<1> QED BY <1>2 DEF ClaimedBy

LEMMA ClaimFacts ==
    ASSUME Typed, NEW burst \in SUBSET Message, NEW r \in Run, Claim(burst, r)
    PROVE  /\ delivery' \in [Message -> RowType]
           /\ \A m \in Message :
                  IF m \in burst /\ delivery[m].status = "queued"
                  THEN delivery'[m].status = "claimed" /\ delivery'[m].run = r
                  ELSE delivery'[m] = delivery[m]
           /\ Unsent' = Unsent
<1> DEFINE row == [status |-> "claimed", run |-> r]
<1>1. row \in RowType /\ row.status = "claimed" /\ row.run = r
    BY DEF RowType
<1>2. delivery' = [m \in Message |-> IF m \in burst /\ delivery[m].status = "queued" THEN row ELSE delivery[m]]
    BY DEF Claim
<1> HIDE DEF row
<1>3. /\ delivery' \in [Message -> RowType]
      /\ \A m \in Message : delivery'[m] = IF m \in burst /\ delivery[m].status = "queued"
                                           THEN row ELSE delivery[m]
    BY <1>1, <1>2 DEF Typed
<1>4. Unsent' = Unsent
    BY <1>1, <1>3 DEF Unsent
<1> QED BY <1>1, <1>3, <1>4

\* What comes back of a Run's claims, and what is consumed.
LEMMA SettleFacts ==
    ASSUME Typed, NEW r \in Run, NEW x \in {"queued", "done"},
           delivery' = IF x = "done" THEN Done(r) ELSE Requeued(r)
    PROVE  /\ delivery' \in [Message -> RowType]
           /\ \A m \in Message :
                  IF delivery[m].status = "claimed" /\ delivery[m].run = r
                  THEN delivery'[m].status = x /\ (x = "done" => delivery'[m].run = r)
                  ELSE delivery'[m] = delivery[m]
           /\ Unsent' = Unsent
<1>1. ASSUME NEW m \in Message
      PROVE  /\ delivery'[m] \in RowType
             /\ IF delivery[m].status = "claimed" /\ delivery[m].run = r
                THEN delivery'[m].status = x /\ (x = "done" => delivery'[m].run = r)
                ELSE delivery'[m] = delivery[m]
    <2>1. delivery[m] \in RowType
        BY DEF Typed
    <2>2. CASE m \in ClaimedBy(r)
        <3>1. delivery[m].status = "claimed" /\ delivery[m].run = r
            BY <2>2, ClaimedByFacts
        <3>2. CASE x = "done"
            <4>1. delivery'[m] = [delivery[m] EXCEPT !.status = "done"]
                BY <2>2, <3>2 DEF Done
            <4> QED BY <2>1, <3>1, <3>2, <4>1 DEF RowType
        <3>3. CASE x = "queued"
            <4>1. delivery'[m] = Queued
                BY <2>2, <3>3 DEF Requeued
            <4> QED BY <3>1, <3>3, <4>1 DEF RowType, Queued
        <3> QED BY <3>2, <3>3
    <2>3. CASE m \notin ClaimedBy(r)
        <3>1. delivery'[m] = delivery[m]
            BY <2>3 DEF Done, Requeued
        <3> QED BY <2>1, <2>3, <3>1, ClaimedByFacts
    <2> QED BY <2>2, <2>3
<1>2. delivery' \in [Message -> RowType]
    BY <1>1 DEF Done, Requeued
<1>3. Unsent' = Unsent
    BY <1>1 DEF Unsent
<1> QED BY <1>1, <1>2, <1>3

\* The burst that comes next is all that is queued in one session.
LEMMA BurstFacts ==
    ASSUME Typed, NEW burst \in SUBSET Message, NextBurst(burst)
    PROVE  \E z \in Session :
               /\ InSession(burst) = {z}
               /\ \A m \in Message : m \in burst <=> delivery[m].status = "queued" /\ SessionOf[m] = z
               /\ burst # {}
<1>1. PICK i \in DOMAIN posted : delivery[posted[i]].status = "queued" /\ burst = QueuedIn(SessionOf[posted[i]])
    BY DEF NextBurst
<1>2. posted[i] \in Message
    <2>1. posted \in [1..Len(posted) -> Message] /\ i \in 1..Len(posted)
        BY ElementOfSeq DEF Typed
    <2> QED BY <2>1
<1>3. SessionOf[posted[i]] \in Session
    BY <1>2, DeliveryConstants
<1> WITNESS SessionOf[posted[i]] \in Session
<1>4. \A m \in Message : m \in burst <=> delivery[m].status = "queued" /\ SessionOf[m] = SessionOf[posted[i]]
    BY <1>1 DEF QueuedIn
<1>5. posted[i] \in burst
    BY <1>1, <1>2, <1>4
<1> QED BY <1>4, <1>5 DEF InSession

LEMMA AdmittedFacts ==
    ASSUME Typed, NEW r \in Run, NEW kind \in Kinds, NEW z \in Session \cup {None}, Admitted(r, kind, z)
    PROVE  /\ run' \in [Run -> RunType]
           /\ run'[r].status = "running" /\ run'[r].executing
           /\ run'[r].kind = kind /\ run'[r].session = z
           /\ \A q \in Run : q # r => run'[q] = run[q]
<1> DEFINE new == [NoRun EXCEPT !.status = "running", !.executing = TRUE, !.kind = kind, !.session = z]
<1>1. NoRun \in RunType
    BY DEF NoRun, RunType
<1>2. new \in RunType /\ new.status = "running" /\ new.executing /\ new.kind = kind /\ new.session = z
    BY <1>1 DEF RunType
<1>3. run' = [run EXCEPT ![r] = new]
    BY DEF Admitted
<1> HIDE DEF new
<1> QED BY <1>2, <1>3 DEF Typed

-----------------------------------------------------------------------------
(* Posting and draining.                                                   *)

LEMMA PostStep ==
    ASSUME Inv, NEW m \in Message, Post(m)
    PROVE  Inv'
<1> USE DEF Post
<1>1. Typed /\ delivery[m].status = "unsent" /\ Up
    BY InvTyped
<1>2. /\ Queued \in RowType /\ Queued.status = "queued"
      /\ delivery' \in [Message -> RowType] /\ delivery'[m].status = "queued"
      /\ \A n \in Message : n # m => delivery'[n] = delivery[n]
    BY <1>1 DEF Queued, RowType, Typed
<1>3. /\ posted' \in Seq(Message) /\ Len(posted') = Len(posted) + 1
      /\ Len(posted) \in Nat /\ DOMAIN posted' = 1..(Len(posted) + 1) /\ DOMAIN posted = 1..Len(posted)
      /\ \A i \in 1..Len(posted) : posted'[i] = posted[i] /\ posted[i] \in Message
      /\ posted'[Len(posted) + 1] = m
    BY <1>1 DEF Typed
<1>4. drains' = drains + 1 /\ drains \in Nat /\ UNCHANGED <<run, input, ending, recovering, waiter, host>>
    BY <1>1 DEF Typed
<1>5. Typed'
    BY <1>1, <1>2, <1>3, <1>4 DEF Typed, input, ending
<1>6. Counted'
    <2>1. Unsent' = Unsent \ {m} /\ m \in Unsent /\ Open' = Open
        BY <1>1, <1>2, <1>4 DEF Unsent, Open, ending
    <2>2. Unsent \in SUBSET Message /\ Open \in SUBSET Run
        BY DEF Unsent, Open
    <2>3. /\ IsFiniteSet(Unsent) /\ Cardinality(Unsent) \in Nat /\ Cardinality(Open) \in Nat
          /\ Cardinality(Message) \in Nat /\ Cardinality(Run) \in Nat
        BY <2>2, Sizes
    <2>4. Cardinality(Unsent') = Cardinality(Unsent) - 1
        BY <2>1, <2>3, FS_RemoveElement
    <2> DEFINE bit == IF waiter = NoWaiter THEN 0 ELSE 1
    <2> DEFINE total == Cardinality(Message) + Cardinality(Run) + 1
    <2>5. /\ Len(posted) + Cardinality(Unsent) = Cardinality(Message)
          /\ drains + bit + Cardinality(Unsent) + Cardinality(Open) <= total
        BY DEF Inv, Counted
    <2>6. bit \in Nat /\ total \in Nat /\ bit' = bit
        BY <1>4, <2>3
    <2>7. PICK d \in Nat, b \in Nat, u \in Nat, o \in Nat, t \in Nat, n \in Nat, c \in Nat :
              /\ d = drains /\ b = bit /\ u = Cardinality(Unsent) /\ o = Cardinality(Open) /\ t = total
              /\ n = Len(posted) /\ c = Cardinality(Message)
        BY <1>3, <1>4, <2>3, <2>6
    <2>8. (d + 1) + b + (u - 1) + o <= t /\ (n + 1) + (u - 1) = c
        <3> HIDE DEF bit, total
        <3>1. d + b + u + o <= t /\ n + u = c
            BY <2>5, <2>7
        <3> QED BY <3>1
    <2>9. /\ Len(posted') + Cardinality(Unsent') = Cardinality(Message)
          /\ drains' + bit' + Cardinality(Unsent') + Cardinality(Open') <= total
        <3> HIDE DEF bit, total
        <3>1. Len(posted') = n + 1 /\ Cardinality(Unsent') = u - 1 /\ drains' = d + 1 /\ bit' = b /\ Cardinality(Open') = o
            BY <1>3, <1>4, <2>1, <2>4, <2>6, <2>7
        <3> QED BY <2>7, <2>8, <3>1
    <2> QED BY <2>9 DEF Counted
<1>7. Written'
    BY <1>2, <1>3 DEF Inv, Written
<1>8. Unbegun' /\ Asleep' /\ Persisting' /\ Waited' /\ OutcomeOnce'
    BY <1>1, <1>4 DEF Inv, Unbegun, Asleep, Persisting, Waited, OutcomeOnce, Up, Live, Ended, input, ending
<1>9. \A n \in Message : delivery'[n].status \in {"claimed", "done"} => delivery'[n] = delivery[n]
    BY <1>2
<1>10. ASSUME NEW r \in Run PROVE ClaimedBy(r)' = ClaimedBy(r)
    <2>1. ASSUME NEW n \in Message PROVE n \in ClaimedBy(r)' <=> n \in ClaimedBy(r)
        <3>1. n = m => delivery[n].status # "claimed" /\ delivery'[n].status # "claimed"
            BY <1>1, <1>2
        <3> QED BY <1>2, <3>1 DEF ClaimedBy
    <2> QED BY <2>1 DEF ClaimedBy
<1>11. Recovering' /\ Claims' /\ ConsumedWasGiven'
    <2>1. Recovering'
        BY <1>4, <1>10 DEF Inv, Recovering, InSession, Run
    <2>2. Claims'
        BY <1>1, <1>4, <1>9 DEF Inv, Claims, Up, input
    <2>3. ConsumedWasGiven'
        BY <1>1, <1>4, <1>9 DEF Inv, ConsumedWasGiven, input
    <2> QED BY <2>1, <2>2, <2>3
<1> QED BY <1>5, <1>6, <1>7, <1>8, <1>11, TypedInv

\* A Run begins: with what a drain has claimed for it, or with nothing.
LEMMA RunBegins ==
    ASSUME Inv, Up, NEW r \in Run, run[r].status = "absent",
           NEW kind \in Kinds, NEW z \in Session \cup {None}, Admitted(r, kind, z),
           NEW S \in SUBSET Message, seen' = [seen EXCEPT ![r] = S], taken' = [taken EXCEPT ![r] = S],
           NEW task \in {"none", "waiting"}, persist' = [persist EXCEPT ![r] = task],
           delivery' \in [Message -> RowType], Unsent' = Unsent,
           \A m \in Message : IF delivery'[m] = delivery[m]
                              THEN delivery[m].status = "claimed" /\ delivery[m].run = r => m \in S
                              ELSE /\ delivery'[m].status = "claimed" /\ delivery'[m].run = r
                                   /\ m \in S,
           \/ recovering' = NoBurst /\ recovering.run \in {None, r}
           \/ recovering' = recovering /\ recovering.run # r /\ delivery' = delivery,
           drains' \in Nat, drains' <= drains, UNCHANGED <<posted, peeked, outcome, waiter, host>>
    PROVE  Inv'
<1>1. /\ Typed /\ run' \in [Run -> RunType] /\ run'[r].status = "running"
      /\ \A q \in Run : q # r => run'[q] = run[q]
    BY InvTyped, AdmittedFacts
<1>2. /\ seen' \in [Run -> SUBSET Message] /\ seen'[r] = S /\ \A q \in Run : q # r => seen'[q] = seen[q]
      /\ taken' \in [Run -> SUBSET Message] /\ \A q \in Run : q # r => taken'[q] = taken[q]
      /\ persist' \in [Run -> {"none", "waiting", "posted"}] /\ persist'[r] = task
      /\ \A q \in Run : q # r => persist'[q] = persist[q]
    BY <1>1 DEF Typed
<1>3. Typed'
    <2>1. recovering' \in [run : Run \cup {None}, burst : SUBSET Message]
        BY <1>1 DEF NoBurst, Typed
    <2> QED BY <1>1, <1>2, <2>1 DEF Typed
<1>4. Counted'
    <2>1. Open' \subseteq Open
        BY <1>1, <1>2 DEF Open
    <2>2. drains \in Nat
        BY <1>1 DEF Typed
    <2>3. drains' <= drains + 0 /\ drains' <= drains + 1
        BY <2>2
    <2> QED BY <2>1, <2>3, CountedStep
<1>5. Written'
    <2>1. \A i \in DOMAIN posted : posted[i] \in Message
        BY <1>1 DEF Typed
    <2> QED BY <2>1 DEF Inv, Written, Unsent
<1>6. peeked[r] = {} /\ outcome[r] = 0 /\ seen[r] = {} /\ persist[r] = "none"
    BY DEF Inv, Unbegun
<1>7. Unbegun' /\ OutcomeOnce'
    BY <1>1, <1>2 DEF Inv, Unbegun, OutcomeOnce
<1>8. Asleep' /\ Waited'
    BY <1>1 DEF Inv, Asleep, Waited, Up, Typed, WaiterType
<1>9. Persisting'
    BY <1>1, <1>2, <1>6 DEF Inv, Persisting, Ended
<1>10. ConsumedWasGiven'
    <2>1. ASSUME NEW m \in Message, delivery'[m].status = "done"
          PROVE  LET q == delivery'[m].run IN
                 /\ m \in seen'[q] /\ run'[q].status \in {"succeeded", "failed", "cancelled"}
        <3>1. delivery'[m] = delivery[m]
            BY <2>1
        <3>2. /\ m \in seen[delivery[m].run] /\ delivery[m].run \in Run
              /\ run[delivery[m].run].status \in {"succeeded", "failed", "cancelled"}
            BY <1>1, <2>1, <3>1 DEF Inv, ConsumedWasGiven, Typed, RowType
        <3> QED BY <1>1, <1>2, <3>1, <3>2
    <2> QED BY <2>1 DEF ConsumedWasGiven
<1>11. Claims'
    <2>1. ASSUME NEW m \in Message, delivery'[m].status = "claimed"
          PROVE  LET q == delivery'[m].run IN
                 IF run'[q].status = "absent" THEN recovering'.run = q ELSE m \in seen'[q]
        <3>1. CASE delivery'[m].run = r
            <4>1. m \in S
                BY <2>1, <3>1
            <4> QED BY <1>1, <1>2, <3>1, <4>1
        <3>2. CASE delivery'[m].run # r
            <4>1. delivery'[m] = delivery[m] /\ delivery[m].run \in Run
                BY <1>1, <2>1, <3>2 DEF Typed, RowType
            <4>2. IF run[delivery[m].run].status = "absent" THEN recovering.run = delivery[m].run
                                                             ELSE m \in seen[delivery[m].run]
                BY <2>1, <4>1 DEF Inv, Claims
            <4>3. run[delivery[m].run].status = "absent" => recovering' = recovering
                BY <3>2, <4>1, <4>2, Vocabulary
            <4> QED BY <1>1, <1>2, <3>2, <4>1, <4>2, <4>3
        <3> QED BY <3>1, <3>2
    <2> QED BY <2>1 DEF Claims
<1>12. Recovering'
    <2>1. CASE recovering' = NoBurst
        BY <2>1 DEF Recovering
    <2>2. CASE recovering' = recovering /\ recovering.run # r /\ delivery' = delivery
        BY <1>1, <2>2 DEF Inv, Recovering, ClaimedBy, InSession, Run
    <2> QED BY <2>1, <2>2
<1> QED BY <1>3, <1>4, <1>5, <1>7, <1>8, <1>9, <1>10, <1>11, <1>12, TypedInv

\* A burst that a drain may start on is taken whole, for a Run without a trace.
LEMMA TakenFacts ==
    ASSUME Inv, NEW r \in Run, run[r] = NoRun, DrainTakesLock,
           NEW burst \in SUBSET Message, NextBurst(burst), Claim(burst, r)
    PROVE  /\ delivery' \in [Message -> RowType] /\ Unsent' = Unsent
           /\ run[r].status = "absent"
           /\ ClaimedBy(r) = {} /\ ClaimedBy(r)' = burst
           /\ \A m \in Message : IF m \in burst
                                 THEN /\ delivery[m].status = "queued"
                                      /\ delivery'[m].status = "claimed" /\ delivery'[m].run = r
                                 ELSE delivery'[m] = delivery[m]
           /\ \A m \in Message : ~(delivery[m].status = "claimed" /\ delivery[m].run = r)
           /\ SessionOf[CHOOSE m \in burst : TRUE] \in Session
<1>1. Typed /\ run[r].status = "absent" /\ Up /\ recovering.run = None
    BY InvTyped, Vocabulary DEF NoRun, DrainTakesLock
<1>2. \A m \in Message : ~(delivery[m].status = "claimed" /\ delivery[m].run = r)
    BY <1>1, Vocabulary DEF Inv, Claims
<1>3. /\ delivery' \in [Message -> RowType] /\ Unsent' = Unsent
      /\ \A m \in Message : IF m \in burst
                            THEN /\ delivery[m].status = "queued"
                                 /\ delivery'[m].status = "claimed" /\ delivery'[m].run = r
                            ELSE delivery'[m] = delivery[m]
    BY <1>1, ClaimFacts, BurstFacts
<1>4. ClaimedBy(r) = {}
    BY <1>1, <1>2, ClaimedByFacts DEF ClaimedBy
<1>5. ClaimedBy(r)' = burst
    <2>1. ASSUME NEW m \in Message PROVE m \in ClaimedBy(r)' <=> m \in burst
        <3>1. delivery'[m] = [status |-> "claimed", run |-> r] <=> delivery'[m].status = "claimed" /\ delivery'[m].run = r
            BY <1>3 DEF RowType
        <3> QED BY <1>2, <1>3, <3>1 DEF ClaimedBy
    <2> QED BY <2>1 DEF ClaimedBy
<1>6. SessionOf[CHOOSE m \in burst : TRUE] \in Session
    BY <1>1, BurstFacts, DeliveryConstants
<1> QED BY <1>1, <1>2, <1>3, <1>4, <1>5, <1>6

LEMMA DrainStartsStep ==
    ASSUME Inv, NEW r \in ConvRun, DrainStarts(r)
    PROVE  Inv'
<1>1. PICK burst \in SUBSET Message :
          /\ NextBurst(burst) /\ Claim(burst, r)
          /\ Admitted(r, "conversation", SessionOf[CHOOSE m \in burst : TRUE])
          /\ seen' = [seen EXCEPT ![r] = burst] /\ taken' = [taken EXCEPT ![r] = burst]
    BY DEF DrainStarts, Startable
<1>2. /\ Up /\ run[r] = NoRun /\ DrainTakesLock /\ r \in Run /\ recovering = NoBurst
      /\ persist' = [persist EXCEPT ![r] = "waiting"]
      /\ UNCHANGED <<posted, peeked, outcome, recovering, waiter, host>>
    BY DEF DrainStarts, DrainTakesLock, Run
<1>3. drains' \in Nat /\ drains' <= drains
    BY InvTyped DEF DrainStarts, DrainTakesLock, Typed
<1>4. "conversation" \in Kinds
    BY DEF Kinds
<1> DEFINE z == SessionOf[CHOOSE m \in burst : TRUE]
<1>5. /\ delivery' \in [Message -> RowType] /\ Unsent' = Unsent /\ run[r].status = "absent" /\ z \in Session \cup {None}
      /\ \A m \in Message : IF delivery'[m] = delivery[m]
                            THEN delivery[m].status = "claimed" /\ delivery[m].run = r => m \in burst
                            ELSE /\ delivery'[m].status = "claimed" /\ delivery'[m].run = r
                                 /\ m \in burst
    BY <1>1, <1>2, TakenFacts
<1> HIDE DEF z
<1>6. Admitted(r, "conversation", z)
    BY <1>1 DEF z
<1>7. recovering' = NoBurst /\ recovering.run \in {None, r}
    BY <1>2, Vocabulary
<1> QED BY <1>1, <1>2, <1>3, <1>4, <1>5, <1>6, <1>7, RunBegins

LEMMA DrainRecoversStep ==
    ASSUME Inv, NEW r \in ConvRun, DrainRecovers(r)
    PROVE  Inv'
<1>1. PICK burst \in SUBSET Message :
          /\ NextBurst(burst) /\ Claim(burst, r) /\ burst \intersect Continue # {}
          /\ recovering' = [run |-> r, burst |-> burst]
    BY DEF DrainRecovers, Startable
<1>2. /\ Up /\ run[r] = NoRun /\ DrainTakesLock /\ r \in Run /\ recovering = NoBurst
      /\ UNCHANGED <<posted, run, input, ending, waiter, host>>
    BY DEF DrainRecovers, DrainTakesLock, Run
<1>3. Typed /\ drains \in Nat /\ drains' \in Nat /\ drains' <= drains + 0 /\ drains' <= drains + 1
    BY InvTyped DEF DrainRecovers, DrainTakesLock, Typed
<1>4. /\ delivery' \in [Message -> RowType] /\ Unsent' = Unsent /\ run[r].status = "absent"
      /\ ClaimedBy(r)' = burst
      /\ \A m \in Message : IF m \in burst
                            THEN /\ delivery[m].status = "queued"
                                 /\ delivery'[m].status = "claimed" /\ delivery'[m].run = r
                            ELSE delivery'[m] = delivery[m]
    BY <1>1, <1>2, TakenFacts
<1>5. Typed'
    BY <1>1, <1>2, <1>3, <1>4 DEF Typed, input, ending
<1>6. Counted'
    <2>1. Open' \subseteq Open
        BY <1>2 DEF Open, ending
    <2> QED BY <1>2, <1>3, <1>4, <2>1, CountedStep
<1>7. Written'
    <2>1. \A i \in DOMAIN posted : posted[i] \in Message
        BY <1>3 DEF Typed
    <2> QED BY <1>2, <1>4, <2>1 DEF Inv, Written, Unsent
<1>8. Unbegun' /\ OutcomeOnce' /\ Asleep' /\ Waited' /\ Persisting'
    BY <1>2 DEF Inv, Unbegun, OutcomeOnce, Asleep, Waited, Persisting, Up, Ended, input, ending
<1>9. ConsumedWasGiven'
    BY <1>2, <1>4 DEF Inv, ConsumedWasGiven, input
<1>10. Claims'
    <2>1. recovering'.run = r /\ recovering.run = None
        BY <1>1, <1>2, Vocabulary
    <2>2. ASSUME NEW m \in Message, delivery'[m].status = "claimed"
          PROVE  LET q == delivery'[m].run IN
                 IF run'[q].status = "absent" THEN recovering'.run = q ELSE m \in seen'[q]
        <3>1. CASE m \in burst
            BY <1>2, <1>4, <2>1, <3>1
        <3>2. CASE m \notin burst
            <4>1. delivery'[m] = delivery[m] /\ delivery[m].run \in Run
                BY <1>3, <1>4, <2>2, <3>2 DEF Typed, RowType
            <4>2. IF run[delivery[m].run].status = "absent" THEN recovering.run = delivery[m].run
                                                             ELSE m \in seen[delivery[m].run]
                BY <1>2, <2>2, <4>1 DEF Inv, Claims
            <4> QED BY <1>2, <2>1, <4>1, <4>2, Vocabulary DEF input
        <3> QED BY <3>1, <3>2
    <2> QED BY <2>2 DEF Claims
<1>11. Recovering'
    <2>1. recovering'.run = r /\ recovering'.burst = burst
        BY <1>1
    <2>2. \E z \in Session : InSession(burst) = {z}
        BY <1>1, <1>3, BurstFacts
    <2> QED BY <1>1, <1>2, <1>4, <2>1, <2>2 DEF Recovering, ClaimedBy, InSession
<1> QED BY <1>5, <1>6, <1>7, <1>8, <1>9, <1>10, <1>11, TypedInv

LEMMA RecoveredStartsStep ==
    ASSUME Inv, RecoveredStarts
    PROVE  Inv'
<1> USE DEF RecoveredStarts
<1> DEFINE r == recovering.run
<1> DEFINE z == SessionOf[CHOOSE m \in recovering.burst : TRUE]
<1>1. /\ Typed /\ r \in Run /\ run[r].status = "absent" /\ recovering.burst = ClaimedBy(r)
      /\ recovering.burst # {} /\ recovering.burst \in SUBSET Message
    BY InvTyped DEF Inv, Recovering, Run, Typed
<1>2. z \in Session \cup {None}
    BY <1>1, DeliveryConstants
<1>3. \A m \in Message : delivery[m].status = "claimed" /\ delivery[m].run = r => m \in recovering.burst
    BY <1>1, ClaimedByFacts
<1>4. /\ delivery' = delivery /\ delivery' \in [Message -> RowType] /\ Unsent' = Unsent
      /\ drains' \in Nat /\ drains' <= drains /\ UNCHANGED <<posted, peeked, outcome, waiter, host>>
    BY <1>1 DEF Typed, Unsent, ledger
<1>5. "conversation" \in Kinds
    BY DEF Kinds
<1> DEFINE S == recovering.burst
<1>6. /\ Admitted(r, "conversation", z) /\ seen' = [seen EXCEPT ![r] = S]
      /\ taken' = [taken EXCEPT ![r] = S]
      /\ persist' = [persist EXCEPT ![r] = "waiting"] /\ recovering' = NoBurst /\ recovering.run \in {None, r}
      /\ S \in SUBSET Message
    BY <1>1
<1>7. \A m \in Message : IF delivery'[m] = delivery[m]
                         THEN delivery[m].status = "claimed" /\ delivery[m].run = r => m \in S
                         ELSE /\ delivery'[m].status = "claimed" /\ delivery'[m].run = r
                              /\ m \in S
    BY <1>3, <1>4
<1> HIDE DEF r, z, S
<1> QED BY <1>1, <1>2, <1>4, <1>5, <1>6, <1>7, RunBegins

LEMMA RecoveredRefusedStep ==
    ASSUME Inv, RecoveredRefused
    PROVE  Inv'
<1> USE DEF RecoveredRefused
<1> DEFINE r == recovering.run
<1>1. /\ Typed /\ r \in Run /\ run[r].status = "absent" /\ recovering' = NoBurst
      /\ UNCHANGED <<posted, run, input, ending, drains, waiter, host>>
    BY InvTyped DEF Inv, Recovering, Run
<1>2. delivery' = IF "queued" = "done" THEN Done(r) ELSE Requeued(r)
    OBVIOUS
<1> HIDE DEF r
<1>3. /\ delivery' \in [Message -> RowType] /\ Unsent' = Unsent
      /\ \A m \in Message :
             IF delivery[m].status = "claimed" /\ delivery[m].run = r
             THEN delivery'[m].status = "queued"
             ELSE delivery'[m] = delivery[m]
    BY <1>1, <1>2, SettleFacts
<1>4. Typed'
    BY <1>1, <1>3 DEF Typed, NoBurst, input, ending
<1>5. Counted'
    <2>1. Open' \subseteq Open
        BY <1>1 DEF Open, ending
    <2>2. drains' \in Nat /\ drains' <= drains + 0 /\ drains' <= drains + 1
        BY <1>1 DEF Typed
    <2> QED BY <1>1, <1>3, <2>1, <2>2, CountedStep
<1>6. Written'
    <2>1. \A i \in DOMAIN posted : posted[i] \in Message
        BY <1>1 DEF Typed
    <2> QED BY <1>1, <1>3, <2>1 DEF Inv, Written, Unsent
<1>7. Unbegun' /\ OutcomeOnce' /\ Asleep' /\ Waited' /\ Persisting' /\ Recovering'
    BY <1>1 DEF Inv, Unbegun, OutcomeOnce, Asleep, Waited, Persisting, Recovering, Up, Ended, Live, input, ending
<1>8. ConsumedWasGiven'
    BY <1>1, <1>3 DEF Inv, ConsumedWasGiven, input
<1>9. Claims'
    <2>1. ASSUME NEW m \in Message, delivery'[m].status = "claimed"
          PROVE  /\ delivery'[m] = delivery[m] /\ run'[delivery[m].run].status # "absent"
                 /\ m \in seen'[delivery[m].run]
        <3>1. delivery'[m] = delivery[m] /\ delivery[m].run # r /\ delivery[m].run \in Run
            BY <1>1, <1>3, <2>1 DEF Typed, RowType
        <3> QED BY <1>1, <2>1, <3>1 DEF Inv, Claims, input, r
    <2> QED BY <2>1 DEF Claims
<1> QED BY <1>4, <1>5, <1>6, <1>7, <1>8, <1>9, TypedInv

\* A Run that no drain starts has nothing claimed for it.
LEMMA StartsStep ==
    ASSUME Inv, NEW r \in OtherRun, NEW kind \in Kinds, NEW s \in Session \cup {None},
           NEW task \in {"none", "waiting"}, Starts(r, kind, s, task)
    PROVE  Inv'
<1> USE DEF Starts
<1>1. Typed /\ r \in Run /\ run[r].status = "absent" /\ recovering.run # r
    BY InvTyped, Vocabulary, DeliveryConstants DEF NoRun, NoBurst, Run, Inv, Recovering
<1>2. \A m \in Message : ~(delivery[m].status = "claimed" /\ delivery[m].run = r)
    BY <1>1 DEF Inv, Claims
<1>3. seen' = [seen EXCEPT ![r] = {}] /\ taken' = [taken EXCEPT ![r] = {}]
    <2>1. seen[r] = {} /\ taken[r] = {}
        BY <1>1 DEF Inv, Unbegun
    <2> QED BY <1>1, <2>1 DEF Typed, input
<1>4. /\ delivery' = delivery /\ delivery' \in [Message -> RowType] /\ Unsent' = Unsent
      /\ drains' \in Nat /\ drains' <= drains /\ UNCHANGED <<posted, peeked, outcome, waiter, host, recovering>>
    BY <1>1 DEF Typed, Unsent, ledger, draining, input
<1>5. {} \in SUBSET Message
    OBVIOUS
<1> QED BY <1>1, <1>2, <1>3, <1>4, <1>5, RunBegins

LEMMA OtherRunStep ==
    ASSUME Inv, NEW r \in OtherRun,
           DirectRun(r) \/ \E s \in Session : Handoff(r, s) \/ Continuation(r, s)
    PROVE  Inv'
<1>1. "direct" \in Kinds /\ "handoff" \in Kinds /\ "continuation" \in Kinds
    BY DEF Kinds
<1>2. CASE DirectRun(r)
    BY <1>1, <1>2, StartsStep DEF DirectRun
<1>3. ASSUME NEW s \in Session, Handoff(r, s) PROVE Inv'
    BY <1>1, <1>3, StartsStep DEF Handoff
<1>4. ASSUME NEW s \in Session, Continuation(r, s) PROVE Inv'
    BY <1>1, <1>4, StartsStep DEF Continuation
<1> QED BY <1>2, <1>3, <1>4

-----------------------------------------------------------------------------
(* Model boundaries and the end of a Run.                                  *)

LEMMA InputStep ==
    ASSUME Inv, NEW r \in Run, InputRead(r) \/ InputDropped(r)
    PROVE  Inv'
<1> USE DEF InputRead, InputDropped
<1>1. Typed /\ Up /\ UNCHANGED <<ledger, run, seen, taken, ending, draining, host>>
    BY InvTyped
<1>2. \E S \in SUBSET Message : /\ peeked' = [peeked EXCEPT ![r] = S]
                                /\ run[r].status = "absent" => S = {}
    <2>1. Pending(run[r].session) \in SUBSET Message /\ {} \in SUBSET Message
        BY DEF Pending, QueuedIn
    <2> QED BY <2>1 DEF Live
<1>3. /\ peeked' \in [Run -> SUBSET Message]
      /\ \A q \in Run : run[q].status = "absent" => peeked'[q] = peeked[q] \/ peeked'[q] = {}
    BY <1>1, <1>2 DEF Typed
<1>4. Typed'
    BY <1>1, <1>3 DEF Typed, ledger, ending, draining
<1>5. Counted'
    <2>1. Unsent' = Unsent /\ Open' \subseteq Open
        BY <1>1 DEF Unsent, Open, ledger, ending
    <2>2. drains' \in Nat /\ drains' <= drains + 0 /\ drains' <= drains + 1
        BY <1>1 DEF Typed, draining
    <2> QED BY <1>1, <2>1, <2>2, CountedStep DEF ledger, draining
<1>6. Unbegun'
    BY <1>1, <1>3 DEF Inv, Unbegun, ending
<1>7. /\ Written' /\ OutcomeOnce' /\ Asleep' /\ Waited' /\ Persisting' /\ Recovering' /\ Claims'
      /\ ConsumedWasGiven'
    BY <1>1 DEF Inv, Written, OutcomeOnce, Asleep, Waited, Persisting, Recovering, Claims, ConsumedWasGiven,
                ClaimedBy, InSession, Up, Ended, ledger, ending, draining
<1> QED BY <1>4, <1>5, <1>6, <1>7, TypedInv

LEMMA InputGivenStep ==
    ASSUME Inv, NEW r \in Run, InputGiven(r)
    PROVE  Inv'
<1> USE DEF InputGiven
<1>1. Typed /\ Up /\ UNCHANGED <<ledger, run, taken, peeked, ending, draining, host>>
    BY InvTyped
<1>2. run[r].status # "absent"
    BY DEF Inv, Unbegun
<1>3. /\ seen' \in [Run -> SUBSET Message] /\ \A q \in Run : q # r => seen'[q] = seen[q]
      /\ \A q \in Run : seen[q] \subseteq seen'[q]
    BY <1>1 DEF Typed
<1>4. Typed'
    BY <1>1, <1>3 DEF Typed, ledger, ending, draining
<1>5. Counted'
    <2>1. Unsent' = Unsent /\ Open' \subseteq Open
        BY <1>1 DEF Unsent, Open, ledger, ending
    <2>2. drains' \in Nat /\ drains' <= drains + 0 /\ drains' <= drains + 1
        BY <1>1 DEF Typed, draining
    <2> QED BY <1>1, <2>1, <2>2, CountedStep DEF ledger, draining
<1>6. Unbegun' /\ Claims' /\ ConsumedWasGiven'
    <2>1. \A m \in Message : delivery[m].status \in {"claimed", "done"} => delivery[m].run \in Run
        BY <1>1 DEF Typed, RowType
    <2> QED BY <1>1, <1>2, <1>3, <2>1 DEF Inv, Unbegun, Claims, ConsumedWasGiven, Up, ledger, ending, draining
<1>7. Written' /\ OutcomeOnce' /\ Asleep' /\ Waited' /\ Persisting' /\ Recovering'
    BY <1>1 DEF Inv, Written, OutcomeOnce, Asleep, Waited, Persisting, Recovering,
                ClaimedBy, InSession, Up, Ended, Live, ledger, ending, draining
<1> QED BY <1>4, <1>5, <1>6, <1>7, TypedInv

LEMMA InputAcceptedStep ==
    ASSUME Inv, NEW r \in Run, InputAccepted(r)
    PROVE  Inv'
<1> USE DEF InputAccepted
<1>1. /\ Typed /\ Up /\ run[r].status = "running" /\ peeked[r] \in SUBSET Message
      /\ UNCHANGED <<posted, run, ending, draining, host>>
    BY InvTyped DEF Typed, Live
<1>2. /\ seen' = seen /\ seen \in [Run -> SUBSET Message] /\ peeked[r] \subseteq seen[r]
      /\ taken' \in [Run -> SUBSET Message] /\ \A q \in Run : q # r => taken'[q] = taken[q]
      /\ peeked' \in [Run -> SUBSET Message] /\ peeked'[r] = {}
      /\ \A q \in Run : q # r => peeked'[q] = peeked[q]
    BY <1>1 DEF Typed
<1>3. /\ delivery' \in [Message -> RowType] /\ Unsent' = Unsent
      /\ \A m \in Message :
             IF m \in peeked[r] /\ delivery[m].status = "queued"
             THEN delivery'[m].status = "claimed" /\ delivery'[m].run = r
             ELSE delivery'[m] = delivery[m]
    BY <1>1, ClaimFacts
<1>4. Typed'
    BY <1>1, <1>2, <1>3 DEF Typed, ending, draining
<1>5. Counted'
    <2>1. Open' \subseteq Open
        BY <1>1 DEF Open, ending
    <2>2. drains' \in Nat /\ drains' <= drains + 0 /\ drains' <= drains + 1
        BY <1>1 DEF Typed, draining
    <2> QED BY <1>1, <1>3, <2>1, <2>2, CountedStep DEF draining
<1>6. Written'
    <2>1. \A i \in DOMAIN posted : posted[i] \in Message
        BY <1>1 DEF Typed
    <2> QED BY <1>1, <1>3, <2>1 DEF Inv, Written, Unsent
<1>7. Unbegun' /\ OutcomeOnce' /\ Asleep' /\ Waited' /\ Persisting'
    BY <1>1, <1>2 DEF Inv, Unbegun, OutcomeOnce, Asleep, Waited, Persisting, Up, Ended, ending, draining
<1>8. \A m \in Message : delivery'[m] = delivery[m]
          \/ (delivery'[m].status = "claimed" /\ delivery'[m].run = r /\ delivery[m].status = "queued" /\ m \in peeked[r])
    BY <1>3
<1>9. Claims'
    <2>1. ASSUME NEW m \in Message, delivery'[m].status = "claimed"
          PROVE  LET q == delivery'[m].run IN
                 IF run'[q].status = "absent" THEN recovering'.run = q ELSE m \in seen'[q]
        <3>1. CASE delivery'[m] = delivery[m]
            <4>1. delivery[m].run \in Run
                BY <1>1, <2>1, <3>1 DEF Typed, RowType
            <4> QED BY <1>1, <1>2, <2>1, <3>1, <4>1 DEF Inv, Claims, draining
        <3>2. CASE delivery'[m] # delivery[m]
            BY <1>1, <1>2, <1>8, <3>2
        <3> QED BY <3>1, <3>2
    <2> QED BY <2>1 DEF Claims
<1>10. ConsumedWasGiven'
    <2>1. ASSUME NEW m \in Message, delivery'[m].status = "done"
          PROVE  LET q == delivery'[m].run IN
                 /\ m \in seen'[q] /\ run'[q].status \in {"succeeded", "failed", "cancelled"}
        <3>1. delivery'[m] = delivery[m] /\ delivery[m].run \in Run
            BY <1>1, <1>8, <2>1 DEF Typed, RowType
        <3> QED BY <1>1, <1>2, <2>1, <3>1 DEF Inv, ConsumedWasGiven
    <2> QED BY <2>1 DEF ConsumedWasGiven
<1>11. Recovering'
    <2>1. ASSUME recovering # NoBurst PROVE ClaimedBy(recovering.run)' = ClaimedBy(recovering.run)
        <3>1. recovering.run \in Run /\ recovering.run # r /\ recovering' = recovering
            BY <1>1, <2>1 DEF Inv, Recovering, Run, draining
        <3>2. ASSUME NEW m \in Message
              PROVE  delivery'[m] = [status |-> "claimed", run |-> recovering.run]
                     <=> delivery[m] = [status |-> "claimed", run |-> recovering.run]
            BY <1>8, <3>1
        <3> QED BY <3>1, <3>2 DEF ClaimedBy
    <2> QED BY <1>1, <2>1 DEF Inv, Recovering, InSession, draining
<1> QED BY <1>4, <1>5, <1>6, <1>7, <1>9, <1>10, <1>11, TypedInv

LEMMA OutcomePostedStep ==
    ASSUME Inv, NEW r \in Run, OutcomePosted(r)
    PROVE  Inv'
<1> USE DEF OutcomePosted
<1>1. /\ Typed /\ Up /\ Ended(r) /\ persist[r] = "waiting" /\ outcome[r] = 0 /\ run[r].status # "absent"
      /\ UNCHANGED <<ledger, run, input, draining, host>>
    BY InvTyped DEF Inv, Persisting, Settled
<1>2. PICK text \in BOOLEAN : outcome' = [outcome EXCEPT ![r] = outcome[r] + Entry(r, text)]
    OBVIOUS
<1>3. outcome[r] + Entry(r, text) \in {0, 1}
    BY <1>1 DEF Entry
<1>4. /\ outcome' \in [Run -> 0..2] /\ outcome'[r] <= 1
      /\ \A q \in Run : q # r => outcome'[q] = outcome[q] /\ persist'[q] = persist[q]
      /\ persist' \in [Run -> {"none", "waiting", "posted"}] /\ persist'[r] = "posted"
    BY <1>1, <1>2, <1>3 DEF Typed
<1>5. Typed'
    BY <1>1, <1>4 DEF Typed, ledger, input, draining
<1>6. Counted'
    <2>1. Unsent' = Unsent /\ Open' \subseteq Open
        BY <1>1, <1>4 DEF Unsent, Open, ledger
    <2>2. drains' \in Nat /\ drains' <= drains + 0 /\ drains' <= drains + 1
        BY <1>1 DEF Typed, draining
    <2> QED BY <1>1, <2>1, <2>2, CountedStep DEF ledger, draining
<1>7. Unbegun' /\ OutcomeOnce' /\ Persisting'
    BY <1>1, <1>4 DEF Inv, Unbegun, OutcomeOnce, Persisting, Ended, Terminal, input
<1>8. Written' /\ Asleep' /\ Waited' /\ Recovering' /\ Claims' /\ ConsumedWasGiven'
    <2>1. UNCHANGED <<delivery, posted, run, seen, drains, recovering, waiter, host>> /\ Up'
        BY <1>1 DEF ledger, input, draining, Up
    <2>2. Asleep' /\ Waited' /\ Written'
        BY <2>1 DEF Inv, Asleep, Waited, Written
    <2> QED BY <2>1, <2>2, <1>1 DEF Inv, Recovering, Claims, ConsumedWasGiven, ClaimedBy, InSession
<1> QED BY <1>5, <1>6, <1>7, <1>8, TypedInv

LEMMA OutcomeSettlesStep ==
    ASSUME Inv, NEW r \in Run, OutcomeSettles(r)
    PROVE  Inv'
<1> USE DEF OutcomeSettles
<1>1. /\ Typed /\ Up /\ Ended(r) /\ persist[r] = "posted" /\ run[r].status \notin {"absent", "interrupted"}
      /\ UNCHANGED <<posted, run, input, outcome, recovering, waiter, host>>
    BY InvTyped DEF Inv, Persisting
<1>2. delivery' = IF "done" = "done" THEN Done(r) ELSE Requeued(r)
    OBVIOUS
<1>3. /\ delivery' \in [Message -> RowType] /\ Unsent' = Unsent
      /\ \A m \in Message :
             IF delivery[m].status = "claimed" /\ delivery[m].run = r
             THEN delivery'[m].status = "done" /\ delivery'[m].run = r
             ELSE delivery'[m] = delivery[m]
    BY <1>1, <1>2, SettleFacts
<1>4. /\ persist' \in [Run -> {"none", "waiting", "posted"}] /\ persist'[r] = "none"
      /\ \A q \in Run : q # r => persist'[q] = persist[q]
    BY <1>1 DEF Typed
<1>5. Typed'
    BY <1>1, <1>3, <1>4 DEF Typed, input
<1>6. Counted'
    <2>1. Open' \subseteq Open \ {r} /\ r \in Open
        BY <1>1, <1>4 DEF Open
    <2>2. drains' \in Nat
        BY <1>1 DEF Typed
    <2> QED BY <1>1, <1>3, <2>1, <2>2, CountedStep
<1>7. Written'
    <2>1. \A i \in DOMAIN posted : posted[i] \in Message
        BY <1>1 DEF Typed
    <2> QED BY <1>1, <1>3, <2>1 DEF Inv, Written, Unsent
<1>8. Unbegun' /\ OutcomeOnce' /\ Persisting' /\ Waited' /\ Asleep'
    BY <1>1, <1>4 DEF Inv, Unbegun, OutcomeOnce, Persisting, Waited, Asleep, Up, Ended, Terminal, input
<1>9. ConsumedWasGiven'
    <2>1. ASSUME NEW m \in Message, delivery'[m].status = "done"
          PROVE  LET q == delivery'[m].run IN
                 /\ m \in seen'[q] /\ run'[q].status \in {"succeeded", "failed", "cancelled"}
        <3>1. CASE delivery[m].status = "claimed" /\ delivery[m].run = r
            BY <1>1, <1>3, <3>1 DEF Inv, Claims, Ended, Terminal, input
        <3>2. CASE ~(delivery[m].status = "claimed" /\ delivery[m].run = r)
            BY <1>1, <1>3, <2>1, <3>2 DEF Inv, ConsumedWasGiven, input
        <3> QED BY <3>1, <3>2
    <2> QED BY <2>1 DEF ConsumedWasGiven
<1>10. Claims'
    BY <1>1, <1>3 DEF Inv, Claims, Up, input
<1>11. Recovering'
    <2>1. ASSUME recovering # NoBurst PROVE ClaimedBy(recovering.run)' = ClaimedBy(recovering.run)
        <3>1. recovering.run \in Run /\ recovering.run # r /\ recovering' = recovering
            BY <1>1, <2>1 DEF Inv, Recovering, Run
        <3>2. ASSUME NEW m \in Message
              PROVE  delivery'[m] = [status |-> "claimed", run |-> recovering.run]
                     <=> delivery[m] = [status |-> "claimed", run |-> recovering.run]
            BY <1>3, <3>1
        <3> QED BY <3>1, <3>2 DEF ClaimedBy
    <2> QED BY <1>1, <2>1 DEF Inv, Recovering, InSession
<1> QED BY <1>5, <1>6, <1>7, <1>8, <1>9, <1>10, <1>11, TypedInv

-----------------------------------------------------------------------------
(* Users and the process.                                                  *)

LEMMA ToggleStep ==
    ASSUME Inv, PauseOrResume \/ RevokeOrReconnect
    PROVE  Inv'
<1> USE DEF PauseOrResume, RevokeOrReconnect, Toggle
<1>1. Typed /\ Up /\ UNCHANGED <<ledger, run, input, ending, draining>>
    BY InvTyped
<1>2. host' \in HostType /\ host'.up = "up"
    BY <1>1 DEF Typed, HostType, Up
<1>3. Typed'
    BY <1>1, <1>2 DEF Typed, ledger, input, ending, draining
<1>4. Counted'
    BY <1>1 DEF Inv, Counted, Unsent, Open, ledger, input, ending, draining
<1>5. /\ Written' /\ Unbegun' /\ OutcomeOnce' /\ Asleep' /\ Waited' /\ Persisting' /\ Recovering' /\ Claims'
      /\ ConsumedWasGiven'
    BY <1>1, <1>2 DEF Inv, Written, Unbegun, OutcomeOnce, Asleep, Waited, Persisting, Recovering, Claims,
                ConsumedWasGiven, ClaimedBy, InSession, Up, Ended, ledger, input, ending, draining
<1> QED BY <1>3, <1>4, <1>5, TypedInv

LEMMA HostFalls ==
    ASSUME Typed, host.crashes < MaxCrashes, host' = [host EXCEPT !.up = "down", !.crashes = @ + 1]
    PROVE  host' \in HostType /\ host'.up = "down"
<1>1. /\ host \in HostType /\ MaxCrashes \in Nat /\ host.crashes \in Nat /\ host.crashes + 1 \in 0..MaxCrashes
      /\ host' = [host EXCEPT !.up = "down", !.crashes = host.crashes + 1]
    BY DeliveryConstants DEF Typed, HostType
<1> QED BY <1>1 DEF HostType

LEMMA CrashStep ==
    ASSUME Inv, Crash \/ \E r \in ConvRun : CrashAfterClaim(r)
    PROVE  Inv'
<1> USE DEF Forgotten
<1>1. /\ Typed /\ Up /\ host' \in HostType /\ host'.up = "down" /\ UNCHANGED <<posted, run, seen, taken, outcome>>
      /\ Forgotten
    BY InvTyped, HostFalls DEF Crash, CrashAfterClaim, ledger, DrainTakesLock
<1>2. /\ delivery' \in [Message -> RowType] /\ Unsent' = Unsent
      /\ \A m \in Message :
             \/ delivery'[m] = delivery[m]
             \/ /\ delivery'[m].status = "claimed" /\ delivery'[m].run \in Run
                /\ run[delivery'[m].run].status = "absent"
    <2>1. CASE Crash
        BY <1>1, <2>1 DEF Crash, ledger, Unsent, Typed
    <2>2. ASSUME NEW r \in ConvRun, CrashAfterClaim(r)
          PROVE  <1>2!:
        <3>1. PICK burst \in SUBSET Message : NextBurst(burst) /\ Claim(burst, r)
            BY <2>2 DEF CrashAfterClaim, Startable
        <3>2. DrainTakesLock /\ run[r] = NoRun /\ r \in Run
            BY <2>2 DEF CrashAfterClaim, Run
        <3>3. /\ delivery' \in [Message -> RowType] /\ Unsent' = Unsent /\ run[r].status = "absent"
              /\ \A m \in Message : IF m \in burst
                                    THEN delivery'[m].status = "claimed" /\ delivery'[m].run = r
                                    ELSE delivery'[m] = delivery[m]
            BY <3>1, <3>2, TakenFacts
        <3> QED BY <3>2, <3>3
    <2> QED BY <1>1, <2>1, <2>2
<1>3. Typed'
    BY <1>1, <1>2 DEF Typed, NoBurst, NoWaiter, WaiterType
<1>4. Counted'
    <2>1. Open' \subseteq Open
        BY <1>1 DEF Open
    <2>2. drains' \in Nat /\ drains' <= drains + 0 /\ drains' <= drains + 1
        BY <1>1 DEF Typed
    <2> QED BY <1>1, <1>2, <2>1, <2>2, CountedStep
<1>5. Written'
    <2>1. \A i \in DOMAIN posted : posted[i] \in Message
        BY <1>1 DEF Typed
    <2> QED BY <1>1, <1>2, <2>1 DEF Inv, Written, Unsent
<1>6. Unbegun' /\ OutcomeOnce' /\ Persisting' /\ Asleep' /\ Recovering'
    BY <1>1 DEF Inv, Unbegun, OutcomeOnce, Persisting, Asleep, Recovering
<1>7. Waited'
    BY <1>1, Vocabulary DEF Waited
<1>8. ConsumedWasGiven'
    BY <1>1, <1>2 DEF Inv, ConsumedWasGiven
<1>9. Claims'
    <2>1. ~Up'
        BY <1>1 DEF Up
    <2> QED BY <1>1, <1>2, <2>1 DEF Inv, Claims
<1> QED BY <1>3, <1>4, <1>5, <1>6, <1>7, <1>8, <1>9, TypedInv

LEMMA CrashInStartupStep ==
    ASSUME Inv, CrashInStartup
    PROVE  Inv'
<1> USE DEF CrashInStartup
<1>1. /\ Typed /\ ~Up /\ host' \in HostType /\ host'.up = "down"
      /\ UNCHANGED <<ledger, run, input, ending, draining>>
    BY InvTyped, HostFalls DEF Up
<1>2. Typed'
    BY <1>1 DEF Typed, ledger, input, ending, draining
<1>3. Counted'
    BY <1>1 DEF Inv, Counted, Unsent, Open, ledger, input, ending, draining
<1>4. /\ Written' /\ Unbegun' /\ OutcomeOnce' /\ Asleep' /\ Waited' /\ Persisting' /\ Recovering' /\ Claims'
      /\ ConsumedWasGiven'
    BY <1>1 DEF Inv, Written, Unbegun, OutcomeOnce, Asleep, Waited, Persisting, Recovering, Claims,
                ConsumedWasGiven, ClaimedBy, InSession, Up, Ended, ledger, input, ending, draining
<1> QED BY <1>2, <1>3, <1>4, TypedInv

LEMMA InterruptsFacts ==
    ASSUME Typed, StartupInterrupts
    PROVE  /\ run' \in [Run -> RunType]
           /\ \A r \in Run : /\ run'[r].status = IF Live(r) THEN "interrupted" ELSE run[r].status
                             /\ ~run'[r].executing
                             /\ run[r].cleanup = "none" => run'[r].cleanup = "none"
                             /\ run'[r].kind = run[r].kind /\ run'[r].session = run[r].session
<1> DEFINE status(r) == IF Live(r) THEN "interrupted" ELSE run[r].status
<1> DEFINE cleanup(r) == IF r \in Indebted THEN "complete" ELSE run[r].cleanup
<1>1. run' = [r \in Run |-> [run[r] EXCEPT !.status = status(r), !.executing = FALSE, !.cleanup = cleanup(r)]]
    BY DEF StartupInterrupts
<1>2. ASSUME NEW r \in Run
      PROVE  /\ status(r) \in Terminal \cup {"absent", "running"}
             /\ cleanup(r) \in {"none", "pending", "failed", "complete"}
             /\ run[r].cleanup = "none" => cleanup(r) = "none"
    BY DEF Typed, RunType, Terminal, Indebted
<1> HIDE DEF status, cleanup
<1>3. ASSUME NEW r \in Run
      PROVE  /\ run'[r] \in RunType
             /\ run'[r].status = status(r) /\ run'[r].executing = FALSE /\ run'[r].cleanup = cleanup(r)
             /\ run'[r].kind = run[r].kind /\ run'[r].session = run[r].session
    <2>1. PICK s \in Terminal \cup {"absent", "running"}, c \in {"none", "pending", "failed", "complete"} :
              s = status(r) /\ c = cleanup(r)
        BY <1>2
    <2>2. run[r] \in RunType /\ run'[r] = [run[r] EXCEPT !.status = s, !.executing = FALSE, !.cleanup = c]
        BY <1>1, <2>1 DEF Typed
    <2>3. /\ run'[r] \in RunType
          /\ run'[r].status = s /\ run'[r].executing = FALSE /\ run'[r].cleanup = c
          /\ run'[r].kind = run[r].kind /\ run'[r].session = run[r].session
        BY <2>2 DEF RunType
    <2> QED BY <2>1, <2>3
<1>4. run' \in [Run -> RunType]
    BY <1>1, <1>3
<1> QED BY <1>2, <1>3, <1>4 DEF status

LEMMA StartupInterruptsStep ==
    ASSUME Inv, StartupInterrupts
    PROVE  Inv'
<1>1. /\ Typed /\ ~Up /\ host' \in HostType /\ host'.up = "interrupted"
      /\ UNCHANGED <<ledger, input, ending, draining>>
    BY InvTyped DEF Up, Typed, HostType, StartupInterrupts
<1>2. /\ run' \in [Run -> RunType]
      /\ \A r \in Run : /\ run'[r].status = IF Live(r) THEN "interrupted" ELSE run[r].status
                        /\ ~run'[r].executing
                        /\ run[r].cleanup = "none" => run'[r].cleanup = "none"
    BY <1>1, InterruptsFacts
<1>3. /\ drains = 0 /\ recovering = NoBurst /\ waiter = NoWaiter
      /\ \A r \in Run : peeked[r] = {} /\ persist[r] = "none"
    BY <1>1 DEF Inv, Asleep
<1>4. Typed'
    BY <1>1, <1>2 DEF Typed, ledger, input, ending, draining
<1>5. Counted'
    <2>1. Unsent' = Unsent /\ Open' \subseteq Open
        BY <1>1, <1>2 DEF Unsent, Open, ledger, ending, Live
    <2>2. drains' \in Nat /\ drains' <= drains + 0 /\ drains' <= drains + 1
        BY <1>1 DEF Typed, draining
    <2> QED BY <1>1, <2>1, <2>2, CountedStep DEF ledger, draining
<1>6. Unbegun' /\ OutcomeOnce' /\ Written'
    BY <1>1, <1>2 DEF Inv, Unbegun, OutcomeOnce, Written, ledger, input, ending, Live
<1>7. Asleep' /\ Recovering'
    BY <1>1, <1>2, <1>3 DEF Asleep, Recovering, Live, input, ending, draining
<1>8. Persisting' /\ Waited'
    BY <1>1, <1>3, Vocabulary DEF Persisting, Waited, ending, draining
<1>9. Claims'
    <2>1. ~Up'
        BY <1>1 DEF Up
    <2> QED BY <1>1, <1>2, <2>1 DEF Inv, Claims, ledger, input, Typed, RowType, Live
<1>10. ConsumedWasGiven'
    BY <1>1, <1>2 DEF Inv, ConsumedWasGiven, ledger, input, Typed, RowType, Live
<1> QED BY <1>4, <1>5, <1>6, <1>7, <1>8, <1>9, <1>10, TypedInv

LEMMA StartupReportsStep ==
    ASSUME Inv, StartupReports
    PROVE  Inv'
<1>1. /\ Typed /\ host.up = "interrupted" /\ host' \in HostType /\ host'.up = "reported"
      /\ UNCHANGED <<ledger, run, input, persist, draining>>
    BY InvTyped DEF Typed, HostType, StartupReports
<1>2. ASSUME NEW r \in Run
      PROVE  /\ outcome'[r] \in 0..2 /\ outcome'[r] <= 1
             /\ run[r].status = "absent" => outcome'[r] = outcome[r]
    <2>1. outcome[r] \in 0..2 /\ outcome[r] <= 1
        BY <1>1 DEF Typed, Inv, OutcomeOnce
    <2>2. outcome'[r] = outcome[r] \/ (Unreported(r) /\ outcome'[r] = outcome[r] + 1)
        BY DEF StartupReports
    <2> QED BY <2>1, <2>2 DEF Unreported, Ended, Terminal
<1>3. outcome' \in [Run -> 0..2]
    BY <1>2 DEF StartupReports
<1>4. Typed'
    BY <1>1, <1>3 DEF Typed, ledger, input, draining
<1>5. Counted'
    BY <1>1 DEF Inv, Counted, Unsent, Open, ledger, draining
<1>6. Unbegun' /\ OutcomeOnce'
    BY <1>1, <1>2 DEF Inv, Unbegun, OutcomeOnce, input
<1>7. \A r \in Run : peeked[r] = {} /\ persist[r] = "none"
    BY <1>1 DEF Inv, Asleep, Up
<1>8. Persisting'
    BY <1>1, <1>7 DEF Persisting
<1>9. /\ Written' /\ Asleep' /\ Waited' /\ Recovering' /\ Claims' /\ ConsumedWasGiven'
    BY <1>1 DEF Inv, Written, Asleep, Waited, Recovering, Claims,
                ConsumedWasGiven, ClaimedBy, InSession, Up, Ended, Live, ledger, input, draining
<1> QED BY <1>4, <1>5, <1>6, <1>8, <1>9, TypedInv

\* Startup leaves no claim: each goes back into the queue or is consumed.
LEMMA RecoveredFacts ==
    ASSUME Inv, StartupDrains
    PROVE  /\ delivery' \in [Message -> RowType] /\ Unsent' = Unsent
           /\ \A m \in Message :
                  \/ delivery'[m] = delivery[m] /\ delivery[m].status # "claimed"
                  \/ delivery[m].status = "claimed" /\ delivery'[m].status = "queued"
                  \/ /\ delivery[m].status = "claimed" /\ delivery'[m].status = "done"
                     /\ delivery'[m].run = delivery[m].run /\ delivery[m].run \in Run
                     /\ run[delivery[m].run].status \in {"succeeded", "failed", "cancelled"}
                     /\ m \in seen[delivery[m].run]
<1>1. Typed /\ host.up = "reported"
    BY InvTyped DEF StartupDrains
<1>2. \A r \in Run : ~Live(r)
    BY <1>1 DEF Inv, Asleep, Up
<1>3. ASSUME NEW m \in Message
      PROVE  /\ delivery'[m] \in RowType
             /\ \/ delivery'[m] = delivery[m] /\ delivery[m].status # "claimed"
                \/ delivery[m].status = "claimed" /\ delivery'[m].status = "queued"
                \/ /\ delivery[m].status = "claimed" /\ delivery'[m].status = "done"
                   /\ delivery'[m].run = delivery[m].run /\ delivery[m].run \in Run
                   /\ run[delivery[m].run].status \in {"succeeded", "failed", "cancelled"}
                   /\ m \in seen[delivery[m].run]
    <2>1. delivery[m] \in RowType /\ delivery'[m] = Recovered(m)
        BY <1>1 DEF Typed, StartupDrains
    <2>2. CASE delivery[m].status # "claimed"
        BY <2>1, <2>2 DEF Recovered
    <2>3. CASE delivery[m].status = "claimed" /\ run[delivery[m].run].status \in {"absent", "interrupted"}
        BY <2>1, <2>3 DEF Recovered, Queued, RowType
    <2>4. CASE delivery[m].status = "claimed" /\ run[delivery[m].run].status \notin {"absent", "interrupted"}
        <3>1. delivery'[m] = [delivery[m] EXCEPT !.status = "done"] /\ delivery[m].run \in Run
            BY <2>1, <2>4 DEF Recovered, RowType
        <3>2. delivery'[m] \in RowType /\ delivery'[m].status = "done" /\ delivery'[m].run = delivery[m].run
            BY <2>1, <2>4, <3>1 DEF RowType
        <3>3. run[delivery[m].run].status \in {"succeeded", "failed", "cancelled"}
            BY <1>1, <1>2, <2>4, <3>1 DEF Typed, RunType, Terminal, Live
        <3>4. m \in seen[delivery[m].run]
            BY <2>4 DEF Inv, Claims
        <3> QED BY <2>4, <3>1, <3>2, <3>3, <3>4
    <2> QED BY <2>2, <2>3, <2>4
<1>4. delivery' \in [Message -> RowType]
    BY <1>3 DEF StartupDrains
<1>5. Unsent' = Unsent
    BY <1>3 DEF Unsent
<1> QED BY <1>3, <1>4, <1>5

LEMMA StartupDrainsStep ==
    ASSUME Inv, StartupDrains
    PROVE  Inv'
<1>1. /\ Typed /\ ~Up /\ host' \in HostType /\ Up' /\ drains' \in {0, 1}
      /\ UNCHANGED <<posted, run, input, ending, recovering, waiter>>
    BY InvTyped DEF Up, Typed, HostType, StartupDrains
<1>2. /\ drains = 0 /\ recovering = NoBurst /\ waiter = NoWaiter
    BY <1>1 DEF Inv, Asleep
<1>3. Typed'
    BY <1>1, RecoveredFacts DEF Typed, input, ending
<1>4. Counted'
    <2>1. Unsent' = Unsent /\ Open' = Open /\ Unsent \in SUBSET Message /\ Open \in SUBSET Run
        BY <1>1, RecoveredFacts DEF Unsent, Open, ending
    <2>2. PICK u \in Nat, o \in Nat, m \in Nat, n \in Nat :
              /\ u = Cardinality(Unsent) /\ o = Cardinality(Open) /\ u <= m /\ o <= n
              /\ m = Cardinality(Message) /\ n = Cardinality(Run)
        BY <2>1, Sizes
    <2>3. drains' + 0 + u + o <= m + n + 1
        BY <1>1, <2>2
    <2>4. Len(posted) + Cardinality(Unsent) = Cardinality(Message)
        BY DEF Inv, Counted
    <2> QED BY <1>1, <1>2, <2>1, <2>2, <2>3, <2>4 DEF Counted
<1>5. Written'
    <2>1. \A i \in DOMAIN posted : posted[i] \in Message
        BY <1>1 DEF Typed
    <2> QED BY <1>1, RecoveredFacts, <2>1 DEF Inv, Written, Unsent
<1>6. Unbegun' /\ OutcomeOnce' /\ Persisting' /\ Asleep' /\ Recovering' /\ Waited'
    BY <1>1, <1>2 DEF Inv, Unbegun, OutcomeOnce, Persisting, Asleep, Recovering, Waited, Ended, input, ending
<1>7. Claims'
    BY RecoveredFacts DEF Claims
<1>8. ConsumedWasGiven'
    BY <1>1, RecoveredFacts DEF Inv, ConsumedWasGiven, input
<1> QED BY <1>3, <1>4, <1>5, <1>6, <1>7, <1>8, TypedInv

-----------------------------------------------------------------------------
(* The invariant holds.                                                    *)

LEMMA InitInv == Init => Inv
<1> SUFFICES ASSUME Init PROVE Inv
    OBVIOUS
<1> USE DEF Init
<1>1. /\ \A m \in Message : delivery[m] = [status |-> "unsent", run |-> None]
      /\ \A r \in Run : run[r].status = "absent" /\ ~run[r].executing /\ run[r].cleanup = "none"
    BY DEF NoRun
<1>2. Typed
    <2>1. NoRun \in RunType /\ NoWaiter \in WaiterType /\ NoBurst \in [run : Run \cup {None}, burst : SUBSET Message]
        BY Vocabulary DEF NoRun, RunType, NoBurst
    <2>2. host \in HostType
        BY DeliveryConstants DEF HostType
    <2>3. delivery \in [Message -> RowType] /\ posted \in Seq(Message)
        BY DEF RowType
    <2> QED BY <2>1, <2>2, <2>3 DEF Typed
<1>3. Counted
    <2>1. Unsent = Message /\ Open \in SUBSET Run /\ Len(posted) = 0
        BY <1>1 DEF Unsent, Open
    <2>2. PICK o \in Nat, m \in Nat, n \in Nat :
              o = Cardinality(Open) /\ o <= n /\ m = Cardinality(Message) /\ n = Cardinality(Run)
        BY <2>1, Sizes
    <2> QED BY <2>1, <2>2 DEF Counted
<1>4. Written /\ Unbegun /\ Asleep /\ Recovering /\ Claims /\ Persisting /\ ConsumedWasGiven /\ OutcomeOnce
    BY <1>1 DEF Written, Unbegun, Asleep, Recovering, Claims, Persisting, ConsumedWasGiven, OutcomeOnce, Up
<1>5. Waited
    BY Vocabulary DEF Waited
<1>6. TypeOK
    BY <1>2, <1>3, TypedCounted
<1> QED BY <1>3, <1>4, <1>5, <1>6 DEF Inv

LEMMA StutterInv == Inv /\ UNCHANGED vars => Inv'
<1> SUFFICES ASSUME Inv, UNCHANGED vars PROVE Inv'
    OBVIOUS
<1>1. Typed'
    BY InvTyped DEF vars, ledger, input, ending, draining, Typed
<1> QED BY <1>1, TypedInv
        DEF vars, ledger, input, ending, draining, Inv, Written, Unbegun, Asleep, Recovering, Claims, Persisting,
            Waited, Counted, Unsent, Open, ConsumedWasGiven, OutcomeOnce, ClaimedBy, InSession, Up, Ended, Live

LEMMA NextInv == Inv /\ Next => Inv'
<1> SUFFICES ASSUME Inv, Next PROVE Inv'
    OBVIOUS
<1>1. ASSUME NEW m \in Message, Post(m) PROVE Inv'
    BY <1>1, PostStep
<1>2. CASE DrainReturns \/ DrainWaits
    BY <1>2, DrainStepsBack
<1>3. ASSUME NEW r \in ConvRun, DrainStarts(r) PROVE Inv'
    BY <1>3, DrainStartsStep
<1>4. ASSUME NEW r \in ConvRun, DrainRecovers(r) PROVE Inv'
    BY <1>4, DrainRecoversStep
<1>5. CASE RecoveredStarts
    BY <1>5, RecoveredStartsStep
<1>6. CASE RecoveredRefused
    BY <1>6, RecoveredRefusedStep
<1>7. CASE CapacityFrees \/ JoinSucceeds \/ JoinFails
    BY <1>7, WaiterStep
<1>8. ASSUME NEW r \in Run, JoinBegins(r) PROVE Inv'
    BY <1>8, JoinBeginsStep
<1>9. ASSUME NEW r \in Run, RunStep(r) PROVE Inv'
    <2>1. CASE InputRead(r) \/ InputDropped(r)
        BY <2>1, InputStep
    <2>2. CASE InputAccepted(r)
        BY <2>2, InputAcceptedStep
    <2>6. CASE InputGiven(r)
        BY <2>6, InputGivenStep
    <2>3. CASE Ends(r) \/ StreamCloses(r) \/ Stop(r) \/ CleanupEnds(r)
        BY <2>3, TurnStep
    <2>4. CASE OutcomePosted(r)
        BY <2>4, OutcomePostedStep
    <2>5. CASE OutcomeSettles(r)
        BY <2>5, OutcomeSettlesStep
    <2> QED BY <1>9, <2>1, <2>2, <2>3, <2>4, <2>5, <2>6 DEF RunStep
<1>10. ASSUME NEW r \in OtherRun, DirectRun(r) \/ \E s \in Session : Handoff(r, s) \/ Continuation(r, s)
       PROVE  Inv'
    BY <1>10, OtherRunStep
<1>11. CASE PauseOrResume \/ RevokeOrReconnect
    BY <1>11, ToggleStep
<1>12. CASE Crash \/ \E r \in ConvRun : CrashAfterClaim(r)
    BY <1>12, CrashStep
<1>13. CASE CrashInStartup
    BY <1>13, CrashInStartupStep
<1>14. CASE StartupInterrupts
    BY <1>14, StartupInterruptsStep
<1>15. CASE StartupReports
    BY <1>15, StartupReportsStep
<1>16. CASE StartupDrains
    BY <1>16, StartupDrainsStep
<1> QED BY <1>1, <1>2, <1>3, <1>4, <1>5, <1>6, <1>7, <1>8, <1>9, <1>10, <1>11, <1>12, <1>13, <1>14, <1>15, <1>16
        DEF Next

\* The inductive invariant holds in every reachable state, whatever else happens
\* to the Agent.
THEOREM Invariance == Spec => []Inv
<1>1. Inv /\ [Next]_vars => Inv'
    BY NextInv, StutterInv
<1> QED BY InitInv, <1>1, PTL DEF Spec

\* deliveries.py and _persist_conversation_run: rows, Runs and tasks are well
\* formed, the ledger consumes a message only for an ended Run whose model was
\* given it, and a Run leaves at most one final entry in the transcript.
THEOREM RowsCorrect == Spec => []RowsSound
<1>1. Inv => RowsSound
    BY DEF Inv, RowsSound
<1> QED BY Invariance, <1>1, PTL

-----------------------------------------------------------------------------
(* What the steps do, field by field.                                      *)

\* Nothing but the progress of Runs, waiters, drains and switches.
QuietStep ==
    \/ UNCHANGED vars
    \/ DrainReturns \/ DrainWaits \/ CapacityFrees \/ JoinSucceeds \/ JoinFails
    \/ PauseOrResume \/ RevokeOrReconnect
    \/ \E r \in Run : JoinBegins(r) \/ Ends(r) \/ StreamCloses(r) \/ Stop(r) \/ CleanupEnds(r)

Quiet ==
    /\ UNCHANGED <<delivery, posted, seen, taken, peeked, persist, outcome, recovering>>
    /\ host'.up = host.up /\ (host.connected => host'.connected \/ "revoke" \in Env)
    /\ run' \in [Run -> RunType]
    /\ \A q \in Run :
          /\ run'[q].kind = run[q].kind /\ run'[q].session = run[q].session
          /\ \/ run'[q].status = run[q].status
             \/ Live(q) /\ run'[q].status \in {"succeeded", "failed", "cancelled"}
          /\ run'[q].executing => run[q].executing
          /\ peeked[q] # {} => run'[q].executing = run[q].executing

LEMMA QuietFacts ==
    ASSUME Inv, QuietStep
    PROVE  Quiet
<1> USE DEF ledger, input, ending, draining
<1>1. run \in [Run -> RunType] /\ host \in HostType
    BY InvTyped DEF Typed
<1>2. CASE \/ UNCHANGED vars
           \/ DrainReturns \/ DrainWaits \/ CapacityFrees \/ JoinSucceeds \/ JoinFails
    <2>1. UNCHANGED <<delivery, posted, run, seen, taken, peeked, persist, outcome, recovering, host>>
        BY <1>2 DEF vars, DrainReturns, DrainWaits, CapacityFrees, JoinSucceeds, JoinFails
    <2> QED BY <1>1, <2>1 DEF Quiet
<1>3. CASE PauseOrResume \/ RevokeOrReconnect
    <2>1. UNCHANGED <<delivery, posted, run, seen, taken, peeked, persist, outcome, recovering>>
        BY <1>3 DEF PauseOrResume, RevokeOrReconnect, Toggle
    <2>2. host'.up = host.up /\ (host.connected => host'.connected \/ "revoke" \in Env)
        BY <1>1, <1>3 DEF PauseOrResume, RevokeOrReconnect, Toggle, HostType
    <2> QED BY <1>1, <2>1, <2>2 DEF Quiet
<1>4. ASSUME NEW r \in Run, NEW new \in RunType, run' = [run EXCEPT ![r] = new],
             new.kind = run[r].kind, new.session = run[r].session,
             \/ new.status = run[r].status
             \/ Live(r) /\ new.status \in {"succeeded", "failed", "cancelled"},
             new.executing => run[r].executing,
             peeked[r] # {} => new.executing = run[r].executing,
             UNCHANGED <<delivery, posted, seen, taken, peeked, persist, outcome, recovering, host>>
      PROVE  Quiet
    <2>1. run' \in [Run -> RunType] /\ run'[r] = new /\ \A q \in Run : q # r => run'[q] = run[q]
        BY <1>1, <1>4
    <2>2. \A q \in Run : q # r =>
              /\ run'[q].kind = run[q].kind /\ run'[q].session = run[q].session /\ run'[q].status = run[q].status
              /\ run'[q].executing = run[q].executing
        BY <2>1
    <2> QED BY <1>4, <2>1, <2>2 DEF Quiet
<1>5. ASSUME NEW r \in Run, JoinBegins(r) PROVE Quiet
    <2> DEFINE new == [run[r] EXCEPT !.cleanup = IF run[r].cleanup = "failed" THEN "pending" ELSE run[r].cleanup]
    <2>1. /\ run' = [run EXCEPT ![r] = new] /\ new \in RunType
          /\ new.status = run[r].status /\ new.executing = run[r].executing
          /\ new.kind = run[r].kind /\ new.session = run[r].session
        BY <1>1, <1>5 DEF JoinBegins, RunType
    <2> HIDE DEF new
    <2>2. UNCHANGED <<delivery, posted, seen, taken, peeked, persist, outcome, recovering, host>>
        BY <1>5 DEF JoinBegins
    <2> QED BY <1>4, <2>1, <2>2
<1>6. ASSUME NEW r \in Run, Ends(r) PROVE Quiet
    <2>1. PICK end \in {"succeeded", "failed"} : run' = [run EXCEPT ![r] = [run[r] EXCEPT !.status = end]]
        BY <1>1, <1>6 DEF Ends
    <2> DEFINE new == [run[r] EXCEPT !.status = end]
    <2>2. /\ new \in RunType /\ new.status = end /\ new.executing = run[r].executing
          /\ new.kind = run[r].kind /\ new.session = run[r].session
        BY <1>1 DEF RunType, Terminal
    <2> HIDE DEF new
    <2> QED BY <1>4, <1>6, <2>1, <2>2 DEF Ends, new
<1>7. ASSUME NEW r \in Run, StreamCloses(r) PROVE Quiet
    <2> DEFINE new == [run[r] EXCEPT !.executing = FALSE]
    <2>1. /\ run' = [run EXCEPT ![r] = new] /\ new \in RunType
          /\ new.status = run[r].status /\ new.executing = FALSE
          /\ new.kind = run[r].kind /\ new.session = run[r].session
        BY <1>1, <1>7 DEF StreamCloses, RunType
    <2> HIDE DEF new
    <2> QED BY <1>4, <1>7, <2>1 DEF StreamCloses
<1>8. ASSUME NEW r \in Run, Stop(r) PROVE Quiet
    <2> DEFINE new == [run[r] EXCEPT !.cleanup = "pending", !.status = IF Live(r) THEN "cancelled" ELSE @]
    <2>1. /\ run' = [run EXCEPT ![r] = new] /\ new \in RunType
          /\ new.status = IF Live(r) THEN "cancelled" ELSE run[r].status
          /\ new.executing = run[r].executing
          /\ new.kind = run[r].kind /\ new.session = run[r].session
        BY <1>1, <1>8 DEF Stop, RunType, Terminal
    <2> HIDE DEF new
    <2> QED BY <1>4, <1>8, <2>1 DEF Stop
<1>9. ASSUME NEW r \in Run, CleanupEnds(r) PROVE Quiet
    <2>1. PICK c \in {"complete", "failed"} : run' = [run EXCEPT ![r] = [run[r] EXCEPT !.cleanup = c]]
        BY <1>1, <1>9 DEF CleanupEnds
    <2> DEFINE new == [run[r] EXCEPT !.cleanup = c]
    <2>2. /\ new \in RunType /\ new.status = run[r].status /\ new.executing = run[r].executing
          /\ new.kind = run[r].kind /\ new.session = run[r].session
        BY <1>1 DEF RunType
    <2> HIDE DEF new
    <2> QED BY <1>4, <1>9, <2>1, <2>2 DEF CleanupEnds, new
<1> QED BY <1>2, <1>3, <1>5, <1>6, <1>7, <1>8, <1>9 DEF QuietStep

\* The burst of one session, all that is queued in it, becomes the claims of one Run.
Taken(burst, r, z) ==
    /\ z \in Session /\ InSession(burst) = {z} /\ r \in Run
    /\ run[r].status = "absent" /\ recovering = NoBurst /\ Up
    /\ \A m \in Message : ~(delivery[m].status = "claimed" /\ delivery[m].run = r)
    /\ \A q \in Active : run[q].session # z
    /\ \A m \in Message : m \in burst <=> delivery[m].status = "queued" /\ SessionOf[m] = z
    /\ \A m \in Message : IF m \in burst
                          THEN delivery'[m].status = "claimed" /\ delivery'[m].run = r
                          ELSE delivery'[m] = delivery[m]
    /\ posted' = posted

LEMMA TakenStep ==
    ASSUME Inv, NEW r \in ConvRun, DrainTakesLock, run[r] = NoRun, posted' = posted,
           NEW burst \in SUBSET Message, Startable(burst), Claim(burst, r)
    PROVE  \E z \in Session : Taken(burst, r, z)
<1> USE DEF Startable
<1>1. r \in Run /\ Up /\ recovering = NoBurst
    BY DEF Run, DrainTakesLock
<1>2. PICK z \in Session : /\ InSession(burst) = {z}
                           /\ \A m \in Message : m \in burst <=> delivery[m].status = "queued" /\ SessionOf[m] = z
    BY InvTyped, BurstFacts
<1>3. \A q \in Active : run[q].session # z
    BY <1>2 DEF Engaged
<1> QED BY <1>1, <1>2, <1>3, TakenFacts DEF Taken

\* A Run begins and is given S.
Begun(r, kind, z, S, task) ==
    /\ r \in Run /\ run[r].status = "absent" /\ run' \in [Run -> RunType]
    /\ run'[r].status = "running" /\ run'[r].executing /\ run'[r].kind = kind /\ run'[r].session = z
    /\ seen' \in [Run -> SUBSET Message] /\ seen'[r] = S /\ taken'[r] = S /\ persist'[r] = task
    /\ \A q \in Run : q # r => /\ run'[q] = run[q] /\ persist'[q] = persist[q]
                               /\ seen'[q] = seen[q] /\ taken'[q] = taken[q]
    /\ UNCHANGED <<posted, peeked, outcome, host>> /\ Up

LEMMA BegunStep ==
    ASSUME Inv, Up, NEW r \in Run, run[r] = NoRun, NEW kind \in Kinds, NEW z \in Session \cup {None},
           Admitted(r, kind, z), NEW S \in SUBSET Message, seen' = [seen EXCEPT ![r] = S], taken' = [taken EXCEPT ![r] = S],
           NEW task, persist' = [persist EXCEPT ![r] = task], UNCHANGED <<posted, peeked, outcome, host>>
    PROVE  Begun(r, kind, z, S, task)
<1>1. Typed /\ run[r].status = "absent"
    BY InvTyped DEF NoRun
<1>2. /\ seen' \in [Run -> SUBSET Message] /\ seen'[r] = S /\ taken'[r] = S /\ persist'[r] = task
      /\ \A q \in Run : q # r => seen'[q] = seen[q] /\ taken'[q] = taken[q] /\ persist'[q] = persist[q]
    BY <1>1 DEF Typed
<1> QED BY <1>1, <1>2, AdmittedFacts DEF Begun

LEMMA DrainStartsFacts ==
    ASSUME Inv, NEW r \in ConvRun, DrainStarts(r)
    PROVE  \E burst \in SUBSET Message, z \in Session :
              /\ Taken(burst, r, z) /\ Begun(r, "conversation", z, burst, "waiting")
              /\ recovering' = recovering
<1>1. PICK burst \in SUBSET Message :
          /\ Startable(burst) /\ Claim(burst, r)
          /\ Admitted(r, "conversation", SessionOf[CHOOSE m \in burst : TRUE])
          /\ seen' = [seen EXCEPT ![r] = burst] /\ taken' = [taken EXCEPT ![r] = burst]
    BY DEF DrainStarts
<1>2. /\ Up /\ run[r] = NoRun /\ DrainTakesLock /\ r \in Run
      /\ persist' = [persist EXCEPT ![r] = "waiting"]
      /\ UNCHANGED <<posted, peeked, outcome, recovering, waiter, host>>
    BY DEF DrainStarts, DrainTakesLock, Run
<1>3. PICK z \in Session : Taken(burst, r, z)
    BY <1>1, <1>2, TakenStep
<1>4. SessionOf[CHOOSE m \in burst : TRUE] = z
    <2>1. burst # {}
        BY <1>3 DEF Taken, InSession
    <2> QED BY <1>3, <2>1 DEF Taken, InSession
<1>5. "conversation" \in Kinds /\ z \in Session \cup {None}
    BY DEF Kinds
<1>6. Begun(r, "conversation", z, burst, "waiting")
    BY <1>1, <1>2, <1>4, <1>5, BegunStep
<1> QED BY <1>2, <1>3, <1>6

LEMMA DrainRecoversFacts ==
    ASSUME Inv, NEW r \in ConvRun, DrainRecovers(r)
    PROVE  /\ \E burst \in SUBSET Message, z \in Session :
                 Taken(burst, r, z) /\ recovering' = [run |-> r, burst |-> burst]
                 /\ burst \intersect Continue # {}
           /\ UNCHANGED <<posted, run, seen, taken, peeked, persist, outcome, host>>
<1>1. PICK burst \in SUBSET Message :
          /\ Startable(burst) /\ Claim(burst, r) /\ burst \intersect Continue # {}
          /\ recovering' = [run |-> r, burst |-> burst]
    BY DEF DrainRecovers
<1>2. run[r] = NoRun /\ DrainTakesLock /\ UNCHANGED <<posted, run, seen, taken, peeked, persist, outcome, host>>
    BY DEF DrainRecovers, input, ending
<1> QED BY <1>1, <1>2, TakenStep

LEMMA RecoveredStartsFacts ==
    ASSUME Inv, RecoveredStarts
    PROVE  /\ \E z \in Session : /\ InSession(recovering.burst) = {z}
                                 /\ Begun(recovering.run, "conversation", z, recovering.burst, "waiting")
           /\ recovering # NoBurst /\ recovering' = NoBurst /\ delivery' = delivery
           /\ \A m \in Message : m \in recovering.burst <=>
                                    delivery[m].status = "claimed" /\ delivery[m].run = recovering.run
           /\ recovering.run \in Run /\ recovering.burst \in SUBSET Message
<1> USE DEF RecoveredStarts
<1> DEFINE r == recovering.run
<1> DEFINE S == recovering.burst
<1>1. /\ Typed /\ r \in Run /\ run[r].status = "absent" /\ S = ClaimedBy(r)
      /\ S # {} /\ S \in SUBSET Message /\ recovering' = NoBurst /\ delivery' = delivery /\ recovering # NoBurst
    BY InvTyped DEF Inv, Recovering, Run, Typed, ledger
<1>2. PICK z \in Session : InSession(S) = {z}
    BY DEF Inv, Recovering
<1>3. SessionOf[CHOOSE m \in S : TRUE] = z
    BY <1>1, <1>2 DEF InSession
<1>4. \A m \in Message : m \in S <=> delivery[m].status = "claimed" /\ delivery[m].run = r
    BY <1>1, ClaimedByFacts
<1>5. /\ run'[r].status = "running" /\ run'[r].executing /\ run'[r].kind = "conversation" /\ run'[r].session = z
      /\ \A q \in Run : q # r => run'[q] = run[q]
      /\ run' \in [Run -> RunType]
    <2>1. Admitted(r, "conversation", z)
        BY <1>3
    <2>2. "conversation" \in Kinds /\ z \in Session \cup {None}
        BY DEF Kinds
    <2> HIDE DEF r
    <2> QED BY <1>1, <2>1, <2>2, AdmittedFacts
<1>6. /\ seen' \in [Run -> SUBSET Message] /\ seen'[r] = S /\ taken'[r] = S /\ persist'[r] = "waiting"
      /\ \A q \in Run : q # r => seen'[q] = seen[q] /\ taken'[q] = taken[q] /\ persist'[q] = persist[q]
    BY <1>1 DEF Typed
<1>7. UNCHANGED <<posted, peeked, outcome, host>> /\ Up
    BY DEF ledger
<1>8. Begun(r, "conversation", z, S, "waiting")
    BY <1>1, <1>5, <1>6, <1>7 DEF Begun
<1> QED BY <1>1, <1>2, <1>4, <1>8

LEMMA OtherRunFacts ==
    ASSUME Inv, NEW r \in OtherRun,
           DirectRun(r) \/ \E s \in Session : Handoff(r, s) \/ Continuation(r, s)
    PROVE  /\ recovering' = recovering /\ delivery' = delivery /\ recovering.run # r /\ seen[r] = {}
           /\ \/ Begun(r, "direct", None, {}, "none")
              \/ "handoff" \in Env /\ \E s \in Session : Begun(r, "handoff", s, {}, "none")
              \/ /\ "continuation" \in Env /\ Active = {} /\ ~AnyQueued
                 /\ \E s \in Session : Begun(r, "continuation", s, {}, "waiting")
<1>1. ASSUME NEW kind \in Kinds, NEW s \in Session \cup {None}, NEW task, Starts(r, kind, s, task)
      PROVE  /\ recovering' = recovering /\ delivery' = delivery /\ recovering.run # r /\ seen[r] = {}
             /\ Begun(r, kind, s, {}, task)
    <2> USE DEF Starts
    <2>1. Typed /\ r \in Run /\ run[r] = NoRun /\ run[r].status = "absent" /\ Up
        BY <1>1, InvTyped DEF NoRun, Run
    <2>2. recovering.run # r
        BY <2>1, Vocabulary, DeliveryConstants DEF NoBurst, Inv, Recovering
    <2>3. seen[r] = {} /\ taken[r] = {}
        BY <2>1 DEF Inv, Unbegun
    <2>4. seen' = [seen EXCEPT ![r] = {}] /\ taken' = [taken EXCEPT ![r] = {}]
        BY <1>1, <2>1, <2>3 DEF Typed, input
    <2>5. /\ delivery' = delivery /\ recovering' = recovering /\ UNCHANGED <<posted, peeked, outcome, host>>
          /\ Admitted(r, kind, s) /\ persist' = [persist EXCEPT ![r] = task] /\ {} \in SUBSET Message
        BY <1>1 DEF ledger, draining, input
    <2>6. Begun(r, kind, s, {}, task)
        BY <2>1, <2>4, <2>5, BegunStep
    <2> QED BY <2>2, <2>3, <2>5, <2>6
<1>2. "direct" \in Kinds /\ "handoff" \in Kinds /\ "continuation" \in Kinds
    BY DEF Kinds
<1>3. CASE DirectRun(r)
    BY <1>1, <1>2, <1>3 DEF DirectRun
<1>4. ASSUME NEW s \in Session, Handoff(r, s)
      PROVE  /\ recovering' = recovering /\ delivery' = delivery /\ recovering.run # r /\ seen[r] = {}
             /\ "handoff" \in Env /\ Begun(r, "handoff", s, {}, "none")
    BY <1>1, <1>2, <1>4 DEF Handoff
<1>5. ASSUME NEW s \in Session, Continuation(r, s)
      PROVE  /\ recovering' = recovering /\ delivery' = delivery /\ recovering.run # r /\ seen[r] = {}
             /\ "continuation" \in Env /\ Active = {} /\ ~AnyQueued /\ Begun(r, "continuation", s, {}, "waiting")
    BY <1>1, <1>2, <1>5 DEF Continuation
<1> QED BY <1>3, <1>4, <1>5

\* A drain starts a Run on the burst that comes next, or goes to recover facts for it.
BurstStarts ==
    \E r \in ConvRun, burst \in SUBSET Message, z \in Session :
        /\ Taken(burst, r, z) /\ Begun(r, "conversation", z, burst, "waiting")
        /\ recovering' = recovering

BurstRecovers ==
    /\ \E r \in ConvRun, burst \in SUBSET Message, z \in Session :
          /\ Taken(burst, r, z) /\ recovering' = [run |-> r, burst |-> burst]
          /\ burst \intersect Continue # {}
    /\ UNCHANGED <<posted, run, seen, taken, peeked, persist, outcome, host>>

RecoveredBegins ==
    /\ recovering # NoBurst /\ recovering' = NoBurst /\ delivery' = delivery
    /\ recovering.run \in Run /\ recovering.burst \in SUBSET Message
    /\ \A m \in Message : m \in recovering.burst <=>
                             delivery[m].status = "claimed" /\ delivery[m].run = recovering.run
    /\ \E z \in Session : /\ InSession(recovering.burst) = {z}
                          /\ Begun(recovering.run, "conversation", z, recovering.burst, "waiting")

Refused ==
    /\ recovering # NoBurst /\ recovering' = NoBurst
    /\ recovering.run \in Run /\ run[recovering.run].status = "absent"
    /\ \A m \in Message : IF delivery[m].status = "claimed" /\ delivery[m].run = recovering.run
                          THEN delivery'[m].status = "queued" ELSE delivery'[m] = delivery[m]
    /\ UNCHANGED <<posted, run, seen, taken, peeked, persist, outcome, host>>

OtherBegins ==
    \E r \in Run :
        /\ recovering' = recovering /\ delivery' = delivery /\ recovering.run # r /\ seen[r] = {}
        /\ \/ Begun(r, "direct", None, {}, "none")
           \/ "handoff" \in Env /\ \E s \in Session : Begun(r, "handoff", s, {}, "none")
           \/ /\ "continuation" \in Env /\ Active = {} /\ ~AnyQueued
              /\ \E s \in Session : Begun(r, "continuation", s, {}, "waiting")

Posted(m) ==
    /\ Up /\ delivery[m].status = "unsent" /\ delivery'[m].status = "queued"
    /\ \A n \in Message : n # m => delivery'[n] = delivery[n]
    /\ Len(posted) \in Nat /\ DOMAIN posted = 1..Len(posted) /\ DOMAIN posted' = 1..(Len(posted) + 1)
    /\ \A i \in DOMAIN posted : posted'[i] = posted[i] /\ posted[i] \in Message
    /\ posted'[Len(posted) + 1] = m
    /\ UNCHANGED <<run, seen, taken, peeked, persist, outcome, recovering, host>>

Boundary(r, S) ==
    /\ peeked' \in [Run -> SUBSET Message] /\ peeked'[r] = S
    /\ \A q \in Run : q # r => peeked'[q] = peeked[q]
    /\ UNCHANGED <<posted, run, persist, outcome, recovering, host>> /\ Up

Reads(r) ==
    /\ Boundary(r, QueuedIn(run[r].session)) /\ UNCHANGED <<delivery, seen, taken>>
    /\ Live(r) /\ run[r].executing /\ run[r].session # None

Drops(r) == Boundary(r, {}) /\ UNCHANGED <<delivery, seen, taken>>

Gives(r) ==
    /\ Up /\ run[r].executing /\ peeked[r] # {}
    /\ seen'[r] = seen[r] \union peeked[r] /\ \A q \in Run : q # r => seen'[q] = seen[q]
    /\ UNCHANGED <<delivery, posted, run, taken, peeked, persist, outcome, recovering, host>>

Accepts(r) ==
    /\ Boundary(r, {}) /\ Live(r) /\ peeked[r] # {} /\ peeked[r] \subseteq seen[r] /\ seen' = seen
    /\ taken'[r] = taken[r] \union {m \in peeked[r] : delivery[m].status = "queued"}
    /\ \A q \in Run : q # r => taken'[q] = taken[q]
    /\ \A m \in Message : IF m \in peeked[r] /\ delivery[m].status = "queued"
                          THEN delivery'[m].status = "claimed" /\ delivery'[m].run = r
                          ELSE delivery'[m] = delivery[m]

Answers(r) ==
    /\ Up /\ persist[r] = "waiting" /\ Settled(r) /\ persist'[r] = "posted"
    /\ \A q \in Run : q # r => outcome'[q] = outcome[q] /\ persist'[q] = persist[q]
    /\ outcome' \in [Run -> Nat] /\ outcome'[r] >= outcome[r] /\ (host.connected => outcome'[r] > 0)
    /\ UNCHANGED <<delivery, posted, run, seen, taken, peeked, recovering, host>>

Settles(r) ==
    /\ Up /\ Ended(r) /\ persist[r] = "posted" /\ persist'[r] = "none"
    /\ \A q \in Run : q # r => persist'[q] = persist[q]
    /\ \A m \in Message : IF delivery[m].status = "claimed" /\ delivery[m].run = r
                          THEN delivery'[m].status = "done" /\ delivery'[m].run = r
                          ELSE delivery'[m] = delivery[m]
    /\ UNCHANGED <<posted, run, seen, taken, peeked, outcome, recovering, host>>

Falls ==
    /\ host'.up = "down" /\ host'.connected = host.connected
    /\ \A r \in Run : peeked'[r] = {} /\ persist'[r] = "none"
    /\ recovering' = NoBurst /\ UNCHANGED <<posted, run, seen, taken, outcome>>
    /\ \/ delivery' = delivery
       \/ \E burst \in SUBSET Message, r \in Run, z \in Session : Taken(burst, r, z)

Interrupts ==
    /\ ~Up /\ host'.up = "interrupted" /\ host'.connected = host.connected
    /\ \A r \in Run : /\ run'[r].status = IF Live(r) THEN "interrupted" ELSE run[r].status
                      /\ ~run'[r].executing
                      /\ run'[r].kind = run[r].kind /\ run'[r].session = run[r].session
    /\ UNCHANGED <<delivery, posted, seen, taken, peeked, persist, outcome, recovering>>

Reports ==
    /\ host.up = "interrupted" /\ host'.up = "reported" /\ host'.connected = host.connected
    /\ \A r \in Run : /\ outcome'[r] \in Nat /\ outcome'[r] >= outcome[r]
                      /\ run[r].kind \in {"conversation", "continuation"} /\ Ended(r) => outcome'[r] > 0
    /\ UNCHANGED <<delivery, posted, run, seen, taken, peeked, persist, recovering>>

Drained ==
    /\ host.up = "reported" /\ Up' /\ host'.connected = host.connected
    /\ \A m \in Message :
          \/ delivery'[m] = delivery[m] /\ delivery[m].status # "claimed"
          \/ /\ delivery[m].status = "claimed" /\ delivery'[m].status = "queued"
             /\ run[delivery[m].run].status \in {"absent", "interrupted"}
          \/ /\ delivery[m].status = "claimed" /\ delivery'[m].status = "done"
             /\ delivery'[m].run = delivery[m].run /\ delivery[m].run \in Run
             /\ run[delivery[m].run].status \in {"succeeded", "failed", "cancelled"}
             /\ m \in seen[delivery[m].run]
    /\ UNCHANGED <<posted, run, seen, taken, peeked, persist, outcome, recovering>>

LEMMA BoundaryFacts ==
    ASSUME Inv, NEW r \in Run, InputRead(r) \/ InputDropped(r) \/ InputGiven(r) \/ InputAccepted(r)
    PROVE  Reads(r) \/ Drops(r) \/ Gives(r) \/ Accepts(r)
<1> USE DEF ledger, ending, draining
<1>1. Typed /\ Up
    BY InvTyped DEF InputRead, InputDropped, InputGiven, InputAccepted
<1>2. ASSUME NEW S \in SUBSET Message, peeked' = [peeked EXCEPT ![r] = S],
             UNCHANGED <<posted, run, ending, draining, host>>
      PROVE  Boundary(r, S)
    BY <1>1, <1>2 DEF Typed, Boundary
<1>3. CASE InputRead(r)
    <2>1. Pending(run[r].session) \in SUBSET Message /\ Pending(run[r].session) = QueuedIn(run[r].session)
        BY DEF Pending, QueuedIn
    <2> QED BY <1>2, <1>3, <2>1 DEF InputRead, Reads
<1>4. CASE InputDropped(r)
    <2>1. {} \in SUBSET Message /\ peeked' = [peeked EXCEPT ![r] = {}]
        BY <1>4 DEF InputDropped
    <2>2. Boundary(r, {})
        BY <1>2, <1>4, <2>1 DEF InputDropped
    <2> QED BY <1>4, <2>2 DEF InputDropped, Drops
<1>5. CASE InputAccepted(r)
    <2>0. {} \in SUBSET Message /\ peeked' = [peeked EXCEPT ![r] = {}]
        BY <1>5 DEF InputAccepted
    <2>1. Boundary(r, {}) /\ peeked[r] \in SUBSET Message /\ Claim(peeked[r], r)
        BY <1>1, <1>2, <1>5, <2>0 DEF InputAccepted, Typed
    <2>2. /\ taken'[r] = taken[r] \union {m \in peeked[r] : delivery[m].status = "queued"}
          /\ \A q \in Run : q # r => taken'[q] = taken[q]
        BY <1>1, <1>5 DEF InputAccepted, Typed
    <2> QED BY <1>1, <1>5, <2>1, <2>2, ClaimFacts DEF InputAccepted, Accepts
<1>6. CASE InputGiven(r)
    <2>1. seen'[r] = seen[r] \union peeked[r] /\ \A q \in Run : q # r => seen'[q] = seen[q]
        BY <1>1, <1>6 DEF InputGiven, Typed
    <2> QED BY <1>6, <2>1 DEF InputGiven, Gives
<1> QED BY <1>3, <1>4, <1>5, <1>6

LEMMA EndFacts ==
    ASSUME Inv, NEW r \in Run, OutcomePosted(r) \/ OutcomeSettles(r)
    PROVE  Answers(r) \/ Settles(r)
<1> USE DEF ledger, input, draining
<1>1. CASE OutcomePosted(r)
    <2> USE DEF OutcomePosted
    <2>1. Typed /\ outcome[r] \in 0..2 /\ outcome[r] = 0
        BY <1>1, InvTyped DEF Typed, Inv, Persisting
    <2>2. PICK text \in BOOLEAN : outcome' = [outcome EXCEPT ![r] = outcome[r] + Entry(r, text)]
        BY <1>1
    <2>3. /\ outcome[r] + Entry(r, text) \in {0, 1} /\ outcome[r] + Entry(r, text) >= outcome[r]
          /\ (host.connected => outcome[r] + Entry(r, text) > 0)
        BY <2>1 DEF Entry
    <2>4. /\ outcome' \in [Run -> Nat] /\ outcome'[r] >= outcome[r] /\ (host.connected => outcome'[r] > 0)
          /\ \A q \in Run : q # r => outcome'[q] = outcome[q] /\ persist'[q] = persist[q]
          /\ persist'[r] = "posted"
        BY <1>1, <2>1, <2>2, <2>3 DEF Typed
    <2> QED BY <1>1, <2>4 DEF Answers
<1>2. CASE OutcomeSettles(r)
    <2>1. /\ Typed /\ Up /\ persist[r] = "posted" /\ Ended(r)
        BY <1>2, InvTyped DEF OutcomeSettles, Inv, Persisting
    <2>2. delivery' = IF "done" = "done" THEN Done(r) ELSE Requeued(r)
        BY <1>2 DEF OutcomeSettles
    <2>3. \A m \in Message : IF delivery[m].status = "claimed" /\ delivery[m].run = r
                             THEN delivery'[m].status = "done" /\ delivery'[m].run = r
                             ELSE delivery'[m] = delivery[m]
        BY <2>1, <2>2, SettleFacts
    <2>4. persist'[r] = "none" /\ \A q \in Run : q # r => persist'[q] = persist[q]
        BY <1>2, <2>1 DEF OutcomeSettles, Typed
    <2> QED BY <1>2, <2>1, <2>3, <2>4 DEF OutcomeSettles, Settles
<1> QED BY <1>1, <1>2

LEMMA RefusedFacts ==
    ASSUME Inv, RecoveredRefused
    PROVE  Refused
<1>1. Typed /\ recovering.run \in Run /\ run[recovering.run].status = "absent" /\ recovering # NoBurst
    BY InvTyped DEF RecoveredRefused, Inv, Recovering, Run
<1>2. delivery' = IF "queued" = "done" THEN Done(recovering.run) ELSE Requeued(recovering.run)
    BY DEF RecoveredRefused
<1>3. \A m \in Message : IF delivery[m].status = "claimed" /\ delivery[m].run = recovering.run
                         THEN delivery'[m].status = "queued" ELSE delivery'[m] = delivery[m]
    BY <1>1, <1>2, SettleFacts
<1> QED BY <1>1, <1>3 DEF RecoveredRefused, Refused, input, ending

LEMMA PostFacts ==
    ASSUME Inv, NEW m \in Message, Post(m)
    PROVE  Posted(m)
<1>1. Typed
    BY InvTyped
<1>2. delivery'[m].status = "queued" /\ \A n \in Message : n # m => delivery'[n] = delivery[n]
    BY <1>1 DEF Post, Queued, Typed
<1>3. /\ Len(posted) \in Nat /\ DOMAIN posted = 1..Len(posted) /\ DOMAIN posted' = 1..(Len(posted) + 1)
      /\ \A i \in DOMAIN posted : posted'[i] = posted[i] /\ posted[i] \in Message
      /\ posted'[Len(posted) + 1] = m
    BY <1>1 DEF Post, Typed
<1> QED BY <1>2, <1>3 DEF Post, Posted, input, ending

LEMMA FallsFacts ==
    ASSUME Inv, Crash \/ CrashInStartup \/ \E r \in ConvRun : CrashAfterClaim(r)
    PROVE  Falls
<1>1. Typed /\ host' = [host EXCEPT !.up = "down", !.crashes = @ + 1] /\ UNCHANGED <<posted, run, seen, taken, outcome>>
    BY InvTyped DEF Crash, CrashInStartup, CrashAfterClaim, ledger, input, ending
<1>2. host'.up = "down" /\ host'.connected = host.connected
    BY <1>1 DEF Typed, HostType
<1>3. (\A r \in Run : peeked'[r] = {} /\ persist'[r] = "none") /\ recovering' = NoBurst
    <2>1. CASE CrashInStartup
        <3>1. ~Up
            BY <2>1 DEF CrashInStartup, Up
        <3> QED BY <2>1, <3>1 DEF CrashInStartup, Inv, Asleep, input, ending, draining
    <2>2. CASE Forgotten
        BY <2>2 DEF Forgotten
    <2> QED BY <2>1, <2>2 DEF Crash, CrashAfterClaim
<1>4. \/ delivery' = delivery
      \/ \E burst \in SUBSET Message, r \in Run, z \in Session : Taken(burst, r, z)
    <2>1. CASE Crash \/ CrashInStartup
        BY <2>1 DEF Crash, CrashInStartup, ledger
    <2>2. ASSUME NEW r \in ConvRun, CrashAfterClaim(r)
          PROVE  \E burst \in SUBSET Message, x \in Run, z \in Session : Taken(burst, x, z)
        <3>1. PICK burst \in SUBSET Message : Startable(burst) /\ Claim(burst, r)
            BY <2>2 DEF CrashAfterClaim
        <3>2. \E z \in Session : Taken(burst, r, z)
            BY <2>2, <3>1, TakenStep DEF CrashAfterClaim
        <3> QED BY <3>2 DEF Run
    <2> QED BY <2>1, <2>2
<1> QED BY <1>1, <1>2, <1>3, <1>4 DEF Falls

LEMMA StartupFacts ==
    ASSUME Inv, StartupInterrupts \/ StartupReports \/ StartupDrains
    PROVE  Interrupts \/ Reports \/ Drained
<1> USE DEF ledger, input, ending, draining
<1>1. Typed
    BY InvTyped
<1>2. CASE StartupInterrupts
    <2>1. ~Up /\ host'.up = "interrupted" /\ host'.connected = host.connected
        BY <1>1, <1>2 DEF StartupInterrupts, Up, Typed, HostType
    <2> QED BY <1>1, <1>2, <2>1, InterruptsFacts DEF StartupInterrupts, Interrupts
<1>3. CASE StartupReports
    <2>1. host.up = "interrupted" /\ host'.up = "reported" /\ host'.connected = host.connected
        BY <1>1, <1>3 DEF StartupReports, Typed, HostType
    <2>2. ASSUME NEW r \in Run
          PROVE  /\ outcome'[r] \in Nat /\ outcome'[r] >= outcome[r]
                 /\ run[r].kind \in {"conversation", "continuation"} /\ Ended(r) => outcome'[r] > 0
        <3>1. outcome[r] \in 0..2
            BY <1>1 DEF Typed
        <3>2. outcome'[r] = IF run[r].kind \in {"conversation", "continuation"} /\ Unreported(r)
                            THEN outcome[r] + 1 ELSE outcome[r]
            BY <1>3 DEF StartupReports
        <3> QED BY <3>1, <3>2 DEF Unreported
    <2> QED BY <1>3, <2>1, <2>2 DEF StartupReports, Reports
<1>4. CASE StartupDrains
    <2>1. host.up = "reported" /\ Up' /\ host'.connected = host.connected
        BY <1>1, <1>4 DEF StartupDrains, Up, Typed, HostType
    <2>2. \A m \in Message : delivery[m].status = "claimed" /\ delivery'[m].status = "queued" =>
              run[delivery[m].run].status \in {"absent", "interrupted"}
        <3>1. ASSUME NEW m \in Message, delivery[m].status = "claimed",
                     run[delivery[m].run].status \notin {"absent", "interrupted"}
              PROVE  delivery'[m].status = "done"
            <4>1. delivery'[m] = [delivery[m] EXCEPT !.status = "done"] /\ delivery[m] \in RowType
                BY <1>1, <1>4, <3>1 DEF StartupDrains, Recovered, Typed
            <4> QED BY <4>1 DEF RowType
        <3> QED BY <3>1
    <2> QED BY <1>4, <2>1, <2>2, RecoveredFacts DEF StartupDrains, Drained
<1> QED BY <1>2, <1>3, <1>4

LEMMA StepCases ==
    ASSUME Inv, [Next]_vars
    PROVE  \/ Quiet
           \/ \E m \in Message : Posted(m)
           \/ BurstStarts \/ BurstRecovers \/ RecoveredBegins \/ Refused \/ OtherBegins
           \/ \E r \in Run : Reads(r) \/ Drops(r) \/ Gives(r) \/ Accepts(r) \/ Answers(r) \/ Settles(r)
           \/ Falls \/ Interrupts \/ Reports \/ Drained
<1>1. CASE QuietStep
    BY <1>1, QuietFacts
<1>2. ASSUME NEW m \in Message, Post(m) PROVE Posted(m)
    BY <1>2, PostFacts
<1>3. ASSUME NEW r \in ConvRun, DrainStarts(r) PROVE BurstStarts
    BY <1>3, DrainStartsFacts DEF BurstStarts
<1>4. ASSUME NEW r \in ConvRun, DrainRecovers(r) PROVE BurstRecovers
    BY <1>4, DrainRecoversFacts DEF BurstRecovers
<1>5. CASE RecoveredStarts
    BY <1>5, RecoveredStartsFacts DEF RecoveredBegins
<1>6. CASE RecoveredRefused
    BY <1>6, RefusedFacts
<1>7. ASSUME NEW r \in OtherRun, DirectRun(r) \/ \E s \in Session : Handoff(r, s) \/ Continuation(r, s)
      PROVE  OtherBegins
    <2>1. r \in Run
        BY DEF Run
    <2> QED BY <1>7, <2>1, OtherRunFacts DEF OtherBegins
<1>8. ASSUME NEW r \in Run, RunStep(r)
      PROVE  QuietStep \/ Reads(r) \/ Drops(r) \/ Gives(r) \/ Accepts(r) \/ Answers(r) \/ Settles(r)
    BY <1>8, BoundaryFacts, EndFacts DEF RunStep, QuietStep
<1>9. CASE Crash \/ CrashInStartup \/ \E r \in ConvRun : CrashAfterClaim(r)
    BY <1>9, FallsFacts
<1>10. CASE StartupInterrupts \/ StartupReports \/ StartupDrains
    BY <1>10, StartupFacts
<1> QED BY <1>1, <1>2, <1>3, <1>4, <1>5, <1>6, <1>7, <1>8, <1>9, <1>10 DEF Next, QuietStep

-----------------------------------------------------------------------------
(* Every claim has an owner.                                               *)

LEMMA OwnStep ==
    ASSUME Inv, OwnInv, [Next]_vars
    PROVE  OwnInv'
<1> SUFFICES ASSUME "handoff" \notin Env PROVE Owned'
    BY DEF OwnInv
<1>1. Owned
    BY DEF OwnInv
<1>2. /\ Typed
      /\ \A m \in Message : delivery[m].status = "claimed" => delivery[m].run \in Run
    BY InvTyped DEF Typed, RowType
<1> USE DEF Owned, ClaimOwned
<1>3. CASE Quiet
    BY <1>1, <1>2, <1>3 DEF Quiet, Up, Live
<1>4. ASSUME NEW m \in Message, Posted(m) PROVE Owned'
    BY <1>1, <1>2, <1>4 DEF Posted, Up, Live
<1>5. CASE BurstStarts
    <2>1. PICK r \in Run, burst \in SUBSET Message, z \in Session :
              Taken(burst, r, z) /\ Begun(r, "conversation", z, burst, "waiting")
        BY <1>5 DEF BurstStarts, Run
    <2>2. recovering' = recovering
        BY <1>5 DEF BurstStarts
    <2>3. peeked[r] = {}
        BY <2>1 DEF Taken, Inv, Unbegun
    <2> QED BY <1>1, <1>2, <2>1, <2>2, <2>3 DEF Taken, Begun, Up, Live
<1>6. CASE BurstRecovers
    <2>1. PICK r \in Run, burst \in SUBSET Message, z \in Session :
              Taken(burst, r, z) /\ recovering' = [run |-> r, burst |-> burst]
        BY <1>6 DEF BurstRecovers, Run
    <2>2. recovering'.run = r /\ recovering.run = None
        BY <2>1, Vocabulary DEF Taken
    <2> QED BY <1>1, <1>2, <1>6, <2>1, <2>2, Vocabulary DEF BurstRecovers, Taken, Up, Live
<1>7. CASE RecoveredBegins
    <2>1. PICK z \in Session : Begun(recovering.run, "conversation", z, recovering.burst, "waiting")
        BY <1>7 DEF RecoveredBegins
    <2>2. peeked[recovering.run] = {}
        BY <2>1 DEF Begun, Inv, Unbegun
    <2> QED BY <1>1, <1>2, <1>7, <2>1, <2>2 DEF RecoveredBegins, Begun, Up, Live
<1>8. CASE Refused
    BY <1>1, <1>2, <1>8 DEF Refused, Up, Live
<1>9. CASE OtherBegins
    <2>1. PICK r \in Run :
              /\ recovering' = recovering /\ delivery' = delivery
              /\ \/ Begun(r, "direct", None, {}, "none")
                 \/ \E s \in Session : Begun(r, "continuation", s, {}, "waiting")
        BY <1>9 DEF OtherBegins
    <2>2. r \in Run /\ run[r].status = "absent"
        BY <2>1 DEF Begun
    <2>3. peeked[r] = {} /\ persist[r] = "none"
        BY <2>2 DEF Inv, Unbegun
    <2> QED BY <1>1, <1>2, <2>1, <2>3 DEF Begun, Up, Live
<1>10. ASSUME NEW r \in Run, Reads(r) \/ Drops(r) PROVE Owned'
    BY <1>1, <1>2, <1>10 DEF Reads, Drops, Boundary, Up, Live
<1>11. ASSUME NEW r \in Run, Gives(r) \/ Accepts(r) PROVE Owned'
    BY <1>1, <1>2, <1>11 DEF Gives, Accepts, Boundary, Up, Live
<1>12. ASSUME NEW r \in Run, Answers(r) PROVE Owned'
    BY <1>1, <1>2, <1>12 DEF Answers, Up, Live, Settled, Ended, Terminal
<1>13. ASSUME NEW r \in Run, Settles(r) PROVE Owned'
    BY <1>1, <1>2, <1>13 DEF Settles, Up, Live, Ended, Terminal
<1>14. CASE Falls \/ Interrupts \/ Reports
    <2>1. ~Up'
        BY <1>14 DEF Falls, Interrupts, Reports, Up
    <2>2. \A r \in Run : peeked'[r] = {}
        BY <1>14 DEF Falls, Interrupts, Reports, Up, Inv, Asleep
    <2> QED BY <2>1, <2>2
<1>15. CASE Drained
    <2>1. \A r \in Run : ~Live(r) /\ peeked[r] = {}
        BY <1>15 DEF Drained, Up, Inv, Asleep
    <2> QED BY <1>15, <2>1 DEF Drained, Live
<1> QED BY <1>3, <1>4, <1>5, <1>6, <1>7, <1>8, <1>9, <1>10, <1>11, <1>12, <1>13, <1>14, <1>15, StepCases

LEMMA OwnInit == Init => OwnInv
    BY DEF Init, OwnInv, Owned, ClaimOwned, Live, NoRun

\* deliveries.py and _persist_conversation_run (services.py:3376-3446): while the
\* process runs, every claim is held by the drain that made it or by a Run whose
\* outcome a task persists, and that task settles it.  Assumed is that no other
\* Agent requests a turn in the session: such a turn has no task of that kind, and
\* what it takes in is settled by the next startup only.
THEOREM ClaimsOwned == "handoff" \notin Env => (Spec => []ClaimOwned)
<1> SUFFICES ASSUME "handoff" \notin Env PROVE Spec => []ClaimOwned
    OBVIOUS
<1>1. Inv /\ OwnInv /\ [Next]_vars => OwnInv'
    BY OwnStep
<1>2. OwnInv => ClaimOwned
    BY DEF OwnInv, Owned
<1>3. Spec => []OwnInv
    BY Invariance, OwnInit, <1>1, PTL DEF Spec
<1> QED BY <1>2, <1>3, PTL

-----------------------------------------------------------------------------
(* Messages are given in the order of posting.                             *)

LEMMA PostedMessages == Typed => \A i \in DOMAIN posted : posted[i] \in Message /\ SessionOf[posted[i]] \in Session
    BY DeliveryConstants DEF Typed

LEMMA PrefixGrows ==
    ASSUME NEW p, NEW S, NEW G, NEW H, G \subseteq H, Prefix(p, S, G)
    PROVE  Prefix(p, S, H)
    BY DEF Prefix

LEMMA PrefixEmpty == \A p, G : Prefix(p, {}, G)
    BY DEF Prefix

\* A new message comes last, and nobody has it yet.
LEMMA PrefixPosted ==
    ASSUME NEW n \in Nat, NEW p, DOMAIN p = 1..n, NEW q, DOMAIN q = 1..(n + 1),
           \A i \in 1..n : q[i] = p[i],
           NEW S, NEW G, q[n + 1] \notin S, Prefix(p, S, G)
    PROVE  Prefix(q, S, G)
<1> SUFFICES ASSUME NEW i \in 1..(n + 1), NEW j \in 1..(n + 1),
                    i < j, SessionOf[q[i]] = SessionOf[q[j]], q[j] \in S
             PROVE  q[i] \in S \union G
    BY DEF Prefix
<1>1. i \in 1..n /\ j \in 1..n
    <2>1. j # n + 1
        OBVIOUS
    <2> QED BY <2>1
<1>2. q[i] = p[i] /\ q[j] = p[j]
    BY <1>1
<1> QED BY <1>1, <1>2 DEF Prefix

\* All that is queued in a session comes after what has been given, unless a drain
\* holds a burst of it.
LEMMA PrefixQueued ==
    ASSUME Inv, Up, NEW z, \A m \in recovering.burst : SessionOf[m] # z
    PROVE  Prefix(posted, QueuedIn(z), Given)
<1>1. Typed
    BY InvTyped
<1> SUFFICES ASSUME NEW i \in DOMAIN posted, NEW j \in DOMAIN posted,
                    SessionOf[posted[i]] = SessionOf[posted[j]], posted[j] \in QueuedIn(z)
             PROVE  posted[i] \in QueuedIn(z) \union Given
    BY DEF Prefix
<1> DEFINE m == posted[i]
<1>2. m \in Message /\ SessionOf[m] = z /\ delivery[m].status # "unsent"
    BY <1>1, PostedMessages DEF QueuedIn, Inv, Written
<1>3. delivery[m] \in RowType
    BY <1>1, <1>2 DEF Typed
<1>4. CASE delivery[m].status = "queued"
    BY <1>2, <1>4 DEF QueuedIn
<1>5. CASE delivery[m].status = "claimed"
    <2>1. delivery[m].run \in Run
        BY <1>3, <1>5 DEF RowType
    <2>2. run[delivery[m].run].status # "absent"
        <3>1. ASSUME run[delivery[m].run].status = "absent" PROVE FALSE
            <4>1. recovering.run = delivery[m].run
                BY <1>2, <1>5, <3>1 DEF Inv, Claims
            <4>2. recovering # NoBurst
                BY <2>1, <4>1, Vocabulary
            <4>3. m \in recovering.burst
                BY <1>1, <1>2, <1>5, <2>1, <4>1, <4>2, ClaimedByFacts DEF Inv, Recovering
            <4> QED BY <1>2, <4>3
        <3> QED BY <3>1
    <2>3. m \in seen[delivery[m].run]
        BY <1>2, <1>5, <2>2 DEF Inv, Claims
    <2> QED BY <2>1, <2>3 DEF Given
<1>6. CASE delivery[m].status = "done"
    <2>1. delivery[m].run \in Run
        BY <1>3, <1>6 DEF RowType
    <2> QED BY <1>2, <1>6, <2>1 DEF Inv, ConsumedWasGiven, Given
<1>7. delivery[m].status \in {"queued", "claimed", "done"}
    BY <1>2, <1>3 DEF RowType
<1> QED BY <1>4, <1>5, <1>6, <1>7

\* What has been given stays given.
LEMMA GivenGrows ==
    ASSUME Inv, [Next]_vars
    PROVE  Given \subseteq Given'
<1>1. \A r \in Run : seen[r] \subseteq seen'[r]
    <2>1. ASSUME NEW r \in Run, run[r].status = "absent" PROVE seen[r] = {}
        BY <2>1 DEF Inv, Unbegun
    <2>2. CASE \/ Quiet \/ BurstRecovers \/ Refused \/ Falls \/ Interrupts \/ Reports \/ Drained
               \/ \E m \in Message : Posted(m)
               \/ \E r \in Run : Reads(r) \/ Drops(r) \/ Answers(r) \/ Settles(r)
        BY <2>2 DEF Quiet, BurstRecovers, Refused, Falls, Interrupts, Reports, Drained, Posted, Reads, Drops,
                    Answers, Settles
    <2>3. ASSUME NEW r, NEW kind, NEW z, NEW S, NEW task, Begun(r, kind, z, S, task)
          PROVE  \A q \in Run : seen[q] \subseteq seen'[q]
        BY <2>1, <2>3 DEF Begun
    <2>4. CASE BurstStarts \/ RecoveredBegins \/ OtherBegins
        BY <2>3, <2>4 DEF BurstStarts, RecoveredBegins, OtherBegins
    <2>5. ASSUME NEW r \in Run, Gives(r) \/ Accepts(r) PROVE \A q \in Run : seen[q] \subseteq seen'[q]
        BY <2>5 DEF Gives, Accepts
    <2> QED BY <2>2, <2>4, <2>5, StepCases
<1> QED BY <1>1 DEF Given

\* While a drain awaits recovery facts, only Runs without a session begin.
LEMMA AloneBegins ==
    ASSUME Inv, Undisturbed, recovering # NoBurst, OtherBegins
    PROVE  \E r \in Run : Begun(r, "direct", None, {}, "none")
<1>1. Continue # {}
    BY DEF Inv, Recovering
<1> QED BY <1>1 DEF Undisturbed, OtherBegins

LEMMA AloneStep ==
    ASSUME Inv, Undisturbed, RecoversAlone, [Next]_vars
    PROVE  RecoversAlone'
<1> SUFFICES ASSUME recovering' # NoBurst
             PROVE  \A r \in Active' : run'[r].session \notin InSession(recovering.burst)'
    BY DEF RecoversAlone
<1>1. ASSUME recovering' = recovering, \A r \in Run : run'[r] = run[r] PROVE RecoversAlone'
    BY <1>1 DEF RecoversAlone, Active, Live, InSession
<1>2. CASE Quiet
    BY <1>2 DEF Quiet, RecoversAlone, Active, Live, InSession
<1>3. CASE BurstStarts \/ RecoveredBegins \/ Refused \/ Falls
    BY <1>3 DEF BurstStarts, RecoveredBegins, Refused, Falls, Taken
<1>4. CASE BurstRecovers
    <2>1. PICK r \in Run, burst \in SUBSET Message, z \in Session :
              Taken(burst, r, z) /\ recovering' = [run |-> r, burst |-> burst]
        BY <1>4 DEF BurstRecovers, Run
    <2>2. recovering'.burst = burst /\ run' = run
        BY <1>4, <2>1 DEF BurstRecovers
    <2> QED BY <2>1, <2>2 DEF Taken, Active, Live, InSession
<1>5. CASE OtherBegins
    <2>1. recovering' = recovering
        BY <1>5 DEF OtherBegins
    <2>2. PICK r \in Run : Begun(r, "direct", None, {}, "none")
        BY <1>5, <2>1, AloneBegins
    <2>3. None \notin InSession(recovering.burst)
        BY <2>1, Vocabulary DEF Inv, Recovering
    <2> QED BY <2>1, <2>2, <2>3 DEF Begun, RecoversAlone, Active, Live, InSession
<1>6. CASE \/ \E m \in Message : Posted(m)
           \/ \E r \in Run : Reads(r) \/ Drops(r) \/ Gives(r) \/ Accepts(r) \/ Answers(r) \/ Settles(r)
           \/ Reports \/ Drained
    BY <1>1, <1>6 DEF Posted, Reads, Drops, Gives, Accepts, Answers, Settles, Boundary, Reports, Drained, RecoversAlone
<1>7. CASE Interrupts
    <2>1. recovering' = NoBurst
        BY <1>7 DEF Interrupts, Inv, Asleep
    <2> QED BY <2>1
<1> QED BY <1>2, <1>3, <1>4, <1>5, <1>6, <1>7, StepCases DEF RecoversAlone

LEMMA OrderStep ==
    ASSUME Inv, OrderInv, [Next]_vars
    PROVE  OrderInv'
<1> SUFFICES ASSUME Undisturbed PROVE Ordered'
    BY DEF OrderInv, Undisturbed
<1>1. /\ RecoversAlone /\ Typed
      /\ \A r \in Run : \A m \in peeked[r] : delivery[m].status # "unsent"
      /\ Prefix(posted, recovering.burst, Given)
      /\ \A r \in Run : Prefix(posted, peeked[r], Given)
    BY InvTyped DEF OrderInv, Ordered
<1>2. RecoversAlone' /\ Given \subseteq Given'
    BY <1>1, AloneStep, GivenGrows
<1>3. NoBurst.burst = {} /\ \A m \in recovering.burst : m \in Message /\ delivery[m].status = "claimed"
    BY <1>1, Vocabulary DEF Inv, Recovering, ClaimedBy
<1>4. ASSUME posted' = posted, recovering' \in {recovering, NoBurst},
             \A r \in Run : peeked'[r] \in {peeked[r], {}},
             \A m \in Message : delivery'[m].status = "unsent" => delivery[m].status = "unsent"
      PROVE  Ordered'
    <2>1. Prefix(posted, recovering'.burst, Given')
        <3>1. recovering'.burst \in {recovering.burst, {}}
            BY <1>3, <1>4
        <3>2. Prefix(posted, recovering.burst, Given') /\ Prefix(posted, {}, Given')
            BY <1>1, <1>2, PrefixEmpty, PrefixGrows
        <3> QED BY <3>1, <3>2
    <2>2. \A r \in Run : Prefix(posted, peeked'[r], Given')
        BY <1>1, <1>2, <1>4, PrefixEmpty, PrefixGrows
    <2>3. \A r \in Run : \A m \in peeked'[r] : delivery'[m].status # "unsent"
        BY <1>1, <1>4 DEF Typed
    <2> QED BY <1>2, <1>4, <2>1, <2>2, <2>3 DEF Ordered
<1>5. CASE Quiet
    BY <1>4, <1>5 DEF Quiet
<1>6. CASE BurstStarts \/ RecoveredBegins \/ OtherBegins
    BY <1>4, <1>6 DEF BurstStarts, RecoveredBegins, OtherBegins, Begun, Taken
<1>7. CASE Refused
    BY <1>4, <1>7 DEF Refused
<1>8. ASSUME NEW m \in Message, Posted(m) PROVE Ordered'
    <2>1. m \notin recovering.burst /\ \A r \in Run : m \notin peeked[r]
        BY <1>1, <1>3, <1>8 DEF Posted
    <2>2. ASSUME NEW S, m \notin S, Prefix(posted, S, Given) PROVE Prefix(posted', S, Given)
        <3>1. /\ Len(posted) \in Nat /\ DOMAIN posted = 1..Len(posted) /\ DOMAIN posted' = 1..(Len(posted) + 1)
              /\ \A i \in 1..Len(posted) : posted'[i] = posted[i] /\ posted'[Len(posted) + 1] = m
            BY <1>8 DEF Posted
        <3>2. posted'[Len(posted) + 1] \notin S
            BY <1>8, <2>2 DEF Posted
        <3> QED BY <2>2, <3>1, <3>2, PrefixPosted
    <2>3. UNCHANGED <<recovering, peeked, seen>> /\ Given' = Given
        BY <1>8 DEF Posted, Given
    <2>4. Prefix(posted', recovering'.burst, Given') /\ \A r \in Run : Prefix(posted', peeked'[r], Given')
        BY <1>1, <2>1, <2>2, <2>3
    <2>5. \A r \in Run : \A n \in peeked'[r] : delivery'[n].status # "unsent"
        BY <1>1, <1>8, <2>1, <2>3 DEF Posted, Typed
    <2> QED BY <1>2, <2>4, <2>5 DEF Ordered
<1>9. CASE BurstRecovers
    <2>1. PICK r \in Run, burst \in SUBSET Message, z \in Session :
              Taken(burst, r, z) /\ recovering' = [run |-> r, burst |-> burst]
        BY <1>9 DEF BurstRecovers, Run
    <2>2. recovering'.burst = burst /\ burst = QueuedIn(z) /\ \A m \in recovering.burst : SessionOf[m] # z
        BY <1>3, <2>1 DEF Taken, QueuedIn
    <2>3. Prefix(posted, burst, Given')
        BY <1>2, <2>1, <2>2, PrefixQueued, PrefixGrows DEF Taken
    <2>4. UNCHANGED <<posted, peeked>>
        BY <1>9 DEF BurstRecovers
    <2>5. \A q \in Run : Prefix(posted, peeked[q], Given')
        BY <1>1, <1>2, PrefixGrows
    <2>6. \A q \in Run : \A m \in peeked'[q] : delivery'[m].status # "unsent"
        BY <1>1, <2>1, <2>4 DEF Taken, Typed
    <2> QED BY <1>2, <2>2, <2>3, <2>4, <2>5, <2>6 DEF Ordered
<1>10. ASSUME NEW r \in Run, Reads(r) PROVE Ordered'
    <2> DEFINE z == run[r].session
    <2>1. \A m \in recovering.burst : SessionOf[m] # z
        <3>1. r \in Active
            BY <1>10 DEF Reads, Active
        <3>2. recovering # NoBurst => z \notin InSession(recovering.burst)
            BY <1>1, <3>1 DEF RecoversAlone
        <3> QED BY <1>3, <3>2 DEF InSession
    <2>2. Prefix(posted, QueuedIn(z), Given')
        BY <1>2, <1>10, <2>1, PrefixQueued, PrefixGrows DEF Reads, Boundary
    <2>3. /\ peeked'[r] = QueuedIn(z) /\ \A q \in Run : q # r => peeked'[q] = peeked[q]
          /\ UNCHANGED <<posted, recovering, delivery>>
        BY <1>10 DEF Reads, Boundary
    <2>4. \A q \in Run : Prefix(posted, peeked'[q], Given')
        BY <1>1, <1>2, <2>2, <2>3, PrefixGrows
    <2>5. Prefix(posted, recovering.burst, Given')
        BY <1>1, <1>2, PrefixGrows
    <2>6. \A q \in Run : \A m \in peeked'[q] : delivery'[m].status # "unsent"
        BY <1>1, <2>3 DEF QueuedIn
    <2> QED BY <1>2, <2>3, <2>4, <2>5, <2>6 DEF Ordered
<1>11. ASSUME NEW r \in Run, Drops(r) \/ Gives(r) \/ Accepts(r) PROVE Ordered'
    BY <1>4, <1>11 DEF Drops, Gives, Accepts, Boundary
<1>12. ASSUME NEW r \in Run, Answers(r) \/ Settles(r) PROVE Ordered'
    BY <1>4, <1>12 DEF Answers, Settles
<1>13. CASE Falls
    BY <1>4, <1>13 DEF Falls, Taken
<1>14. CASE Interrupts \/ Reports \/ Drained
    BY <1>4, <1>14 DEF Interrupts, Reports, Drained
<1> QED BY <1>5, <1>6, <1>7, <1>8, <1>9, <1>10, <1>11, <1>12, <1>13, <1>14, StepCases

LEMMA OrderInit == Init => OrderInv
<1> SUFFICES ASSUME Init PROVE Ordered
    BY DEF OrderInv
<1>1. recovering = NoBurst /\ recovering.burst = {} /\ \A r \in Run : peeked[r] = {}
    BY Vocabulary DEF Init
<1> QED BY <1>1, PrefixEmpty DEF Ordered, RecoversAlone

LEMMA SecondRun ==
    ASSUME Inv, OrderInv, Undisturbed, [Next]_vars, NEW q \in Run, NEW r \in Run,
           q # r, run[r] = NoRun, run'[r].kind = "conversation", run[q].session = run'[r].session
    PROVE  q \notin Active
<1>1. run[r].kind # "conversation" /\ run[r].status = "absent"
    BY Vocabulary DEF NoRun, Kinds
<1>2. ASSUME NEW p, NEW kind, NEW z, NEW S, NEW task, Begun(p, kind, z, S, task)
      PROVE  p = r /\ kind = "conversation" /\ run[q].session = z
    BY <1>1, <1>2 DEF Begun
<1>3. CASE BurstStarts
    BY <1>2, <1>3 DEF BurstStarts, Taken
<1>4. CASE RecoveredBegins
    <2>1. PICK z \in Session : /\ InSession(recovering.burst) = {z}
                               /\ Begun(recovering.run, "conversation", z, recovering.burst, "waiting")
        BY <1>4 DEF RecoveredBegins
    <2> QED BY <1>2, <1>4, <2>1 DEF RecoveredBegins, OrderInv, Ordered, RecoversAlone
<1>5. CASE OtherBegins
    BY <1>2, <1>5 DEF OtherBegins
<1>6. ~Quiet
    BY <1>1 DEF Quiet
<1>7. ~Interrupts
    BY <1>1 DEF Interrupts
<1>8. run' # run
    BY <1>1
<1> QED BY <1>3, <1>4, <1>5, <1>6, <1>7, <1>8, StepCases
        DEF Posted, BurstRecovers, Refused, Reads, Drops, Gives, Accepts, Answers, Settles, Boundary, Falls, Reports,
            Drained

LEMMA Overtaking ==
    ASSUME Inv, OrderInv, Undisturbed, [Next]_vars, NEW r \in Run, NEW i \in DOMAIN posted, NEW j \in DOMAIN posted,
           i < j, SessionOf[posted[i]] = SessionOf[posted[j]], posted[j] \in seen'[r] \ seen[r]
    PROVE  \E q \in Run : posted[i] \in seen'[q]
<1>1. ASSUME NEW S, posted[j] \in S, Prefix(posted, S, Given), S \subseteq seen'[r]
      PROVE  \E q \in Run : posted[i] \in seen'[q]
    <2>1. posted[i] \in S \union Given
        BY <1>1 DEF Prefix
    <2>2. posted[i] \in S \union Given'
        BY <2>1, GivenGrows
    <2> QED BY <1>1, <2>2 DEF Given
<1>2. ASSUME NEW p, NEW kind, NEW z, NEW S, NEW task, Begun(p, kind, z, S, task)
      PROVE  posted[j] \in S /\ S = seen'[r]
    BY <1>2 DEF Begun
<1>3. CASE BurstStarts
    <2>1. PICK p \in Run, burst \in SUBSET Message, z \in Session :
              Taken(burst, p, z) /\ Begun(p, "conversation", z, burst, "waiting")
        BY <1>3 DEF BurstStarts, Run
    <2>2. burst = QueuedIn(z) /\ recovering.burst = {}
        BY <2>1, Vocabulary DEF Taken, QueuedIn
    <2>3. Prefix(posted, burst, Given)
        BY <2>1, <2>2, PrefixQueued DEF Taken
    <2> QED BY <1>1, <1>2, <2>1, <2>3
<1>4. CASE RecoveredBegins
    BY <1>1, <1>2, <1>4 DEF RecoveredBegins, OrderInv, Ordered
<1>5. CASE OtherBegins
    BY <1>2, <1>5 DEF OtherBegins
<1>6. ASSUME NEW p \in Run, Gives(p) PROVE \E q \in Run : posted[i] \in seen'[q]
    <2>1. p = r /\ posted[j] \in peeked[r] /\ peeked[r] \subseteq seen'[r]
        BY <1>6 DEF Gives
    <2> QED BY <1>1, <2>1 DEF OrderInv, Ordered
<1>7. seen' # seen
    OBVIOUS
<1> QED BY <1>3, <1>4, <1>5, <1>6, <1>7, StepCases
        DEF Quiet, Posted, BurstRecovers, Refused, Reads, Drops, Accepts, Answers, Settles, Falls, Interrupts, Reports,
            Drained

LEMMA OrderInvariance == Spec => []OrderInv
<1>1. Inv /\ OrderInv /\ [Next]_vars => OrderInv'
    BY OrderStep
<1> QED BY Invariance, OrderInit, <1>1, PTL DEF Spec

\* start_next_conversation_delivery (services.py) and docs/runs.md:315: a drain
\* starts a Run only when no other Run of the session is live or still unwinding.
\* The check may be outdated by the time the Run starts only where a drain awaits
\* recovery facts and another Agent's turn, or a continuation, may begin meanwhile.
THEOREM OneRunPerSession == Undisturbed => (Spec => NoSecondRun)
<1> SUFFICES ASSUME Undisturbed PROVE Spec => NoSecondRun
    OBVIOUS
<1>1. Inv /\ OrderInv /\ [Next]_vars =>
          [\A q, r \in Run :
              (/\ q # r /\ run[r] = NoRun /\ run'[r].kind = "conversation"
               /\ run[q].session = run'[r].session) => q \notin Active]_vars
    BY SecondRun
<1> QED BY Invariance, OrderInvariance, <1>1, PTL DEF Spec, NoSecondRun

\* next_batch, pending_messages and recover_after_restart: a model is never given
\* a message of a session while an earlier one of it has been given to none.
THEOREM OrderKept == Undisturbed => (Spec => NoOvertaking)
<1> SUFFICES ASSUME Undisturbed PROVE Spec => NoOvertaking
    OBVIOUS
<1>1. Inv /\ OrderInv /\ [Next]_vars =>
          [\A r \in Run : \A i, j \in DOMAIN posted :
              (/\ i < j /\ SessionOf[posted[i]] = SessionOf[posted[j]]
               /\ posted[j] \in seen'[r] \ seen[r])
              => \E q \in Run : posted[i] \in seen'[q]]_vars
    BY Overtaking
<1> QED BY Invariance, OrderInvariance, <1>1, PTL DEF Spec, NoOvertaking

-----------------------------------------------------------------------------
(* A message is given to one Run.                                          *)

LEMMA OneAtATimeStep ==
    ASSUME Inv, "handoff" \notin Env, Undisturbed, RecoversAlone, OneAtATime, [Next]_vars
    PROVE  OneAtATime'
<1>1. ASSUME \A r \in Run : /\ run'[r].session = run[r].session
                            /\ run'[r].executing => run[r].executing
                            /\ run'[r].status = "running" => run[r].status = "running"
      PROVE  OneAtATime'
    BY <1>1 DEF OneAtATime, Active, Live
<1>2. CASE Quiet
    BY <1>1, <1>2 DEF Quiet, Live
<1>3. CASE run' = run
    BY <1>1, <1>3
<1>4. ASSUME NEW r, NEW kind, NEW z, NEW S, NEW task, Begun(r, kind, z, S, task),
             z = None \/ \A q \in Active : run[q].session # z
      PROVE  OneAtATime'
    <2>1. \A q \in Active' : q # r => q \in Active /\ run'[q] = run[q]
        BY <1>4 DEF Begun, Active, Live
    <2>2. run'[r].session = z
        BY <1>4 DEF Begun
    <2> SUFFICES ASSUME NEW p \in Active', NEW q \in Active', p # q
                 PROVE  run'[p].session = None \/ run'[p].session # run'[q].session
        BY DEF OneAtATime
    <2>3. CASE p # r /\ q # r
        BY <2>1, <2>3 DEF OneAtATime
    <2>4. CASE p = r \/ q = r
        BY <1>4, <2>1, <2>2, <2>4
    <2> QED BY <2>3, <2>4
<1>5. CASE BurstStarts
    BY <1>4, <1>5 DEF BurstStarts, Taken
<1>6. CASE RecoveredBegins
    <2>1. PICK z \in Session : /\ InSession(recovering.burst) = {z}
                               /\ Begun(recovering.run, "conversation", z, recovering.burst, "waiting")
        BY <1>6 DEF RecoveredBegins
    <2> QED BY <1>4, <1>6, <2>1 DEF RecoveredBegins, RecoversAlone
<1>7. CASE OtherBegins
    BY <1>4, <1>7 DEF OtherBegins
<1>8. CASE Interrupts
    BY <1>1, <1>8 DEF Interrupts, Live
<1> QED BY <1>2, <1>3, <1>5, <1>6, <1>7, <1>8, StepCases
        DEF Posted, BurstRecovers, Refused, Reads, Drops, Gives, Accepts, Answers, Settles, Boundary, Falls, Reports,
            Drained

LEMMA ReadStep ==
    ASSUME Inv, OneAtATime, ReadQueued, [Next]_vars
    PROVE  ReadQueued'
<1>1. /\ Typed /\ \A q \in Run : peeked[q] \subseteq Message
      /\ \A q \in Run : run[q].status = "absent" => peeked[q] = {}
    BY InvTyped DEF Typed, Inv, Unbegun
<1> USE DEF ReadQueued
<1>2. CASE Quiet
    BY <1>2 DEF Quiet
<1>3. ASSUME NEW m \in Message, Posted(m) PROVE ReadQueued'
    BY <1>1, <1>3 DEF Posted
<1>4. ASSUME NEW r \in Run, NEW burst \in SUBSET Message, NEW z \in Session, Taken(burst, r, z)
      PROVE  \A q \in Run : \A m \in peeked[q] : delivery'[m] = delivery[m]
    <2>1. ASSUME NEW q \in Run, NEW m \in peeked[q] PROVE m \notin burst
        BY <1>1, <1>4 DEF Taken, Active
    <2> QED BY <1>1, <1>4, <2>1 DEF Taken
<1>5. ASSUME NEW r, NEW kind, NEW z, NEW S, NEW task, Begun(r, kind, z, S, task)
      PROVE  \A q \in Run : peeked'[q] # {} => run'[q] = run[q] /\ peeked'[q] = peeked[q]
    BY <1>1, <1>5 DEF Begun
<1>6. CASE BurstStarts
    <2>1. \A q \in Run : \A m \in peeked[q] : delivery'[m] = delivery[m]
        BY <1>4, <1>6 DEF BurstStarts, Run
    <2>2. \A q \in Run : peeked'[q] # {} => run'[q] = run[q] /\ peeked'[q] = peeked[q]
        BY <1>5, <1>6 DEF BurstStarts
    <2> QED BY <2>1, <2>2
<1>7. CASE BurstRecovers
    <2>1. \A q \in Run : \A m \in peeked[q] : delivery'[m] = delivery[m]
        BY <1>4, <1>7 DEF BurstRecovers, Run
    <2> QED BY <1>7, <2>1 DEF BurstRecovers
<1>8. CASE RecoveredBegins \/ OtherBegins
    <2>1. delivery' = delivery
        BY <1>8 DEF RecoveredBegins, OtherBegins
    <2>2. \A q \in Run : peeked'[q] # {} => run'[q] = run[q] /\ peeked'[q] = peeked[q]
        BY <1>5, <1>8 DEF RecoveredBegins, OtherBegins
    <2> QED BY <2>1, <2>2
<1>9. CASE Refused
    BY <1>1, <1>9 DEF Refused
<1>10. ASSUME NEW r \in Run, Reads(r) PROVE ReadQueued'
    BY <1>10 DEF Reads, Boundary, QueuedIn
<1>11. ASSUME NEW r \in Run, Drops(r) PROVE ReadQueued'
    BY <1>11 DEF Drops, Boundary
<1>12. ASSUME NEW r \in Run, Accepts(r) PROVE ReadQueued'
    <2>1. ASSUME NEW q \in Run, q # r, NEW m \in peeked[q] PROVE m \notin peeked[r]
        <3>1. ASSUME m \in peeked[r] PROVE FALSE
            <4>1. q \in Active /\ r \in Active /\ SessionOf[m] = run[q].session /\ SessionOf[m] = run[r].session
                BY <3>1 DEF Active
            <4>2. SessionOf[m] # None
                BY <1>1, DeliveryConstants, Vocabulary
            <4> QED BY <2>1, <4>1, <4>2 DEF OneAtATime
        <3> QED BY <3>1
    <2>2. ASSUME NEW q \in Run, NEW m \in peeked'[q]
          PROVE  q # r /\ m \in peeked[q] /\ delivery'[m] = delivery[m]
        BY <1>1, <1>12, <2>1 DEF Accepts, Boundary
    <2> QED BY <1>12, <2>2 DEF Accepts, Boundary
<1>13. ASSUME NEW r \in Run, Answers(r) \/ Gives(r) PROVE ReadQueued'
    BY <1>13 DEF Answers, Gives
<1>14. ASSUME NEW r \in Run, Settles(r) PROVE ReadQueued'
    BY <1>1, <1>14 DEF Settles
<1>15. CASE Falls
    BY <1>15 DEF Falls
<1>16. CASE Interrupts \/ Reports \/ Drained
    <2>1. \A r \in Run : peeked'[r] = {}
        BY <1>16 DEF Interrupts, Reports, Drained, Up, Inv, Asleep
    <2> QED BY <2>1
<1> QED BY <1>2, <1>3, <1>6, <1>7, <1>8, <1>9, <1>10, <1>11, <1>12, <1>13, <1>14, <1>15, <1>16, StepCases

LEMMA ClaimedStep ==
    ASSUME Inv, TakenIsClaimed, [Next]_vars
    PROVE  TakenIsClaimed'
<1>1. /\ Typed /\ \A q \in Run : taken[q] \subseteq Message
      /\ \A q \in Run : run[q].status = "absent" => taken[q] = {}
    BY InvTyped DEF Typed, Inv, Unbegun
<1> USE DEF TakenIsClaimed
<1>2. CASE Quiet
    BY <1>2 DEF Quiet, Live
<1>3. ASSUME NEW m \in Message, Posted(m) PROVE TakenIsClaimed'
    BY <1>1, <1>3 DEF Posted
<1>4. ASSUME NEW r \in Run, NEW burst \in SUBSET Message, NEW z \in Session, Taken(burst, r, z)
      PROVE  \A q \in Run : \A m \in taken[q] : run[q].status # "interrupted" => delivery'[m] = delivery[m]
    BY <1>1, <1>4 DEF Taken
<1>5. ASSUME NEW r, NEW kind, NEW z, NEW S, NEW task, Begun(r, kind, z, S, task)
      PROVE  \A q \in Run : \A m \in taken'[q] :
                 \/ q # r /\ m \in taken[q] /\ run'[q].status = run[q].status
                 \/ q = r /\ m \in S
    BY <1>5 DEF Begun
<1>6. CASE BurstStarts
    <2>1. PICK r \in Run, burst \in SUBSET Message, z \in Session :
              Taken(burst, r, z) /\ Begun(r, "conversation", z, burst, "waiting")
        BY <1>6 DEF BurstStarts, Run
    <2>2. \A m \in burst : delivery'[m].status = "claimed" /\ delivery'[m].run = r
        BY <2>1 DEF Taken
    <2>3. \A q \in Run : \A m \in taken[q] : run[q].status # "interrupted" => delivery'[m] = delivery[m]
        BY <1>4, <2>1
    <2>4. \A q \in Run : \A m \in taken'[q] : IF q = r THEN m \in burst
                                             ELSE m \in taken[q] /\ run'[q].status = run[q].status
        BY <2>1 DEF Begun
    <2> QED BY <2>2, <2>3, <2>4
<1>7. CASE BurstRecovers
    <2>1. \A q \in Run : \A m \in taken[q] : run[q].status # "interrupted" => delivery'[m] = delivery[m]
        BY <1>4, <1>7 DEF BurstRecovers, Run
    <2> QED BY <1>7, <2>1 DEF BurstRecovers
<1>8. CASE RecoveredBegins
    <2>1. Begun(recovering.run, "conversation", run'[recovering.run].session, recovering.burst, "waiting")
        BY <1>8 DEF RecoveredBegins, Begun
    <2> QED BY <1>5, <1>8, <2>1 DEF RecoveredBegins
<1>9. CASE OtherBegins
    <2>1. PICK r, kind, z, task : Begun(r, kind, z, {}, task)
        BY <1>9 DEF OtherBegins
    <2> QED BY <1>5, <1>9, <2>1 DEF OtherBegins
<1>10. CASE Refused
    BY <1>1, <1>10 DEF Refused
<1>11. ASSUME NEW r \in Run, Reads(r) \/ Drops(r) PROVE TakenIsClaimed'
    BY <1>11 DEF Reads, Drops, Boundary
<1>12. ASSUME NEW r \in Run, Accepts(r) PROVE TakenIsClaimed'
    <2>1. ASSUME NEW q \in Run, NEW m \in taken[q], run[q].status # "interrupted"
          PROVE  delivery'[m] = delivery[m]
        BY <1>1, <1>12, <2>1 DEF Accepts
    <2>2. \A m \in peeked[r] : delivery[m].status = "queued" =>
              delivery'[m].status = "claimed" /\ delivery'[m].run = r
        BY <1>1, <1>12 DEF Accepts, Typed
    <2> QED BY <1>12, <2>1, <2>2 DEF Accepts, Boundary
<1>13. ASSUME NEW r \in Run, Answers(r) \/ Gives(r) PROVE TakenIsClaimed'
    BY <1>13 DEF Answers, Gives
<1>14. ASSUME NEW r \in Run, Settles(r) PROVE TakenIsClaimed'
    BY <1>1, <1>14 DEF Settles
<1>15. CASE Falls
    <2>1. \A q \in Run : \A m \in taken[q] : run[q].status # "interrupted" => delivery'[m] = delivery[m]
        BY <1>4, <1>15 DEF Falls
    <2> QED BY <1>15, <2>1 DEF Falls
<1>16. CASE Interrupts
    BY <1>16 DEF Interrupts
<1>17. CASE Reports
    BY <1>17 DEF Reports
<1>18. CASE Drained
    BY <1>1, <1>18 DEF Drained
<1> QED BY <1>2, <1>3, <1>6, <1>7, <1>8, <1>9, <1>10, <1>11, <1>12, <1>13, <1>14, <1>15, <1>16, <1>17, <1>18, StepCases

\* What a Run begins with, or is given at a boundary, no other Run has taken.
LEMMA GivenStep ==
    ASSUME Inv, ReadQueued, TakenIsClaimed, [Next]_vars,
           NEW m \in Message, NEW q \in Run, NEW r \in Run,
           q # r, m \in taken[q], m \in seen'[r] \ seen[r]
    PROVE  run[q].status = "interrupted"
<1> SUFFICES ASSUME delivery[m].status \in {"claimed", "done"}, delivery[m].run = q PROVE FALSE
    BY DEF TakenIsClaimed
<1>1. ASSUME NEW p, NEW kind, NEW z, NEW S, NEW task, Begun(p, kind, z, S, task)
      PROVE  p = r /\ m \in S
    BY <1>1 DEF Begun
<1>2. CASE BurstStarts
    BY <1>1, <1>2 DEF BurstStarts, Taken
<1>3. CASE RecoveredBegins
    BY <1>1, <1>3 DEF RecoveredBegins
<1>4. CASE OtherBegins
    BY <1>1, <1>4 DEF OtherBegins
<1>5. ASSUME NEW p \in Run, Gives(p) PROVE FALSE
    BY <1>5 DEF Gives, ReadQueued
<1>6. seen' # seen
    OBVIOUS
<1> QED BY <1>2, <1>3, <1>4, <1>5, <1>6, StepCases
        DEF Quiet, Posted, BurstRecovers, Refused, Reads, Drops, Accepts, Answers, Settles, Falls, Interrupts, Reports,
            Drained

\* pending_messages, acknowledge_conversation_input and the claims of a drain: what
\* a Run has taken into its delivery_message_ids is given to the model of no other
\* Run, unless a restart has interrupted the one that took it.  A message that was
\* given, but whose acknowledgement came too late, has been taken by nobody.
THEOREM GivenToOne == "handoff" \notin Env /\ Undisturbed => (Spec => GivenOnce)
<1> SUFFICES ASSUME "handoff" \notin Env, Undisturbed PROVE Spec => GivenOnce
    OBVIOUS
<1>1. Init => Singular
    BY DEF Init, Singular, OneAtATime, ReadQueued, TakenIsClaimed, Active, Live, NoRun
<1>2. Inv /\ OrderInv /\ Singular /\ [Next]_vars => Singular'
    BY OneAtATimeStep, ReadStep, ClaimedStep DEF Singular, OrderInv, Ordered
<1>3. Inv /\ Singular /\ [Next]_vars =>
          [\A m \in Message : \A q, r \in Run :
              (q # r /\ m \in taken[q] /\ m \in seen'[r] \ seen[r])
              => run[q].status = "interrupted"]_vars
    BY GivenStep DEF Singular
<1> QED BY Invariance, OrderInvariance, <1>1, <1>2, <1>3, PTL DEF Spec, GivenOnce

-----------------------------------------------------------------------------
(* What is consumed has been answered for.                                 *)

LEMMA AnswerStep ==
    ASSUME Inv, "revoke" \notin Env, Answered, [Next]_vars
    PROVE  Answered'
<1>1. /\ Typed /\ \A r \in Run : outcome[r] \in Nat
      /\ \A m \in Message : delivery[m].status \in {"claimed", "done"} => delivery[m].run \in Run
      /\ \A m \in Message : delivery[m].status = "done" => run[delivery[m].run].status # "absent"
      /\ \A r \in Run : run[r].status = "absent" => seen[r] = {} /\ peeked[r] = {} /\ persist[r] = "none"
    BY InvTyped DEF Typed, RowType, Inv, Unbegun, ConsumedWasGiven
<1> USE DEF Answered, AnswerVisible
<1>2. CASE Quiet
    <2>1. \A r \in Run : run'[r].status = "absent" <=> run[r].status = "absent"
        BY <1>2 DEF Quiet, Live
    <2> QED BY <1>1, <1>2, <2>1 DEF Quiet
<1>3. ASSUME NEW m \in Message, Posted(m) PROVE Answered'
    BY <1>1, <1>3 DEF Posted
<1>4. ASSUME NEW r, NEW kind \in Kinds, NEW z, NEW S, NEW task \in {"none", "waiting"},
             Begun(r, kind, z, S, task), kind = "direct" => z = None /\ S = {},
             \A m \in Message : delivery'[m].status = "done" => delivery'[m] = delivery[m]
      PROVE  Answered'
    <2>1. ASSUME NEW q \in Run
          PROVE  /\ run'[q].status # "absent" => run'[q].kind \in Kinds
                 /\ run'[q].kind = "direct" => run'[q].session = None
                 /\ seen'[q] # {} \/ peeked'[q] # {} => run'[q].kind # "direct"
                 /\ persist'[q] = "posted" => outcome'[q] > 0
        BY <1>1, <1>4 DEF Begun
    <2>2. host'.up = "up" /\ host'.connected
        BY <1>4 DEF Begun, Up
    <2>3. ASSUME NEW m \in Message, delivery'[m].status = "done", run'[delivery'[m].run].kind # "handoff"
          PROVE  outcome'[delivery'[m].run] > 0
        <3>1. delivery'[m] = delivery[m] /\ delivery[m].run \in Run /\ delivery[m].run # r
            BY <1>1, <1>4, <2>3 DEF Begun
        <3> QED BY <1>1, <1>4, <2>3, <3>1 DEF Begun
    <2> QED BY <2>1, <2>2, <2>3
<1>5. {"conversation", "direct", "handoff", "continuation"} \subseteq Kinds
    BY DEF Kinds
<1>6. CASE BurstStarts
    <2>1. PICK r \in Run, burst \in SUBSET Message, z \in Session :
              Taken(burst, r, z) /\ Begun(r, "conversation", z, burst, "waiting")
        BY <1>6 DEF BurstStarts, Run
    <2>2. \A m \in Message : delivery'[m].status = "done" => delivery'[m] = delivery[m]
        BY <2>1 DEF Taken
    <2> QED BY <1>4, <1>5, <2>1, <2>2
<1>7. CASE BurstRecovers
    <2>1. UNCHANGED <<run, seen, peeked, persist, outcome, host>>
        BY <1>7 DEF BurstRecovers
    <2>2. \A m \in Message : delivery'[m].status = "done" => delivery'[m] = delivery[m]
        BY <1>7 DEF BurstRecovers, Taken
    <2> QED BY <1>1, <2>1, <2>2
<1>8. CASE RecoveredBegins
    BY <1>4, <1>5, <1>8 DEF RecoveredBegins
<1>9. CASE OtherBegins
    BY <1>4, <1>5, <1>9 DEF OtherBegins
<1>10. CASE Refused
    BY <1>1, <1>10 DEF Refused
<1>11. ASSUME NEW r \in Run, Reads(r) PROVE Answered'
    BY <1>1, <1>11 DEF Reads, Boundary
<1>12. ASSUME NEW r \in Run, Drops(r) PROVE Answered'
    BY <1>1, <1>12 DEF Drops, Boundary
<1>13. ASSUME NEW r \in Run, Gives(r) \/ Accepts(r) PROVE Answered'
    <2>1. \A m \in Message : delivery'[m].status = "done" => delivery'[m] = delivery[m]
        BY <1>13 DEF Gives, Accepts
    <2>2. \A q \in Run : seen'[q] # {} \/ peeked'[q] # {} => seen[q] # {} \/ peeked[q] # {}
        BY <1>13 DEF Gives, Accepts, Boundary
    <2>3. UNCHANGED <<run, persist, outcome, host>>
        BY <1>13 DEF Gives, Accepts, Boundary
    <2> QED BY <1>1, <2>1, <2>2, <2>3
<1>14. ASSUME NEW r \in Run, Answers(r) PROVE Answered'
    <2>1. UNCHANGED <<delivery, run, seen, peeked, host>>
        BY <1>14 DEF Answers
    <2>2. \A q \in Run : /\ outcome[q] > 0 => outcome'[q] > 0
                         /\ persist'[q] = "posted" => outcome'[q] > 0
        BY <1>1, <1>14 DEF Answers
    <2> QED BY <1>1, <2>1, <2>2
<1>15. ASSUME NEW r \in Run, Settles(r) PROVE Answered'
    <2>1. UNCHANGED <<run, seen, peeked, outcome, host>> /\ \A q \in Run : persist'[q] = "posted" => persist[q] = "posted"
        BY <1>15 DEF Settles
    <2>2. \A m \in Message : delivery'[m].status = "done" =>
              delivery'[m] = delivery[m] \/ (delivery'[m].run = r /\ outcome[r] > 0)
        BY <1>15 DEF Settles
    <2> QED BY <1>1, <2>1, <2>2
<1>16. CASE Falls
    <2>1. /\ host'.up = "down" /\ host'.connected /\ UNCHANGED <<run, seen, outcome>>
          /\ \A r \in Run : peeked'[r] = {} /\ persist'[r] = "none"
        BY <1>16 DEF Falls
    <2>2. \A m \in Message : delivery'[m].status = "done" => delivery'[m] = delivery[m]
        BY <1>16 DEF Falls, Taken
    <2> QED BY <1>1, <2>1, <2>2
<1>17. CASE Interrupts
    <2>1. \A r \in Run : run'[r].status = "absent" <=> run[r].status = "absent"
        BY <1>17 DEF Interrupts, Live
    <2> QED BY <1>1, <1>17, <2>1 DEF Interrupts
<1>18. CASE Reports
    <2>1. \A r \in Run : run[r].status # "absent" => Ended(r)
        BY <1>1, <1>18 DEF Reports, Inv, Asleep, Up, Typed, RunType, Live, Ended
    <2>2. \A r \in Run : outcome[r] > 0 => outcome'[r] > 0
        BY <1>1, <1>18 DEF Reports
    <2> QED BY <1>1, <1>18, <2>1, <2>2 DEF Reports
<1>19. CASE Drained
    <2>1. /\ host'.up = "up" /\ host'.connected /\ UNCHANGED <<run, seen, peeked, persist, outcome>>
          /\ host.up = "reported"
        BY <1>19 DEF Drained, Up
    <2>2. ASSUME NEW m \in Message, delivery'[m].status = "done", run[delivery'[m].run].kind # "handoff"
          PROVE  outcome[delivery'[m].run] > 0
        <3>1. CASE delivery'[m] = delivery[m]
            BY <2>2, <3>1
        <3>2. CASE delivery'[m] # delivery[m]
            <4>1. /\ delivery'[m].run = delivery[m].run /\ delivery[m].run \in Run
                  /\ run[delivery[m].run].status \in {"succeeded", "failed", "cancelled"} /\ m \in seen[delivery[m].run]
                BY <1>19, <2>2, <3>2 DEF Drained
            <4>2. run[delivery[m].run].kind \in {"conversation", "continuation"}
                BY <2>2, <4>1 DEF Kinds
            <4> QED BY <2>1, <4>1, <4>2
        <3> QED BY <3>1, <3>2
    <2> QED BY <2>1, <2>2
<1> QED BY <1>2, <1>3, <1>6, <1>7, <1>8, <1>9, <1>10, <1>11, <1>12, <1>13, <1>14, <1>15, <1>16, <1>17, <1>18, <1>19,
           StepCases

\* services.py:3376-3381: as long as the Agent stays connected, a message the ledger
\* has consumed has an answer or a notice in the transcript, whatever stop, crash
\* or restart came between the two.  A disconnected Agent may not post its answer,
\* and the other Agent that requested a turn is given its result directly.
THEOREM ConsumedIsAnswered == "revoke" \notin Env => (Spec => []AnswerVisible)
<1> SUFFICES ASSUME "revoke" \notin Env PROVE Spec => []AnswerVisible
    OBVIOUS
<1>1. Init => Answered
    <2> SUFFICES ASSUME Init PROVE Answered
        OBVIOUS
    <2>1. /\ \A r \in Run : /\ run[r].status = "absent" /\ run[r].kind = None /\ run[r].session = None
                            /\ seen[r] = {} /\ peeked[r] = {} /\ persist[r] = "none"
          /\ host.connected /\ host.up = "up" /\ \A m \in Message : delivery[m].status = "unsent"
        BY DEF Init, NoRun
    <2> QED BY <2>1 DEF Answered, AnswerVisible
<1>2. Inv /\ Answered /\ [Next]_vars => Answered'
    BY AnswerStep
<1>3. Answered => AnswerVisible
    BY DEF Answered
<1> QED BY Invariance, <1>1, <1>2, <1>3, PTL DEF Spec
=============================================================================
