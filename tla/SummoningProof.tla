--------------------------- MODULE SummoningProof ---------------------------
(* A teardown of a summoned instance is sound for any number of instances, *)
(* Runs, teardowns and crashes.                                            *)
EXTENDS Summoning, WellFoundedInduction, TLAPS

USE SummoningConstants DEF Instance, Run

LEMMA LeastNumber ==
    ASSUME NEW T \in SUBSET Nat, T # {}
    PROVE  \E i \in T : \A j \in T : i <= j
<1>1. \E x \in T : \A y \in T : ~(<<y, x>> \in OpToRel(<, Nat))
    BY NatLessThanWellFounded, WFMin
<1>2. \A x, y \in Nat : ~(<<y, x>> \in OpToRel(<, Nat)) => x <= y
    BY DEF OpToRel
<1> QED BY <1>1, <1>2

LEMMA Empty == \A S : <<>> \in [{} -> S]
OBVIOUS

-----------------------------------------------------------------------------
(* The family of an instance.                                              *)

\* What the walk over the rows adds at row n to those found before it.
Found(before, n) ==
    IF record[n].made /\ record[n].parent \in before THEN before \union {n} ELSE before

\* The walk up to row k.
Walk(i, k, g) ==
    /\ g \in [0..k -> SUBSET Instance]
    /\ g[0] = {i}
    /\ \A n \in 1..k : g[n] = Found(g[n - 1], n)

LEMMA WalkExists ==
    ASSUME NEW i \in Instance
    PROVE  \E g : Walk(i, MaxInstances, g)
<1> DEFINE T == {k \in 0..MaxInstances : ~\E g : Walk(i, k, g)}
<1> SUFFICES ASSUME T # {} PROVE FALSE
    OBVIOUS
<1>1. PICK k \in T : \A j \in T : k <= j
    <2>1. T \in SUBSET Nat OBVIOUS
    <2> HIDE DEF T
    <2> QED BY <2>1, LeastNumber
<1>2. k # 0
    <2>1. Walk(i, 0, [n \in 0..0 |-> {i}]) BY DEF Walk
    <2> QED BY <1>1, <2>1
<1>3. k \in 1..MaxInstances /\ k - 1 \in 0..MaxInstances /\ k - 1 \notin T
    BY <1>1, <1>2
<1>4. PICK g : Walk(i, k - 1, g)
    BY <1>3
<1> DEFINE h == [n \in 0..k |-> IF n = k THEN Found(g[k - 1], k) ELSE g[n]]
<1>5. h \in [0..k -> SUBSET Instance]
    BY <1>3, <1>4 DEF Walk, Found
<1>6. h[0] = {i}
    BY <1>3, <1>4 DEF Walk
<1>7. \A n \in 1..k : h[n] = Found(h[n - 1], n)
    <2> SUFFICES ASSUME NEW n \in 1..k PROVE h[n] = Found(h[n - 1], n)
        OBVIOUS
    <2>1. h[n - 1] = g[n - 1] BY <1>3
    <2>2. CASE n = k BY <1>3, <2>1, <2>2
    <2>3. CASE n # k
        <3>1. n \in 1..(k - 1) BY <1>3, <2>3
        <3>2. h[n] = g[n] BY <2>3
        <3> QED BY <1>4, <2>1, <3>1, <3>2 DEF Walk
    <2> QED BY <2>2, <2>3
<1>8. Walk(i, k, h) BY <1>5, <1>6, <1>7 DEF Walk
<1> QED BY <1>1, <1>8

LEMMA FamilyIsWalk ==
    ASSUME NEW i \in Instance
    PROVE  \E g : Walk(i, MaxInstances, g) /\ Family(i) = g[MaxInstances]
<1> DEFINE Row(g, n) == IF n = 0 THEN {i}
                        ELSE IF record[n].made /\ record[n].parent \in g[n - 1]
                             THEN g[n - 1] \union {n} ELSE g[n - 1]
           Below[n \in 0..MaxInstances] ==
               IF n = 0 THEN {i}
               ELSE IF record[n].made /\ record[n].parent \in Below[n - 1]
                    THEN Below[n - 1] \union {n} ELSE Below[n - 1]
<1>1. PICK g : Walk(i, MaxInstances, g) BY WalkExists
<1>2. g = [n \in 0..MaxInstances |-> Row(g, n)]
    <2>1. ASSUME NEW n \in 0..MaxInstances PROVE g[n] = Row(g, n)
        <3>1. CASE n = 0 BY <1>1, <3>1 DEF Walk
        <3>2. CASE n # 0
            <4>1. n \in 1..MaxInstances BY <3>2
            <4> QED BY <1>1, <3>2, <4>1 DEF Walk, Found
        <3> QED BY <3>1, <3>2
    <2>2. g \in [0..MaxInstances -> SUBSET Instance] BY <1>1 DEF Walk
    <2> HIDE DEF Row
    <2> QED BY <2>1, <2>2
<1>3. Below = [n \in 0..MaxInstances |-> Row(Below, n)]
    BY <1>2
<1>4. Family(i) = Below[MaxInstances] BY DEF Family
<1> HIDE DEF Below
<1>5. /\ Below[0] = {i}
      /\ \A n \in 1..MaxInstances : Below[n] = Found(Below[n - 1], n)
    <2>1. ASSUME NEW n \in 0..MaxInstances PROVE Below[n] = Row(Below, n)
        <3> HIDE DEF Row
        <3> QED BY <1>3
    <2>2. Below[0] = {i}
        <3>1. 0 \in 0..MaxInstances OBVIOUS
        <3>2. Below[0] = Row(Below, 0)
            <4> HIDE DEF Row
            <4> QED BY <2>1, <3>1
        <3> QED BY <3>2
    <2>3. ASSUME NEW n \in 1..MaxInstances PROVE Below[n] = Found(Below[n - 1], n)
        <3>1. Below[n] = Row(Below, n) /\ n # 0 BY <2>1
        <3> QED BY <3>1 DEF Found
    <2> QED BY <2>2, <2>3
<1>6. \A k \in 0..MaxInstances : Below[k] \in SUBSET Instance
    <2> DEFINE T == {k \in 0..MaxInstances : Below[k] \notin SUBSET Instance}
    <2> SUFFICES ASSUME T # {} PROVE FALSE
        OBVIOUS
    <2>1. PICK k \in T : \A j \in T : k <= j
        <3>1. T \in SUBSET Nat OBVIOUS
        <3> HIDE DEF T
        <3> QED BY <3>1, LeastNumber
    <2>2. k # 0 BY <1>5, <2>1
    <2>3. k \in 1..MaxInstances /\ k - 1 \in 0..MaxInstances /\ k - 1 \notin T
        BY <2>1, <2>2
    <2>4. Below[k] = Found(Below[k - 1], k) BY <1>5, <2>3
    <2>5. Below[k - 1] \in SUBSET Instance BY <2>3
    <2>6. Found(Below[k - 1], k) \in SUBSET Instance BY <2>3, <2>5 DEF Found
    <2> QED BY <2>1, <2>4, <2>6
<1>7. Walk(i, MaxInstances, Below)
    <2>1. Below \in [0..MaxInstances -> SUBSET Instance] BY <1>3, <1>6
    <2> QED BY <1>5, <2>1 DEF Walk
<1> QED BY <1>4, <1>7

\* The family: the instance itself and made instances only; and whatever was
\* summoned below a member belongs to it, for a parent's row comes before.
LEMMA FamilyFacts ==
    ASSUME NEW i \in Instance
    PROVE  /\ Family(i) \in SUBSET Instance /\ i \in Family(i)
           /\ \A m \in Family(i) : m = i \/ record[m].made
           /\ \A m \in Instance :
                  record[m].made /\ record[m].parent \in Family(i) /\ record[m].parent < m
                      => m \in Family(i)
<1>1. PICK g : Walk(i, MaxInstances, g) /\ Family(i) = g[MaxInstances] BY FamilyIsWalk
<1> DEFINE Good(k) == /\ i \in g[k]
                      /\ \A m \in g[k] : m = i \/ record[m].made
                      /\ \A n \in 0..k : g[n] \subseteq g[k] /\ \A m \in g[k] : m \in g[n] \/ n < m
           T == {k \in 0..MaxInstances : ~Good(k)}
<1>2. T = {}
    <2> SUFFICES ASSUME T # {} PROVE FALSE
        OBVIOUS
    <2>1. PICK k \in T : \A j \in T : k <= j
        <3>1. T \in SUBSET Nat OBVIOUS
        <3> HIDE DEF T
        <3> QED BY <3>1, LeastNumber
    <2>2. k # 0
        <3>1. g[0] = {i} BY <1>1 DEF Walk
        <3>2. \A n \in 0..0 : n = 0 OBVIOUS
        <3>3. Good(0) BY <3>1, <3>2
        <3> QED BY <2>1, <3>3
    <2>3. k \in 1..MaxInstances /\ k - 1 \in 0..MaxInstances
        BY <2>1, <2>2
    <2>4. Good(k - 1) BY <2>1, <2>3
    <2>5. /\ g[k] = Found(g[k - 1], k)
          /\ g[k - 1] \in SUBSET Instance
        BY <1>1, <2>3 DEF Walk
    <2>6. g[k] = g[k - 1] \/ (g[k] = g[k - 1] \union {k} /\ record[k].made)
        BY <2>5 DEF Found
    <2>7. \A n \in 0..k : g[n] \subseteq g[k] /\ \A m \in g[k] : m \in g[n] \/ n < m
        <3> SUFFICES ASSUME NEW n \in 0..k
                     PROVE  g[n] \subseteq g[k] /\ \A m \in g[k] : m \in g[n] \/ n < m
            OBVIOUS
        <3>1. CASE n = k BY <3>1
        <3>2. CASE n # k
            <4>1. n \in 0..(k - 1) /\ n < k BY <2>3, <3>2
            <4>2. g[n] \subseteq g[k - 1] /\ \A m \in g[k - 1] : m \in g[n] \/ n < m
                BY <2>4, <4>1
            <4> QED BY <2>6, <4>1, <4>2
        <3> QED BY <3>1, <3>2
    <2>8. i \in g[k] /\ \A m \in g[k] : m = i \/ record[m].made
        BY <2>4, <2>6
    <2> QED BY <2>1, <2>7, <2>8
<1>3. \A k \in 0..MaxInstances : Good(k) BY <1>2
<1>4. Good(MaxInstances) BY <1>3
<1>5. g[MaxInstances] \in SUBSET Instance BY <1>1 DEF Walk
<1>6. ASSUME NEW m \in Instance, record[m].made, record[m].parent \in g[MaxInstances],
             record[m].parent < m
      PROVE  m \in g[MaxInstances]
    <2>1. m - 1 \in 0..MaxInstances /\ m \in 0..MaxInstances /\ m \in 1..MaxInstances OBVIOUS
    <2>2. record[m].parent \in Instance BY <1>5, <1>6
    <2>3. record[m].parent \in g[m - 1] BY <1>4, <1>6, <2>1, <2>2
    <2>4. g[m] = g[m - 1] \union {m} BY <1>1, <1>6, <2>1, <2>3 DEF Walk, Found
    <2>5. g[m] \subseteq g[MaxInstances] BY <1>4, <2>1
    <2> QED BY <2>4, <2>5
<1> HIDE DEF Good
<1>7. i \in g[MaxInstances] /\ \A m \in g[MaxInstances] : m = i \/ record[m].made
    BY <1>4 DEF Good
<1> QED BY <1>1, <1>5, <1>6, <1>7
-----------------------------------------------------------------------------
(* Types.                                                                  *)

RunRecord == [status : {"absent", "live", "ended", "settled"}, on : 0..MaxInstances, by : 0..MaxRuns]
Copies == UNION {[F -> Record] : F \in SUBSET Instance}
CallRecord == [phase : {"idle", "wait", "cancel", "deleted"}, action : {"stop", "reclaim"},
               family : SUBSET Instance, copy : Copies, left : SUBSET Run,
               agents : SUBSET Instance, swept : BOOLEAN]

\* A call that waits knows its own instance, and has nothing to join yet.
Empties(i) == call[i].family = {i} /\ call[i].left = {} /\ call[i].agents = {}

\* The rows of the calls and of the sweep are whole, an idle call is empty, and a
\* call of the sweep is about a record that the sweep still has.
Typed ==
    /\ TypeOK
    /\ call \in [Instance -> CallRecord]
    /\ sweep \in [DOMAIN sweep -> Record]
    /\ \A i \in Instance : /\ call[i].phase = "idle" => call[i] = NoCall
                           /\ call[i].phase = "wait" => Empties(i)
                           /\ call[i].swept => i \in DOMAIN sweep

LEMMA NoCallType ==
    /\ NoCall \in CallRecord /\ NoCall.copy \in [NoCall.family -> Record]
    /\ NoCall.phase = "idle" /\ NoCall.family = {} /\ NoCall.left = {} /\ NoCall.agents = {}
    /\ ~NoCall.swept
<1>1. <<>> \in [{} -> Record] BY Empty
<1>2. <<>> \in Copies BY <1>1 DEF Copies
<1> QED BY <1>1, <1>2 DEF NoCall, CallRecord

LEMMA TypedInit == Init => Typed
<1> SUFFICES ASSUME Init PROVE Typed
    OBVIOUS
<1>1. record \in [Instance -> Record] BY DEF Init, NoRecord, Record
<1>2. run \in [Run -> RunRecord] BY DEF Init, NoRun, RunRecord
<1>3. admission \in [inst : 0..MaxInstances, caller : 0..MaxRuns] BY DEF Init, Free
<1>4. call \in [Instance -> CallRecord] /\ \A i \in Instance : call[i] = NoCall
    BY NoCallType DEF Init
<1>5. DOMAIN sweep = {} /\ sweep \in [DOMAIN sweep -> Record]
    BY Empty DEF Init
<1>6. nodes \in [Instance -> {"absent", "placed", "debt", "gone"}]
    BY DEF Init
<1>7. host \in [up : BOOLEAN, crashes : 0..MaxCrashes, teardowns : 0..MaxTeardowns]
    BY DEF Init
<1>8. \A i \in Instance :
        /\ call[i].phase \in {"idle", "wait", "cancel", "deleted"}
        /\ call[i].family \subseteq Instance /\ call[i].left \subseteq Run
        /\ call[i].agents \subseteq call[i].family
        /\ call[i].copy \in [call[i].family -> Record]
    BY <1>4, NoCallType
<1>9. \A i \in Instance : /\ call[i].phase = "wait" => Empties(i)
                          /\ call[i].swept => i \in DOMAIN sweep
    <2>1. NoCall.phase # "wait" BY NoCallType
    <2> QED BY <1>4, <2>1, NoCallType
<1>10. TypeOK BY <1>1, <1>2, <1>3, <1>5, <1>6, <1>7, <1>8 DEF TypeOK, RunRecord
<1> QED BY <1>4, <1>5, <1>9, <1>10 DEF Typed

\* What a step owes to the rest of the types once its own state is typed.
LEMMA TypedCalls ==
    ASSUME Typed, call' = call, sweep' = sweep,
           record' \in [Instance -> Record],
           nodes' \in [Instance -> {"absent", "placed", "debt", "gone"}],
           run' \in [Run -> RunRecord],
           admission' \in [inst : 0..MaxInstances, caller : 0..MaxRuns],
           host' \in [up : BOOLEAN, crashes : 0..MaxCrashes, teardowns : 0..MaxTeardowns]
    PROVE  Typed'
    BY DEF Typed, TypeOK, RunRecord, Empties

\* A call changes in one place.
LEMMA TypedOneCall ==
    ASSUME Typed, NEW i \in Instance, NEW new \in CallRecord, call' = [call EXCEPT ![i] = new],
           new.agents \subseteq new.family, new.copy \in [new.family -> Record],
           new.phase = "idle" => new = NoCall,
           new.phase = "wait" => new.family = {i} /\ new.left = {} /\ new.agents = {},
           new.swept => i \in DOMAIN sweep',
           DOMAIN sweep' \subseteq DOMAIN sweep, DOMAIN sweep \ {i} \subseteq DOMAIN sweep',
           sweep' \in [DOMAIN sweep' -> Record],
           record' \in [Instance -> Record],
           nodes' \in [Instance -> {"absent", "placed", "debt", "gone"}],
           run' \in [Run -> RunRecord], admission' = admission,
           host' \in [up : BOOLEAN, crashes : 0..MaxCrashes, teardowns : 0..MaxTeardowns]
    PROVE  Typed'
<1>1. call' \in [Instance -> CallRecord] BY DEF Typed
<1>2. call'[i] = new /\ \A j \in Instance \ {i} : call'[j] = call[j] BY DEF Typed
<1>3. /\ new.phase \in {"idle", "wait", "cancel", "deleted"}
      /\ new.family \subseteq Instance /\ new.left \subseteq Run
    BY DEF CallRecord
<1>4. ASSUME NEW j \in Instance
      PROVE  /\ call'[j].phase \in {"idle", "wait", "cancel", "deleted"}
             /\ call'[j].family \subseteq Instance /\ call'[j].left \subseteq Run
             /\ call'[j].agents \subseteq call'[j].family
             /\ call'[j].copy \in [call'[j].family -> Record]
             /\ call'[j].phase = "idle" => call'[j] = NoCall
             /\ call'[j].phase = "wait" => Empties(j)'
             /\ call'[j].swept => j \in DOMAIN sweep'
    <2>1. CASE j = i BY <1>2, <1>3, <2>1 DEF Empties
    <2>2. CASE j # i
        <3>1. call'[j] = call[j] BY <1>2, <2>2
        <3>2. call[j].swept => j \in DOMAIN sweep' BY <2>2 DEF Typed
        <3> QED BY <3>1, <3>2 DEF Typed, TypeOK, Empties
    <2> QED BY <2>1, <2>2
<1>5. admission' \in [inst : 0..MaxInstances, caller : 0..MaxRuns] /\ DOMAIN sweep' \subseteq Instance
    BY DEF Typed, TypeOK
<1> QED BY <1>1, <1>4, <1>5 DEF Typed, TypeOK, RunRecord

\* A Run starts on an instance, under the least free number.
LEMMA StartRunEffect ==
    ASSUME Typed, NEW i \in Instance, NEW c \in 0..MaxRuns, StartRun(i, c)
    PROVE  /\ run' \in [Run -> RunRecord]
           /\ \E r \in Run : /\ run[r] = NoRun
                            /\ run'[r] = [status |-> "live", on |-> i, by |-> c]
                            /\ \A q \in Run \ {r} : run'[q] = run[q]
<1>1. PICK r \in Run : /\ run[r] = NoRun
                      /\ run' = [run EXCEPT ![r] = [status |-> "live", on |-> i, by |-> c]]
    BY DEF StartRun, First
<1>2. [status |-> "live", on |-> i, by |-> c] \in RunRecord BY DEF RunRecord
<1>3. run \in [Run -> RunRecord] BY DEF Typed, TypeOK, RunRecord
<1> QED BY <1>1, <1>2, <1>3

LEMMA StatusType ==
    ASSUME Typed, NEW r \in Run, NEW s \in {"absent", "live", "ended", "settled"}
    PROVE  /\ run[r] \in RunRecord /\ [run[r] EXCEPT !.status = s] \in RunRecord
           /\ [run[r] EXCEPT !.status = s].on = run[r].on
           /\ [run[r] EXCEPT !.status = s].by = run[r].by
           /\ [run[r] EXCEPT !.status = s].status = s
<1>1. run[r] \in RunRecord BY DEF Typed, TypeOK, RunRecord
<1> QED BY <1>1 DEF RunRecord

\* Runs change their status only, and no settled one comes back.
LEMMA CancelledEffect ==
    ASSUME Typed, NEW S, NEW q \in Run
    PROVE  /\ Cancelled(S)[q] \in RunRecord
           /\ Cancelled(S)[q].on = run[q].on /\ Cancelled(S)[q].by = run[q].by
           /\ Cancelled(S)[q].status = run[q].status
              \/ (Live(q) /\ Cancelled(S)[q].status = "ended")
<1>1. Cancelled(S)[q] = IF q \in S /\ Live(q) THEN [run[q] EXCEPT !.status = "ended"] ELSE run[q]
    BY DEF Cancelled
<1>2. CASE q \in S /\ Live(q)
    <2>1. Cancelled(S)[q] = [run[q] EXCEPT !.status = "ended"] BY <1>1, <1>2
    <2> QED BY <1>2, <2>1, StatusType
<1>3. CASE ~(q \in S /\ Live(q))
    <2>1. Cancelled(S)[q] = run[q] BY <1>1, <1>3
    <2> QED BY <2>1, StatusType
<1> QED BY <1>2, <1>3

\* A family is marked row by row.
LEMMA MarkedType ==
    ASSUME NEW row \in Record, NEW action \in {"stop", "reclaim"}
    PROVE  /\ Marked(row, action) \in Record
           /\ Marked(row, action).made = row.made /\ Marked(row, action).stopping
           /\ Marked(row, action).parent = row.parent
           /\ Marked(row, action).reclaimed = row.reclaimed
BY DEF Marked, Record

\* The rows of a family as Begins finds them: the first is the call's copy.
Row(i, m) == IF m = i THEN call[i].copy[i] ELSE record[m]

RowMarked(i, m) == Marked(Row(i, m), call[i].action)

LEMMA RowMarkedFacts ==
    ASSUME Typed, NEW i \in Instance, i \in call[i].family, NEW m \in Instance
    PROVE  /\ Row(i, m) \in Record /\ RowMarked(i, m) \in Record
           /\ RowMarked(i, m).made = Row(i, m).made /\ RowMarked(i, m).stopping
           /\ RowMarked(i, m).parent = Row(i, m).parent
           /\ RowMarked(i, m).reclaimed = Row(i, m).reclaimed
<1>1. /\ record[m] \in Record /\ call[i].copy[i] \in Record /\ call[i] \in CallRecord
    BY DEF Typed, TypeOK
<1>2. Row(i, m) \in Record BY <1>1 DEF Row
<1>3. call[i].action \in {"stop", "reclaim"} BY <1>1 DEF CallRecord
<1> QED BY <1>2, <1>3, MarkedType DEF RowMarked

\* What Begins puts down for its call.
NewCall(i) ==
    [call[i] EXCEPT !.phase = "cancel", !.family = Family(i),
                    !.copy = [m \in Family(i) |-> RowMarked(i, m)],
                    !.left = UNION {Row(i, m).attempts : m \in Family(i)},
                    !.agents = {m \in Family(i) : nodes[m] = "placed"}]

LEMMA NewCallFacts ==
    ASSUME Typed, NEW i \in Instance, i \in call[i].family
    PROVE  /\ NewCall(i) \in CallRecord
           /\ NewCall(i).phase = "cancel" /\ NewCall(i).action = call[i].action
           /\ NewCall(i).family = Family(i) /\ NewCall(i).swept = call[i].swept
           /\ NewCall(i).copy = [m \in Family(i) |-> RowMarked(i, m)]
           /\ [m \in Family(i) |-> RowMarked(i, m)] \in [Family(i) -> Record]
           /\ NewCall(i).agents = {m \in Family(i) : nodes[m] = "placed"}
<1> DEFINE copy == [m \in Family(i) |-> RowMarked(i, m)]
           left == UNION {Row(i, m).attempts : m \in Family(i)}
           agents == {m \in Family(i) : nodes[m] = "placed"}
<1>1. Family(i) \in SUBSET Instance BY FamilyFacts
<1>2. copy \in [Family(i) -> Record] BY <1>1, RowMarkedFacts
<1>3. copy \in Copies BY <1>1, <1>2 DEF Copies
<1>4. left \in SUBSET Run
    <2>1. \A m \in Instance : Row(i, m).attempts \in SUBSET Run
        <3>1. \A m \in Instance : Row(i, m) \in Record BY RowMarkedFacts
        <3> QED BY <3>1 DEF Record
    <2> QED BY <1>1, <2>1
<1>5. agents \in SUBSET Instance BY <1>1
<1>6. NewCall(i) = [call[i] EXCEPT !.phase = "cancel", !.family = Family(i), !.copy = copy,
                                   !.left = left, !.agents = agents]
    BY DEF NewCall
<1>7. call[i] \in CallRecord BY DEF Typed
<1> HIDE DEF copy, left, agents
<1>8. NewCall(i) \in CallRecord BY <1>1, <1>3, <1>4, <1>5, <1>6, <1>7 DEF CallRecord
<1>9. /\ NewCall(i).phase = "cancel" /\ NewCall(i).action = call[i].action
      /\ NewCall(i).family = Family(i) /\ NewCall(i).swept = call[i].swept
      /\ NewCall(i).copy = copy /\ NewCall(i).agents = agents
    BY <1>6, <1>7 DEF CallRecord
<1> QED BY <1>2, <1>8, <1>9 DEF copy, agents

LEMMA BeginsEffect ==
    ASSUME Typed, NEW i \in Instance, i \in call[i].family, Begins(i)
    PROVE  /\ call' = [call EXCEPT ![i] = NewCall(i)]
           /\ record' \in [Instance -> Record]
           /\ \A m \in Family(i) : record'[m] = RowMarked(i, m)
           /\ \A m \in Instance \ Family(i) : record'[m] = record[m]
<1>1. record \in [Instance -> Record] BY DEF Typed, TypeOK
<1> DEFINE row == [record EXCEPT ![i] = call[i].copy[i]]
           marked == [m \in Family(i) |-> Marked(row[m], call[i].action)]
<1>2. \A m \in Instance : row[m] = Row(i, m) BY <1>1 DEF Row
<1>3. Family(i) \in SUBSET Instance BY FamilyFacts
<1>4. marked = [m \in Family(i) |-> RowMarked(i, m)] BY <1>2, <1>3 DEF RowMarked
<1>5. {row[m].attempts : m \in Family(i)} = {Row(i, m).attempts : m \in Family(i)}
    BY <1>2, <1>3
<1>6. record' = [m \in Instance |-> IF m \in Family(i) THEN marked[m] ELSE record[m]]
    BY DEF Begins
<1>7. call' = [call EXCEPT ![i] =
                 [call[i] EXCEPT !.phase = "cancel", !.family = Family(i), !.copy = marked,
                                 !.left = UNION {row[m].attempts : m \in Family(i)},
                                 !.agents = {m \in Family(i) : nodes[m] = "placed"}]]
    BY DEF Begins
<1> HIDE DEF row, marked
<1>8. call' = [call EXCEPT ![i] = NewCall(i)] BY <1>4, <1>5, <1>7 DEF NewCall
<1>9. \A m \in Instance : record'[m] = IF m \in Family(i) THEN RowMarked(i, m) ELSE record[m]
    BY <1>4, <1>6
<1>10. record' \in [Instance -> Record] BY <1>1, <1>6, <1>9, RowMarkedFacts
<1> QED BY <1>3, <1>8, <1>9, <1>10

LEMMA RunStatusType ==
    ASSUME Typed, NEW r \in Run, NEW s \in {"absent", "live", "ended", "settled"},
           run' = [run EXCEPT ![r].status = s]
    PROVE  /\ run' \in [Run -> RunRecord]
           /\ run'[r] = [run[r] EXCEPT !.status = s] /\ \A q \in Run \ {r} : run'[q] = run[q]
<1>1. run' = [run EXCEPT ![r] = [run[r] EXCEPT !.status = s]] OBVIOUS
<1>2. run \in [Run -> RunRecord] BY DEF Typed, TypeOK, RunRecord
<1>3. [run[r] EXCEPT !.status = s] \in RunRecord BY StatusType
<1> DEFINE new == [run[r] EXCEPT !.status = s]
<1>4. run' = [run EXCEPT ![r] = new] /\ new \in RunRecord BY <1>1, <1>3
<1>5. /\ run' \in [Run -> RunRecord] /\ run'[r] = new
      /\ \A q \in Run \ {r} : run'[q] = run[q]
    <2> HIDE DEF new
    <2> QED BY <1>2, <1>4
<1> QED BY <1>5

LEMMA TypedSummons ==
    ASSUME Typed,
           \/ \E c \in 0..MaxRuns : SummonBegins(c)
           \/ SummonAdmits \/ SummonFails \/ SummonDropped
           \/ \E i \in Instance, c \in 0..MaxRuns : SummonAgain(i, c)
           \/ \E i \in Instance : DirectRun(i)
           \/ \E r \in Run : RunEnds(r) \/ RunSettles(r)
           \/ \E i \in Instance : DebtPaid(i)
    PROVE  Typed'
<1>0. /\ record \in [Instance -> Record]
      /\ nodes \in [Instance -> {"absent", "placed", "debt", "gone"}]
      /\ run \in [Run -> RunRecord]
      /\ admission \in [inst : 0..MaxInstances, caller : 0..MaxRuns]
      /\ host \in [up : BOOLEAN, crashes : 0..MaxCrashes, teardowns : 0..MaxTeardowns]
    BY DEF Typed, TypeOK, RunRecord
<1>00. Free \in [inst : 0..MaxInstances, caller : 0..MaxRuns] BY DEF Free
<1>1. ASSUME NEW c \in 0..MaxRuns, SummonBegins(c) PROVE Typed'
    <2>1. admission' \in [inst : 0..MaxInstances, caller : 0..MaxRuns] BY <1>1 DEF SummonBegins, First
    <2>2. nodes' \in [Instance -> {"absent", "placed", "debt", "gone"}] BY <1>0, <1>1 DEF SummonBegins
    <2> QED BY <1>0, <1>1, <2>1, <2>2, TypedCalls DEF SummonBegins
<1>2. CASE SummonAdmits
    <2> DEFINE i == admission.inst
               c == admission.caller
               new == [NoRecord EXCEPT !.made = TRUE, !.parent = IF c = 0 THEN 0 ELSE run[c].on]
               Att == First({x \in Run : run[x] = NoRun})
    <2>1. i \in 0..MaxInstances /\ c \in 0..MaxRuns BY <1>0
    <2>2. (IF c = 0 THEN 0 ELSE run[c].on) \in 0..MaxInstances BY <1>0, <2>1 DEF RunRecord
    <2>3. new \in Record BY <2>2 DEF NoRecord, Record
    <2>4. Att \in SUBSET Run BY DEF First
    <2>5. [new EXCEPT !.attempts = Att] \in Record
        <3> HIDE DEF new, Att
        <3> QED BY <2>3, <2>4 DEF Record
    <2>6. record' \in [Instance -> Record]
        <3>1. record' = [record EXCEPT ![i] = new]
              \/ record' = [record EXCEPT ![i] = [new EXCEPT !.attempts = Att]]
            BY <1>2 DEF SummonAdmits
        <3> HIDE DEF new, Att, i
        <3> QED BY <1>0, <2>3, <2>5, <3>1
    <2>7. run' \in [Run -> RunRecord]
        <3>1. CASE run' = run BY <1>0, <3>1
        <3>2. CASE StartRun(i, c)
            <4>1. PICK r \in Run : run' = [run EXCEPT ![r] = [status |-> "live", on |-> i, by |-> c]]
                BY <3>2 DEF StartRun, First
            <4>2. [status |-> "live", on |-> i, by |-> c] \in RunRecord BY <2>1 DEF RunRecord
            <4> HIDE DEF i, c
            <4> QED BY <1>0, <4>1, <4>2
        <3> QED BY <1>2, <3>1, <3>2 DEF SummonAdmits
    <2> HIDE DEF i, c, new, Att
    <2> QED BY <1>0, <1>00, <1>2, <2>6, <2>7, TypedCalls DEF SummonAdmits
<1>3. CASE SummonFails BY <1>0, <1>00, <1>3, TypedCalls DEF SummonFails
<1>4. CASE SummonDropped BY <1>0, <1>00, <1>4, TypedCalls DEF SummonDropped
<1>5. ASSUME NEW i \in Instance, NEW c \in 0..MaxRuns, SummonAgain(i, c) PROVE Typed'
    <2>1. run' \in [Run -> RunRecord] BY <1>5, StartRunEffect DEF SummonAgain
    <2> DEFINE Att == record[i].attempts \union First({x \in Run : run[x] = NoRun})
    <2>2. record' = [record EXCEPT ![i] = [record[i] EXCEPT !.attempts = Att]]
        BY <1>5 DEF SummonAgain
    <2>3. record[i] \in Record BY <1>0
    <2>4. Att \in SUBSET Run BY <2>3 DEF Record, First
    <2> HIDE DEF Att
    <2>5. [record[i] EXCEPT !.attempts = Att] \in Record BY <2>3, <2>4 DEF Record
    <2>6. record' \in [Instance -> Record] BY <1>0, <2>2, <2>5
    <2> QED BY <1>0, <1>5, <2>1, <2>6, TypedCalls DEF SummonAgain
<1>6. ASSUME NEW i \in Instance, DirectRun(i) PROVE Typed'
    <2>0. 0 \in 0..MaxRuns OBVIOUS
    <2>1. run' \in [Run -> RunRecord] BY <1>6, <2>0, StartRunEffect DEF DirectRun
    <2> QED BY <1>0, <1>6, <2>1, TypedCalls DEF DirectRun
<1>7. ASSUME NEW r \in Run, RunEnds(r) \/ RunSettles(r) PROVE Typed'
    <2>1. run' \in [Run -> RunRecord] BY <1>7, RunStatusType DEF RunEnds, RunSettles
    <2> QED BY <1>0, <1>7, <2>1, TypedCalls DEF RunEnds, RunSettles
<1>8. ASSUME NEW i \in Instance, DebtPaid(i) PROVE Typed'
    BY <1>0, <1>8, TypedCalls DEF DebtPaid
<1> QED BY <1>1, <1>2, <1>3, <1>4, <1>5, <1>6, <1>7, <1>8

\* What Reads puts down for its call.
Waiting(i, action, swept) ==
    [NoCall EXCEPT !.phase = "wait", !.action = action, !.swept = swept,
                   !.family = {i}, !.copy = [m \in {i} |-> record[m]]]

LEMMA WaitingFacts ==
    ASSUME Typed, NEW i \in Instance, NEW action \in {"stop", "reclaim"}, NEW swept \in BOOLEAN
    PROVE  /\ Waiting(i, action, swept) \in CallRecord
           /\ Waiting(i, action, swept).phase = "wait"
           /\ Waiting(i, action, swept).swept => swept
           /\ Waiting(i, action, swept).family = {i}
           /\ Waiting(i, action, swept).copy \in [{i} -> Record]
           /\ Waiting(i, action, swept).copy[i] = record[i]
           /\ Waiting(i, action, swept).left = {} /\ Waiting(i, action, swept).agents = {}
<1> DEFINE copy == [m \in {i} |-> record[m]]
<1>1. copy \in [{i} -> Record] /\ copy[i] = record[i] BY DEF Typed, TypeOK
<1>2. copy \in Copies BY <1>1 DEF Copies
<1>3. Waiting(i, action, swept) =
        [phase |-> "wait", action |-> action, family |-> {i}, copy |-> copy,
         left |-> {}, agents |-> {}, swept |-> swept]
    <2> HIDE DEF copy
    <2>1. Waiting(i, action, swept) =
            [NoCall EXCEPT !.phase = "wait", !.action = action, !.swept = swept,
                           !.family = {i}, !.copy = copy]
        BY Zenon DEF Waiting, copy
    <2>2. CASE swept BY <2>1, <2>2 DEF NoCall
    <2>3. CASE ~swept BY <2>1, <2>3 DEF NoCall
    <2> QED BY <2>2, <2>3
<1> HIDE DEF copy
<1> QED BY <1>1, <1>2, <1>3 DEF CallRecord

\* A call of teardown by a user, an Agent or the sweep.
ReadsEffect(i, action, swept) ==
    /\ Reads(i, action, swept) /\ (swept => i \in DOMAIN sweep)
    /\ record' = record /\ nodes' = nodes /\ run' = run /\ admission' = admission /\ sweep' = sweep
    /\ host' \in [up : BOOLEAN, crashes : 0..MaxCrashes, teardowns : 0..MaxTeardowns]

LEMMA Readings ==
    ASSUME Typed,
           \/ \E i \in Instance, action \in {"stop", "reclaim"} : Teardown(i, action)
           \/ SweepBegins
    PROVE  \E i \in Instance, action \in {"stop", "reclaim"}, swept \in BOOLEAN :
               ReadsEffect(i, action, swept) /\ (record[i].made \/ i \in DOMAIN sweep)
<1>0. /\ host \in [up : BOOLEAN, crashes : 0..MaxCrashes, teardowns : 0..MaxTeardowns]
      /\ FALSE \in BOOLEAN /\ TRUE \in BOOLEAN
    BY DEF Typed, TypeOK
<1>1. ASSUME NEW i \in Instance, NEW action \in {"stop", "reclaim"}, Teardown(i, action)
      PROVE  ReadsEffect(i, action, FALSE) /\ record[i].made
    <2>1. host' = [host EXCEPT !.teardowns = host.teardowns + 1] /\ host.teardowns < MaxTeardowns
        BY <1>1 DEF Teardown
    <2>2. host' \in [up : BOOLEAN, crashes : 0..MaxCrashes, teardowns : 0..MaxTeardowns]
        BY <1>0, <2>1
    <2> QED BY <1>1, <2>2 DEF Teardown, ReadsEffect
<1>2. CASE SweepBegins
    <2>1. PICK i \in DOMAIN sweep : /\ Reads(i, sweep[i].action, TRUE)
                                   /\ UNCHANGED <<record, nodes, run, admission, sweep, host>>
        BY <1>2 DEF SweepBegins, First
    <2>2. i \in Instance /\ sweep[i] \in Record BY DEF Typed, TypeOK
    <2>3. PICK action \in {"stop", "reclaim"} : action = sweep[i].action BY <2>2 DEF Record
    <2>4. ReadsEffect(i, action, TRUE) BY <1>0, <2>1, <2>3 DEF ReadsEffect
    <2> QED BY <1>0, <2>2, <2>4
<1> QED BY <1>0, <1>1, <1>2

LEMMA TypedReads ==
    ASSUME Typed, NEW i \in Instance, NEW action \in {"stop", "reclaim"}, NEW swept \in BOOLEAN,
           ReadsEffect(i, action, swept)
    PROVE  Typed'
<1> DEFINE new == Waiting(i, action, swept)
<1>1. call' = [call EXCEPT ![i] = new] BY DEF ReadsEffect, Reads, Waiting
<1>2. /\ new \in CallRecord /\ new.phase = "wait" /\ (new.swept => swept) /\ new.family = {i}
      /\ new.copy \in [{i} -> Record] /\ new.left = {} /\ new.agents = {}
    BY WaitingFacts
<1>3. /\ nodes \in [Instance -> {"absent", "placed", "debt", "gone"}] /\ run \in [Run -> RunRecord]
      /\ sweep \in [DOMAIN sweep -> Record] /\ record \in [Instance -> Record]
    BY DEF Typed, TypeOK, RunRecord
<1>4. /\ swept => i \in DOMAIN sweep
      /\ record' = record /\ nodes' = nodes /\ run' = run /\ admission' = admission /\ sweep' = sweep
      /\ host' \in [up : BOOLEAN, crashes : 0..MaxCrashes, teardowns : 0..MaxTeardowns]
    BY DEF ReadsEffect
<1> HIDE DEF new
<1>5. new.phase # "idle" /\ new.copy \in [new.family -> Record] BY <1>2
<1> QED BY <1>1, <1>2, <1>3, <1>4, <1>5, TypedOneCall

LEMMA TypedBegins ==
    ASSUME Typed, NEW i \in Instance, i \in call[i].family, Begins(i)
    PROVE  Typed'
<1> DEFINE new == NewCall(i)
<1>1. /\ call' = [call EXCEPT ![i] = new] /\ record' \in [Instance -> Record]
    BY BeginsEffect
<1>2. /\ new \in CallRecord /\ new.phase = "cancel" /\ new.family = Family(i)
      /\ new.swept = call[i].swept /\ new.copy \in [Family(i) -> Record]
      /\ new.agents \subseteq Family(i)
    BY NewCallFacts
<1>3. /\ nodes \in [Instance -> {"absent", "placed", "debt", "gone"}] /\ run \in [Run -> RunRecord]
      /\ sweep \in [DOMAIN sweep -> Record] /\ (call[i].swept => i \in DOMAIN sweep)
      /\ host \in [up : BOOLEAN, crashes : 0..MaxCrashes, teardowns : 0..MaxTeardowns]
    BY DEF Typed, TypeOK, RunRecord
<1>4. UNCHANGED <<nodes, run, admission, sweep, host>> BY DEF Begins
<1> HIDE DEF new
<1>5. new.phase # "idle" /\ new.phase # "wait" /\ new.agents \subseteq new.family
      /\ new.copy \in [new.family -> Record] /\ (new.swept => i \in DOMAIN sweep')
    BY <1>2, <1>3, <1>4
<1> QED BY <1>1, <1>2, <1>3, <1>4, <1>5, TypedOneCall

\* How the copy of a row is saved at the end of a call.
LEMMA SavedFacts ==
    ASSUME Typed, NEW i \in Instance, NEW m \in call[i].family
    PROVE  /\ call[i].copy[m] \in Record
           /\ Confirmed(i, m) \in Record /\ FailedCopy(i, m) \in Record
           /\ Confirmed(i, m).made = call[i].copy[m].made
           /\ Confirmed(i, m).parent = call[i].copy[m].parent
           /\ Confirmed(i, m).reclaimed <=> call[i].copy[m].reclaimed \/ call[i].action = "reclaim"
           /\ ~Confirmed(i, m).stopping
           /\ FailedCopy(i, m).made = call[i].copy[m].made
           /\ FailedCopy(i, m).parent = call[i].copy[m].parent
           /\ FailedCopy(i, m).reclaimed = call[i].copy[m].reclaimed
           /\ FailedCopy(i, m).stopping = call[i].copy[m].stopping
<1>1. call[i].copy[m] \in Record BY DEF Typed, TypeOK
<1> DEFINE old == call[i].copy[m]
           reclaims == old.reclaimed \/ call[i].action = "reclaim"
<1>2. Confirmed(i, m) = [old EXCEPT !.stopping = FALSE, !.cleanup = "complete", !.reclaimed = reclaims]
    BY <1>1 DEF Confirmed, Record
<1>3. FailedCopy(i, m) = [old EXCEPT !.cleanup = "failed"] BY DEF FailedCopy
<1>4. reclaims \in BOOLEAN OBVIOUS
<1> HIDE DEF old, reclaims
<1>5. old \in Record BY <1>1 DEF old
<1>6. /\ Confirmed(i, m) \in Record
      /\ Confirmed(i, m).made = old.made /\ Confirmed(i, m).parent = old.parent
      /\ Confirmed(i, m).reclaimed = reclaims /\ ~Confirmed(i, m).stopping
    BY <1>2, <1>4, <1>5 DEF Record
<1>7. /\ FailedCopy(i, m) \in Record
      /\ FailedCopy(i, m).made = old.made /\ FailedCopy(i, m).parent = old.parent
      /\ FailedCopy(i, m).reclaimed = old.reclaimed /\ FailedCopy(i, m).stopping = old.stopping
    BY <1>3, <1>5 DEF Record
<1> QED BY <1>1, <1>6, <1>7 DEF old, reclaims

LEMMA SweepLess ==
    ASSUME Typed, NEW i \in Instance,
           \/ sweep' = sweep
           \/ sweep' = [m \in DOMAIN sweep \ {i} |-> sweep[m]]
    PROVE  /\ DOMAIN sweep' \subseteq DOMAIN sweep /\ DOMAIN sweep \ {i} \subseteq DOMAIN sweep'
           /\ sweep' \in [DOMAIN sweep' -> Record]
           /\ \A m \in DOMAIN sweep' : sweep'[m] = sweep[m]
    BY DEF Typed

\* What every step of a call in progress leaves alone.
SameFamily(i) ==
    /\ \A j \in Instance \ {i} : call'[j] = call[j]
    /\ call'[i].family = call[i].family /\ call'[i].copy = call[i].copy
    /\ call'[i].action = call[i].action

\* A call moves on in three of its fields, ...
Moved(i, left, agents, phase) ==
    [call[i] EXCEPT !.left = left, !.agents = agents, !.phase = phase]

Moves(i, left, agents, phase) == call' = [call EXCEPT ![i] = Moved(i, left, agents, phase)]

LEMMA CallMoves ==
    ASSUME Typed, NEW i \in Instance, NEW left \in SUBSET Run,
           NEW agents \in SUBSET Instance, NEW phase \in {"cancel", "deleted"},
           agents \subseteq call[i].agents,
           call[i].phase # "idle",
           Moves(i, left, agents, phase),
           record' = record, admission' = admission, sweep' = sweep, host' = host,
           nodes' \in [Instance -> {"absent", "placed", "debt", "gone"}],
           run' \in [Run -> RunRecord]
    PROVE  /\ Typed' /\ SameFamily(i)
           /\ call'[i].left = left /\ call'[i].agents = agents /\ call'[i].phase = phase
<1> DEFINE new == Moved(i, left, agents, phase)
<1>1. call[i] \in CallRecord /\ call \in [Instance -> CallRecord]
      /\ call[i].agents \subseteq call[i].family
    BY DEF Typed, TypeOK
<1>2. /\ new \in CallRecord
      /\ new.family = call[i].family /\ new.copy = call[i].copy /\ new.swept = call[i].swept
      /\ new.action = call[i].action
      /\ new.left = left /\ new.agents = agents /\ new.phase = phase
    BY <1>1 DEF CallRecord, Moved
<1>3. /\ record \in [Instance -> Record] /\ sweep \in [DOMAIN sweep -> Record]
      /\ host \in [up : BOOLEAN, crashes : 0..MaxCrashes, teardowns : 0..MaxTeardowns]
      /\ call[i].copy \in [call[i].family -> Record] /\ (call[i].swept => i \in DOMAIN sweep)
    BY DEF Typed, TypeOK
<1>4. call' = [call EXCEPT ![i] = new] BY DEF Moves
<1> HIDE DEF new
<1>5. call'[i] = new /\ \A j \in Instance \ {i} : call'[j] = call[j] BY <1>1, <1>4
<1>6. Typed'
    <2>1. new.agents \subseteq new.family BY <1>1, <1>2
    <2>2. new.phase # "idle" /\ new.phase # "wait" BY <1>2
    <2>3. new.copy \in [new.family -> Record] BY <1>2, <1>3
    <2>4. new.swept => i \in DOMAIN sweep' BY <1>2, <1>3
    <2> QED BY <1>2, <1>3, <1>4, <2>1, <2>2, <2>3, <2>4, TypedOneCall
<1>7. SameFamily(i) BY <1>2, <1>5 DEF SameFamily
<1> QED BY <1>2, <1>5, <1>6, <1>7

\* ... or ends.
LEMMA CallEnds ==
    ASSUME Typed, NEW i \in Instance, call' = [call EXCEPT ![i] = NoCall],
           record' \in [Instance -> Record],
           \/ sweep' = sweep
           \/ sweep' = [m \in DOMAIN sweep \ {i} |-> sweep[m]],
           UNCHANGED <<nodes, run, admission, host>>
    PROVE  /\ Typed'
           /\ call'[i] = NoCall /\ \A j \in Instance \ {i} : call'[j] = call[j]
<1>1. /\ DOMAIN sweep' \subseteq DOMAIN sweep /\ DOMAIN sweep \ {i} \subseteq DOMAIN sweep'
      /\ sweep' \in [DOMAIN sweep' -> Record]
    BY SweepLess
<1>2. /\ nodes \in [Instance -> {"absent", "placed", "debt", "gone"}]
      /\ host \in [up : BOOLEAN, crashes : 0..MaxCrashes, teardowns : 0..MaxTeardowns]
      /\ run \in [Run -> RunRecord] /\ call \in [Instance -> CallRecord]
    BY DEF Typed, TypeOK, RunRecord
<1>3. NoCall.phase # "wait" BY NoCallType
<1>4. Typed' BY <1>1, <1>2, <1>3, NoCallType, TypedOneCall
<1> QED BY <1>2, <1>4

\* Runs end, and those that have settled stay so.
RunsEnd ==
    \A q \in Run : /\ run'[q].on = run[q].on
                   /\ Settled(q) => Settled(q)'
                   /\ run[q].status = "absent" <=> run'[q].status = "absent"

LEMMA CancelsEffect ==
    ASSUME Typed, NEW i \in Instance, Cancels(i)
    PROVE  /\ Typed' /\ SameFamily(i) /\ RunsEnd
           /\ call'[i].phase = call[i].phase /\ call'[i].agents = call[i].agents
           /\ \A q \in call[i].left : Settled(q) \/ q \in call'[i].left
<1>1. PICK r \in call[i].left :
          \/ /\ Live(r)
             /\ run' = Cancelled({r})
             /\ UNCHANGED call
          \/ /\ Settled(r)
             /\ call' = [call EXCEPT
                   ![i].left = (@ \ {r}) \union {x \in Run : run[x].by = r /\ ~Settled(x)}]
             /\ UNCHANGED run
    BY DEF Cancels
<1>2. /\ record' = record /\ nodes' = nodes /\ admission' = admission /\ sweep' = sweep /\ host' = host
    BY DEF Cancels
<1>3. /\ record \in [Instance -> Record] /\ nodes \in [Instance -> {"absent", "placed", "debt", "gone"}]
      /\ admission \in [inst : 0..MaxInstances, caller : 0..MaxRuns]
      /\ run \in [Run -> RunRecord]
      /\ host \in [up : BOOLEAN, crashes : 0..MaxCrashes, teardowns : 0..MaxTeardowns]
      /\ call[i] \in CallRecord /\ call[i].left \in SUBSET Run
    BY DEF Typed, TypeOK, RunRecord
<1>4. CASE run' = Cancelled({r}) /\ call' = call
    <2>1. \A q \in Run : run'[q] \in RunRecord BY <1>4, CancelledEffect
    <2>2. run' \in [Run -> RunRecord]
        <3>1. Cancelled({r}) = [q \in Run |-> Cancelled({r})[q]] BY DEF Cancelled
        <3> QED BY <1>4, <2>1, <3>1
    <2>3. Typed' BY <1>2, <1>3, <1>4, <2>2, TypedCalls
    <2>4. RunsEnd
        <3> SUFFICES ASSUME NEW q \in Run
                     PROVE  /\ run'[q].on = run[q].on
                            /\ Settled(q) => Settled(q)'
                            /\ run[q].status = "absent" <=> run'[q].status = "absent"
            BY DEF RunsEnd
        <3>1. /\ run'[q].on = run[q].on
              /\ run'[q].status = run[q].status \/ (run[q].status = "live" /\ run'[q].status = "ended")
            BY <1>4, CancelledEffect DEF Live
        <3> QED BY <3>1 DEF Settled
    <2> QED BY <1>4, <2>3, <2>4 DEF SameFamily
<1>5. CASE /\ Settled(r) /\ run' = run
           /\ call' = [call EXCEPT
                   ![i].left = (@ \ {r}) \union {x \in Run : run[x].by = r /\ ~Settled(x)}]
    <2> DEFINE left == (call[i].left \ {r}) \union {x \in Run : run[x].by = r /\ ~Settled(x)}
    <2>1. call' = [call EXCEPT ![i] = [call[i] EXCEPT !.left = left]] BY <1>5
    <2>2. left \in SUBSET Run BY <1>3
    <2>3. call[i].phase \in {"cancel", "deleted"}
        BY <1>1, NoCallType DEF Typed, TypeOK, Empties
    <2>4. \A q \in call[i].left : Settled(q) \/ q \in left BY <1>5
    <2> HIDE DEF left
    <2> DEFINE agents == call[i].agents
               phase == call[i].phase
    <2>5. [call[i] EXCEPT !.left = left] = Moved(i, left, agents, phase)
        BY <1>3 DEF CallRecord, Moved
    <2>6. call' = [call EXCEPT ![i] = Moved(i, left, agents, phase)]
        BY <2>1, <2>5
    <2>9. agents \in SUBSET call[i].agents /\ phase \in {"cancel", "deleted"} /\ phase # "idle"
        BY <2>3
    <2>10. run' \in [Run -> RunRecord] /\ nodes' \in [Instance -> {"absent", "placed", "debt", "gone"}]
        BY <1>2, <1>3, <1>5
    <2>11. call[i].phase # "idle" BY <2>3
    <2>12. agents = call[i].agents /\ phase = call[i].phase OBVIOUS
    <2> HIDE DEF agents, phase
    <2>13. /\ Typed' /\ SameFamily(i)
           /\ call'[i].left = left /\ call'[i].agents = agents /\ call'[i].phase = phase
        <3>1. PICK l \in SUBSET Run, a \in SUBSET Instance, f \in {"cancel", "deleted"} :
                  l = left /\ a = agents /\ f = phase
            BY <1>3, <2>2, <2>9 DEF CallRecord
        <3>2. Moves(i, l, a, f) BY <2>6, <3>1 DEF Moves
        <3>3. /\ Typed' /\ SameFamily(i)
              /\ call'[i].left = l /\ call'[i].agents = a /\ call'[i].phase = f
            <4>1. a \subseteq call[i].agents BY <2>9, <3>1
            <4>2. /\ record' = record /\ admission' = admission /\ sweep' = sweep /\ host' = host
                  /\ a \in SUBSET Instance /\ l \in SUBSET Run
                BY <1>2
            <4> HIDE DEF Instance, Run
            <4>3. Typed' /\ call'[i].left = l /\ call'[i].agents = a /\ call'[i].phase = f
                BY <2>10, <2>11, <3>2, <4>1, <4>2, CallMoves
            <4>4. SameFamily(i)
                BY <2>10, <2>11, <3>2, <4>1, <4>2, CallMoves
            <4> QED BY <4>3, <4>4
        <3> QED BY <3>1, <3>3
    <2>7. /\ Typed' /\ SameFamily(i)
          /\ call'[i].left = left /\ call'[i].agents = call[i].agents /\ call'[i].phase = call[i].phase
        BY <2>12, <2>13 DEF SameFamily
    <2>8. RunsEnd BY <1>5 DEF RunsEnd, Settled
    <2> QED BY <2>4, <2>7, <2>8
<1> QED BY <1>1, <1>4, <1>5

LEMMA AgentCancelsEffect ==
    ASSUME Typed, NEW i \in Instance, AgentCancels(i)
    PROVE  /\ Typed' /\ SameFamily(i) /\ RunsEnd
           /\ call'[i].phase = call[i].phase /\ call[i].left = {}
           /\ \A q \in Run : run[q].on \in call[i].agents =>
                  run[q].on \in call'[i].agents \/ q \in call'[i].left
<1>1. PICK m \in call[i].agents :
          /\ run' = Cancelled(RunsOn(m))
          /\ call' = [call EXCEPT ![i].agents = @ \ {m}, ![i].left = RunsOn(m)]
    BY DEF AgentCancels, First
<1>2. /\ record' = record /\ nodes' = nodes /\ admission' = admission /\ sweep' = sweep /\ host' = host
      /\ call[i].left = {}
    BY DEF AgentCancels
<1>3. /\ nodes \in [Instance -> {"absent", "placed", "debt", "gone"}]
      /\ run \in [Run -> RunRecord]
      /\ call[i] \in CallRecord /\ call[i].agents \in SUBSET Instance
    BY DEF Typed, TypeOK, RunRecord
<1> DEFINE agents == call[i].agents \ {m}
           left == RunsOn(m)
<1>4. call' = [call EXCEPT ![i] = [call[i] EXCEPT !.agents = agents, !.left = left]]
    BY <1>1
<1>5. left \in SUBSET Run /\ agents \in SUBSET call[i].agents BY DEF RunsOn
<1>6. call[i].phase \in {"cancel", "deleted"}
    BY <1>1, NoCallType DEF Typed, TypeOK, Empties
<1>7. \A q \in Run : run[q].on \in call[i].agents => run[q].on \in agents \/ q \in left
    BY DEF RunsOn
<1>8. run' \in [Run -> RunRecord]
    <2>1. \A q \in Run : run'[q] \in RunRecord BY <1>1, CancelledEffect
    <2>2. Cancelled(RunsOn(m)) = [q \in Run |-> Cancelled(RunsOn(m))[q]] BY DEF Cancelled
    <2> QED BY <1>1, <2>1, <2>2
<1>9. RunsEnd
    <2> SUFFICES ASSUME NEW q \in Run
                 PROVE  /\ run'[q].on = run[q].on
                        /\ Settled(q) => Settled(q)'
                        /\ run[q].status = "absent" <=> run'[q].status = "absent"
        BY DEF RunsEnd
    <2>1. /\ run'[q].on = run[q].on
          /\ run'[q].status = run[q].status \/ (run[q].status = "live" /\ run'[q].status = "ended")
        BY <1>1, CancelledEffect DEF Live
    <2> QED BY <2>1 DEF Settled
<1> HIDE DEF agents, left
<1> DEFINE phase == call[i].phase
<1>10. [call[i] EXCEPT !.agents = agents, !.left = left] = Moved(i, left, agents, phase)
    BY <1>3 DEF CallRecord, Moved
<1>11. call' = [call EXCEPT ![i] = Moved(i, left, agents, phase)]
    BY <1>4, <1>10
<1>13. phase = call[i].phase /\ phase \in {"cancel", "deleted"} /\ call[i].phase # "idle" BY <1>6
<1>14. nodes' \in [Instance -> {"absent", "placed", "debt", "gone"}] BY <1>2, <1>3
<1> HIDE DEF phase
<1>15. /\ Typed' /\ SameFamily(i)
       /\ call'[i].left = left /\ call'[i].agents = agents /\ call'[i].phase = phase
    <2>1. PICK l \in SUBSET Run, a \in SUBSET Instance, f \in {"cancel", "deleted"} :
              l = left /\ a = agents /\ f = phase
        BY <1>3, <1>5, <1>13
    <2>2. Moves(i, l, a, f) BY <1>11, <2>1 DEF Moves
    <2>3. /\ Typed' /\ SameFamily(i)
          /\ call'[i].left = l /\ call'[i].agents = a /\ call'[i].phase = f
        <3>1. a \subseteq call[i].agents BY <1>5, <2>1
        <3>2. /\ record' = record /\ admission' = admission /\ sweep' = sweep /\ host' = host
              /\ a \in SUBSET Instance /\ l \in SUBSET Run
            BY <1>2
        <3> HIDE DEF Instance, Run
        <3>3. Typed' /\ call'[i].left = l /\ call'[i].agents = a /\ call'[i].phase = f
            BY <1>8, <1>13, <1>14, <2>2, <3>1, <3>2, CallMoves
        <3>4. SameFamily(i)
            BY <1>8, <1>13, <1>14, <2>2, <3>1, <3>2, CallMoves
        <3> QED BY <3>3, <3>4
    <2> QED BY <2>1, <2>3
<1>12. /\ Typed' /\ SameFamily(i)
       /\ call'[i].left = left /\ call'[i].agents = agents /\ call'[i].phase = call[i].phase
    BY <1>13, <1>15 DEF SameFamily
<1> QED BY <1>2, <1>7, <1>9, <1>12

LEMMA DeletesEffect ==
    ASSUME Typed, NEW i \in Instance, Deletes(i)
    PROVE  /\ Typed' /\ SameFamily(i) /\ RunsEnd
           /\ AllJoined(i) /\ call'[i].left = {} /\ call'[i].agents = {} /\ call'[i].phase = "deleted"
           /\ \A m \in Instance : \/ m \notin call[i].family /\ nodes'[m] = nodes[m]
                                  \/ nodes[m] # "placed" /\ nodes'[m] = nodes[m]
                                  \/ m \in call[i].family /\ nodes'[m] \in {"gone", "debt"}
           /\ \A q \in Run : run[q].on \in call[i].family => Settled(q)'
<1>1. PICK debt \in {"gone", "debt"} :
          nodes' = [m \in Instance |-> IF m \in call[i].family /\ nodes[m] = "placed"
                                       THEN debt ELSE nodes[m]]
    BY DEF Deletes
<1>2. /\ record' = record /\ admission' = admission /\ sweep' = sweep /\ host' = host
      /\ AllJoined(i)
      /\ call' = [call EXCEPT ![i].phase = "deleted"]
      /\ run' = [r \in Run |-> IF run[r].on \in call[i].family /\ ~Settled(r)
                               THEN [run[r] EXCEPT !.status = "settled"] ELSE run[r]]
    BY DEF Deletes
<1>3. /\ nodes \in [Instance -> {"absent", "placed", "debt", "gone"}]
      /\ run \in [Run -> RunRecord]
      /\ call[i] \in CallRecord
    BY DEF Typed, TypeOK, RunRecord
<1>4. call[i].left = {} /\ call[i].agents = {} /\ call[i].phase # "idle"
    BY <1>2 DEF AllJoined
<1>5. [call[i] EXCEPT !.phase = "deleted"] = Moved(i, {}, {}, "deleted")
    BY <1>3, <1>4 DEF CallRecord, Moved
<1>6. Moves(i, {}, {}, "deleted")
    <2>1. call' = [call EXCEPT ![i] = [call[i] EXCEPT !.phase = "deleted"]] BY <1>2
    <2> QED BY <1>5, <2>1 DEF Moves
<1>7. ASSUME NEW q \in Run
      PROVE  /\ run'[q] \in RunRecord /\ run'[q].on = run[q].on
             /\ Settled(q) => Settled(q)'
             /\ run[q].status = "absent" <=> run'[q].status = "absent"
             /\ run[q].on \in call[i].family => Settled(q)'
    <2>1. CASE run[q].on \in call[i].family /\ ~Settled(q)
        <3>1. run'[q] = [run[q] EXCEPT !.status = "settled"] BY <1>2, <2>1
        <3>2. /\ run'[q] \in RunRecord /\ run'[q].on = run[q].on /\ run'[q].status = "settled"
            BY <3>1, StatusType
        <3> QED BY <2>1, <3>2 DEF Settled
    <2>2. CASE ~(run[q].on \in call[i].family /\ ~Settled(q))
        <3>1. run'[q] = run[q] BY <1>2, <2>2
        <3> QED BY <1>3, <2>2, <3>1 DEF Settled
    <2> QED BY <2>1, <2>2
<1>8. run' \in [Run -> RunRecord] BY <1>2, <1>7
<1>9. nodes' \in [Instance -> {"absent", "placed", "debt", "gone"}] BY <1>1, <1>3
<1>11. {} \in SUBSET Run /\ {} \in SUBSET call[i].agents OBVIOUS
<1>12. /\ Typed' /\ SameFamily(i)
       /\ call'[i].left = {} /\ call'[i].agents = {} /\ call'[i].phase = "deleted"
    BY <1>2, <1>4, <1>6, <1>8, <1>9, <1>11, CallMoves
<1>10. /\ Typed' /\ SameFamily(i)
       /\ call'[i].left = {} /\ call'[i].agents = {} /\ call'[i].phase = "deleted"
    BY <1>12 DEF SameFamily
<1> QED BY <1>1, <1>2, <1>3, <1>7, <1>10 DEF RunsEnd

LEMMA ConfirmsEffect ==
    ASSUME Typed, NEW i \in Instance, Confirms(i)
    PROVE  /\ Typed' /\ Confirmable(i)
           /\ call'[i] = NoCall /\ \A j \in Instance \ {i} : call'[j] = call[j]
           /\ \A m \in call[i].family : record'[m] = Confirmed(i, m)
           /\ \A m \in Instance \ call[i].family : record'[m] = record[m]
           /\ \A m \in DOMAIN sweep' : m \in DOMAIN sweep /\ sweep'[m] = sweep[m]
           /\ nodes' = nodes /\ run' = run /\ admission' = admission /\ host' = host
<1>1. /\ record' = [m \in Instance |-> IF m \in call[i].family THEN Confirmed(i, m) ELSE record[m]]
      /\ call' = [call EXCEPT ![i] = NoCall] /\ Confirmable(i)
      /\ nodes' = nodes /\ run' = run /\ admission' = admission /\ host' = host
      /\ \/ sweep' = sweep
         \/ sweep' = [m \in DOMAIN sweep \ {i} |-> sweep[m]]
    BY DEF Confirms
<1>2. call[i].family \in SUBSET Instance /\ record \in [Instance -> Record]
    BY DEF Typed, TypeOK
<1>3. record' \in [Instance -> Record] BY <1>1, <1>2, SavedFacts
<1>4. Typed' /\ call'[i] = NoCall /\ \A j \in Instance \ {i} : call'[j] = call[j]
    BY <1>1, <1>3, CallEnds
<1>5. \A m \in DOMAIN sweep' : m \in DOMAIN sweep /\ sweep'[m] = sweep[m]
    BY <1>1, SweepLess
<1> QED BY <1>1, <1>2, <1>4, <1>5

\* A failed call of the sweep saves the sweep's own reading of its instance.
LEMMA FailsEffect ==
    ASSUME Typed, NEW i \in Instance, Fails(i)
    PROVE  /\ Typed' /\ call[i].phase # "idle"
           /\ call'[i] = NoCall /\ \A j \in Instance \ {i} : call'[j] = call[j]
           /\ \A m \in call[i].family \ {i} : record'[m] = FailedCopy(i, m)
           /\ \A m \in Instance \ (call[i].family \union {i}) : record'[m] = record[m]
           /\ i \in call[i].family =>
                \/ call[i].phase # "wait" /\ record'[i] = FailedCopy(i, i)
                \/ call[i].phase = "wait" /\ record'[i] = record[i]
                \/ /\ i \in DOMAIN sweep /\ record'[i].made = sweep[i].made
                   /\ record'[i].parent = sweep[i].parent
                   /\ record'[i].reclaimed = sweep[i].reclaimed
                   /\ i \notin DOMAIN sweep'
           /\ \A m \in DOMAIN sweep' : m \in DOMAIN sweep /\ sweep'[m] = sweep[m]
           /\ nodes' = nodes /\ run' = run /\ admission' = admission /\ host' = host
<1>1. /\ record' = [m \in Instance |->
            IF m = i /\ call[i].swept THEN [sweep[i] EXCEPT !.cleanup = "failed"]
            ELSE IF m \in call[i].family /\ call[i].phase # "wait" THEN FailedCopy(i, m)
            ELSE record[m]]
      /\ call' = [call EXCEPT ![i] = NoCall] /\ call[i].phase # "idle"
      /\ nodes' = nodes /\ run' = run /\ admission' = admission /\ host' = host
      /\ sweep' = IF call[i].swept THEN [m \in DOMAIN sweep \ {i} |-> sweep[m]] ELSE sweep
    BY DEF Fails
<1>2. call[i].family \in SUBSET Instance /\ record \in [Instance -> Record]
    BY DEF Typed, TypeOK
<1> DEFINE read == [sweep[i] EXCEPT !.cleanup = "failed"]
<1>3. call[i].swept => /\ i \in DOMAIN sweep /\ read \in Record /\ read.made = sweep[i].made
                       /\ read.parent = sweep[i].parent /\ read.reclaimed = sweep[i].reclaimed
    <2>1. call[i].swept => i \in DOMAIN sweep /\ sweep[i] \in Record BY DEF Typed
    <2> QED BY <2>1 DEF Record
<1>4. record' = [m \in Instance |-> IF m = i /\ call[i].swept THEN read
                                    ELSE IF m \in call[i].family /\ call[i].phase # "wait"
                                         THEN FailedCopy(i, m) ELSE record[m]]
    BY <1>1
<1> HIDE DEF read
<1>5. record' \in [Instance -> Record] BY <1>2, <1>3, <1>4, SavedFacts
<1>6. sweep' = sweep \/ sweep' = [m \in DOMAIN sweep \ {i} |-> sweep[m]] BY <1>1
<1>11. call' = [call EXCEPT ![i] = NoCall] /\ UNCHANGED <<nodes, run, admission, host>>
    BY <1>1
<1>7. Typed' /\ call'[i] = NoCall /\ \A j \in Instance \ {i} : call'[j] = call[j]
    BY <1>5, <1>6, <1>11, CallEnds
<1>8. \A m \in DOMAIN sweep' : m \in DOMAIN sweep /\ sweep'[m] = sweep[m]
    BY <1>6, SweepLess
<1>9. i \in call[i].family =>
                \/ call[i].phase # "wait" /\ record'[i] = FailedCopy(i, i)
                \/ call[i].phase = "wait" /\ record'[i] = record[i]
                \/ /\ i \in DOMAIN sweep /\ record'[i].made = sweep[i].made
                   /\ record'[i].parent = sweep[i].parent
                   /\ record'[i].reclaimed = sweep[i].reclaimed
                   /\ i \notin DOMAIN sweep'
    <2>1. CASE call[i].swept
        <3>1. record'[i] = read BY <1>4, <2>1
        <3>2. DOMAIN sweep' = DOMAIN sweep \ {i} BY <1>1, <2>1
        <3> QED BY <1>3, <2>1, <3>1, <3>2
    <2>2. CASE ~call[i].swept BY <1>4, <2>2
    <2> QED BY <2>1, <2>2
<1>10. /\ \A m \in call[i].family \ {i} : record'[m] = FailedCopy(i, m)
       /\ \A m \in Instance \ (call[i].family \union {i}) : record'[m] = record[m]
    <2>1. call[i].phase = "wait" => call[i].family = {i} BY DEF Typed, Empties
    <2> QED BY <1>2, <1>4, <2>1
<1> QED BY <1>1, <1>7, <1>8, <1>9, <1>10

\* No call is under way, and the process ...
LEMMA TypedNoCalls ==
    ASSUME call' = [i \in Instance |-> NoCall], sweep' \in [DOMAIN sweep' -> Record],
           DOMAIN sweep' \subseteq Instance,
           record' \in [Instance -> Record],
           nodes' \in [Instance -> {"absent", "placed", "debt", "gone"}],
           run' \in [Run -> RunRecord],
           admission' \in [inst : 0..MaxInstances, caller : 0..MaxRuns],
           host' \in [up : BOOLEAN, crashes : 0..MaxCrashes, teardowns : 0..MaxTeardowns]
    PROVE  Typed'
<1>1. \A i \in Instance : call'[i] = NoCall OBVIOUS
<1>2. call' \in [Instance -> CallRecord] BY NoCallType
<1>3. \A i \in Instance :
          /\ call'[i].phase \in {"idle", "wait", "cancel", "deleted"}
          /\ call'[i].family \subseteq Instance /\ call'[i].left \subseteq Run
          /\ call'[i].agents \subseteq call'[i].family
          /\ call'[i].copy \in [call'[i].family -> Record]
    BY <1>1, NoCallType
<1>4. \A i \in Instance : /\ call'[i].phase = "idle" => call'[i] = NoCall
                          /\ call'[i].phase # "wait"
                          /\ call'[i].swept => i \in DOMAIN sweep'
    BY <1>1, NoCallType
<1> HIDE DEF Instance, Run
<1>5. TypeOK' BY <1>3 DEF TypeOK, RunRecord
<1> QED BY <1>2, <1>4, <1>5 DEF Typed

LEMMA CrashEffect ==
    ASSUME Typed, Crash
    PROVE  /\ Typed' /\ nodes' = nodes /\ RunsEnd /\ admission' = Free
           /\ \A j \in Instance : call'[j] = NoCall
           /\ DOMAIN sweep' = {}
           /\ \/ record' = record
              \/ \E i \in Instance : \E m \in call[i].family :
                    /\ Confirmable(i)
                    /\ \A n \in Instance :
                           IF n \in call[i].family /\ n <= m THEN record'[n] = Confirmed(i, n)
                                                             ELSE record'[n] = record[n]
<1>1. /\ \/ record' = record
         \/ \E i \in Instance : \E m \in call[i].family :
               /\ Confirmable(i)
               /\ record' = [n \in Instance |-> IF n \in call[i].family /\ n <= m
                                                THEN Confirmed(i, n) ELSE record[n]]
      /\ host' = [host EXCEPT !.up = FALSE, !.crashes = @ + 1] /\ host.crashes < MaxCrashes
      /\ run' = [r \in Run |-> IF Settled(r) THEN run[r] ELSE [run[r] EXCEPT !.status = "settled"]]
      /\ admission' = Free /\ call' = [i \in Instance |-> NoCall] /\ sweep' = <<>> /\ nodes' = nodes
    BY DEF Crash
<1>2. /\ record \in [Instance -> Record] /\ nodes \in [Instance -> {"absent", "placed", "debt", "gone"}]
      /\ host \in [up : BOOLEAN, crashes : 0..MaxCrashes, teardowns : 0..MaxTeardowns]
    BY DEF Typed, TypeOK
<1>3. record' \in [Instance -> Record]
    <2>1. CASE record' = record BY <1>2, <2>1
    <2>2. ASSUME NEW i \in Instance, NEW m \in call[i].family,
                 record' = [n \in Instance |-> IF n \in call[i].family /\ n <= m
                                               THEN Confirmed(i, n) ELSE record[n]]
          PROVE  record' \in [Instance -> Record]
        <3>1. \A n \in call[i].family : Confirmed(i, n) \in Record BY SavedFacts
        <3>2. \A n \in Instance : record'[n] \in Record BY <1>2, <2>2, <3>1
        <3> QED BY <2>2, <3>2
    <2> QED BY <1>1, <2>1, <2>2
<1>4. ASSUME NEW q \in Run
      PROVE  /\ run'[q] \in RunRecord /\ run'[q].on = run[q].on
             /\ Settled(q) => Settled(q)'
             /\ run[q].status = "absent" <=> run'[q].status = "absent"
    <2>1. CASE Settled(q)
        <3>1. run'[q] = run[q] BY <1>1, <2>1
        <3> QED BY <2>1, <3>1, StatusType DEF Settled
    <2>2. CASE ~Settled(q)
        <3>1. run'[q] = [run[q] EXCEPT !.status = "settled"] BY <1>1, <2>2
        <3>2. run'[q] \in RunRecord /\ run'[q].on = run[q].on /\ run'[q].status = "settled"
            BY <3>1, StatusType
        <3> QED BY <2>2, <3>2 DEF Settled
    <2> QED BY <2>1, <2>2
<1>5. run' \in [Run -> RunRecord] BY <1>1, <1>4
<1>6. host' \in [up : BOOLEAN, crashes : 0..MaxCrashes, teardowns : 0..MaxTeardowns]
    <2> DEFINE n == host.crashes + 1
    <2>1. host' = [host EXCEPT !.up = FALSE, !.crashes = n] BY <1>1
    <2>2. host.crashes \in 0..MaxCrashes BY <1>2
    <2>3. n \in 0..MaxCrashes BY <1>1, <2>2
    <2> HIDE DEF n
    <2> QED BY <1>2, <2>1, <2>3
<1>7. sweep' \in [DOMAIN sweep' -> Record] /\ DOMAIN sweep' = {} BY <1>1, Empty
<1>8. admission' \in [inst : 0..MaxInstances, caller : 0..MaxRuns] BY <1>1 DEF Free
<1>9. Typed' BY <1>1, <1>2, <1>3, <1>5, <1>6, <1>7, <1>8, TypedNoCalls
<1>10. RunsEnd BY <1>4 DEF RunsEnd
<1>11. \/ record' = record
       \/ \E i \in Instance : \E m \in call[i].family :
             /\ Confirmable(i)
             /\ \A n \in Instance :
                    IF n \in call[i].family /\ n <= m THEN record'[n] = Confirmed(i, n)
                                                      ELSE record'[n] = record[n]
    BY <1>1
<1> QED BY <1>1, <1>7, <1>9, <1>10, <1>11

\* While the process is down no call is under way and no lock is held.
Down == ~host.up => admission = Free /\ \A i \in Instance : call[i] = NoCall

LEMMA StartupEffect ==
    ASSUME Typed, Down, Startup
    PROVE  /\ Typed' /\ record' = record /\ run' = run /\ admission' = admission
           /\ \A j \in Instance : call'[j] = NoCall /\ call[j] = NoCall
           /\ \A m \in Instance : nodes'[m] = nodes[m] \/ (nodes[m] = "debt" /\ nodes'[m] = "gone")
           /\ DOMAIN sweep' = Owed /\ \A i \in Owed : sweep'[i] = record[i]
<1>1. /\ ~host.up /\ host' = [host EXCEPT !.up = TRUE]
      /\ sweep' = [i \in Owed |-> record[i]]
      /\ record' = record /\ run' = run /\ admission' = admission /\ call' = call
    BY DEF Startup
<1>2. PICK paid \in BOOLEAN :
          nodes' = [i \in Instance |-> IF nodes[i] = "debt" /\ paid THEN "gone" ELSE nodes[i]]
    BY DEF Startup
<1>3. /\ record \in [Instance -> Record] /\ nodes \in [Instance -> {"absent", "placed", "debt", "gone"}]
      /\ host \in [up : BOOLEAN, crashes : 0..MaxCrashes, teardowns : 0..MaxTeardowns]
      /\ run \in [Run -> RunRecord] /\ call \in [Instance -> CallRecord]
      /\ admission \in [inst : 0..MaxInstances, caller : 0..MaxRuns]
    BY DEF Typed, TypeOK, RunRecord
<1>4. \A j \in Instance : call[j] = NoCall BY <1>1 DEF Down
<1>5. call' = [i \in Instance |-> NoCall]
    <2> HIDE DEF Instance
    <2> QED BY <1>1, <1>3, <1>4
<1>6. Owed \in SUBSET Instance BY DEF Owed
<1>7. sweep' \in [DOMAIN sweep' -> Record] /\ DOMAIN sweep' = Owed BY <1>1, <1>3, <1>6
<1>8. nodes' \in [Instance -> {"absent", "placed", "debt", "gone"}] BY <1>2, <1>3
<1>9. host' \in [up : BOOLEAN, crashes : 0..MaxCrashes, teardowns : 0..MaxTeardowns]
    BY <1>1, <1>3
<1>10. Typed' BY <1>1, <1>3, <1>5, <1>6, <1>7, <1>8, <1>9, TypedNoCalls
<1>11. \A m \in Instance : nodes'[m] = nodes[m] \/ (nodes[m] = "debt" /\ nodes'[m] = "gone")
    BY <1>2
<1> QED BY <1>1, <1>4, <1>7, <1>10, <1>11

LEMMA SkipsEffect ==
    ASSUME Typed, SweepSkips
    PROVE  /\ Typed' /\ UNCHANGED <<record, nodes, run, admission, call, host>>
           /\ \A m \in DOMAIN sweep' : m \in DOMAIN sweep /\ sweep'[m] = sweep[m]
<1>1. PICK i \in DOMAIN sweep : /\ call[i].phase = "idle"
                               /\ sweep' = [m \in DOMAIN sweep \ {i} |-> sweep[m]]
    BY DEF SweepSkips, First
<1>2. UNCHANGED <<record, nodes, run, admission, call, host>> BY DEF SweepSkips
<1>3. i \in Instance BY DEF Typed, TypeOK
<1>4. /\ DOMAIN sweep' = DOMAIN sweep \ {i} /\ sweep' \in [DOMAIN sweep' -> Record]
      /\ \A m \in DOMAIN sweep' : m \in DOMAIN sweep /\ sweep'[m] = sweep[m]
    BY <1>1, <1>3, SweepLess
<1>5. ~call[i].swept BY <1>1, <1>3, NoCallType DEF Typed
<1>6. TypeOK' BY <1>2, <1>4 DEF Typed, TypeOK
<1>7. \A j \in Instance : /\ call'[j].phase = "idle" => call'[j] = NoCall
                          /\ call'[j].phase = "wait" => Empties(j)'
                          /\ call'[j].swept => j \in DOMAIN sweep'
    BY <1>2, <1>4, <1>5 DEF Typed, Empties
<1>8. call' \in [Instance -> CallRecord] BY <1>2 DEF Typed
<1> QED BY <1>2, <1>4, <1>6, <1>7, <1>8 DEF Typed

LEMMA DownNext == Typed /\ Down /\ [Next]_vars => Down'
<1> SUFFICES ASSUME Typed, Down, [Next]_vars PROVE Down'
    OBVIOUS
<1> USE DEF Down
<1>1. CASE UNCHANGED vars BY <1>1 DEF vars
<1>2. CASE Crash BY <1>2 DEF Crash
<1>3. ASSUME host.up, host' = host PROVE Down' BY <1>3
<1>4. CASE \E i \in Instance : Step(i)
    BY <1>3, <1>4 DEF Step, Begins, Cancels, AgentCancels, Deletes, Confirms, Fails
<1>5. CASE Startup
    <2>1. host' = [host EXCEPT !.up = TRUE] BY <1>5 DEF Startup
    <2> QED BY <2>1 DEF Typed, TypeOK
<1>6. CASE \E i \in Instance, action \in {"stop", "reclaim"} : Teardown(i, action)
    <2>1. host.up /\ host' = [host EXCEPT !.teardowns = host.teardowns + 1]
        BY <1>6 DEF Teardown, Serving
    <2> QED BY <2>1 DEF Typed, TypeOK
<1>7. CASE SummonAdmits \/ SummonFails \/ SummonDropped \/ \E r \in Run : RunSettles(r)
    BY <1>3, <1>7 DEF SummonAdmits, SummonFails, SummonDropped, RunSettles
<1>8. CASE SweepBegins \/ SweepSkips
    BY <1>3, <1>8 DEF SweepBegins, SweepSkips
<1>9. CASE \/ \E c \in 0..MaxRuns : SummonBegins(c)
           \/ \E i \in Instance, c \in 0..MaxRuns : SummonAgain(i, c)
           \/ \E i \in Instance : DirectRun(i)
           \/ \E r \in Run : RunEnds(r)
           \/ \E i \in Instance : DebtPaid(i)
    BY <1>3, <1>9 DEF SummonBegins, SummonAgain, DirectRun, RunEnds, DebtPaid, Serving
<1> QED BY <1>1, <1>2, <1>4, <1>5, <1>6, <1>7, <1>8, <1>9 DEF Next, Progress

LEMMA TypedNext == Typed /\ Down /\ [Next]_vars => Typed'
<1> SUFFICES ASSUME Typed, Down, [Next]_vars PROVE Typed'
    OBVIOUS
<1>1. CASE UNCHANGED vars BY <1>1 DEF vars, Typed, TypeOK, Empties
<1>2. CASE Crash BY <1>2, CrashEffect
<1>3. CASE Startup BY <1>3, StartupEffect
<1>4. ASSUME NEW i \in Instance, Step(i) PROVE Typed'
    <2>1. CASE Begins(i)
        <3>1. i \in call[i].family BY <2>1 DEF Begins, Typed, Empties
        <3> QED BY <2>1, <3>1, TypedBegins
    <2> QED BY <1>4, <2>1, CancelsEffect, AgentCancelsEffect, DeletesEffect, ConfirmsEffect,
               FailsEffect DEF Step
<1>5. CASE (\E i \in Instance, action \in {"stop", "reclaim"} : Teardown(i, action)) \/ SweepBegins
    BY <1>5, Readings, TypedReads
<1>7. CASE SweepSkips BY <1>7, SkipsEffect
<1>8. CASE \/ \E c \in 0..MaxRuns : SummonBegins(c)
           \/ SummonAdmits \/ SummonFails \/ SummonDropped
           \/ \E i \in Instance, c \in 0..MaxRuns : SummonAgain(i, c)
           \/ \E i \in Instance : DirectRun(i)
           \/ \E r \in Run : RunEnds(r) \/ RunSettles(r)
           \/ \E i \in Instance : DebtPaid(i)
    BY <1>8, TypedSummons
<1> QED BY <1>1, <1>2, <1>3, <1>4, <1>5, <1>7, <1>8 DEF Next, Progress

\* The rows, the nodes, the Runs and the teardowns in progress keep their types
\* whatever else happens: summoning.py and what it saves.
THEOREM TypeCorrect == Spec => []TypeOK
<1>1. Init => Typed /\ Down BY TypedInit DEF Init, Down
<1>2. Typed /\ Down /\ [Next]_vars => (Typed /\ Down)' BY TypedNext, DownNext
<1>3. Typed => TypeOK BY DEF Typed
<1> QED BY <1>1, <1>2, <1>3, PTL DEF Spec

-----------------------------------------------------------------------------
(* What makes a teardown sound, when no two overlap.                       *)

HIDE DEF Instance, Run

\* Nodes are placed in the order of the instances; where none are placed no Run
\* is live or unwinding.
NodesInv ==
    /\ \A m, n \in Instance : nodes[m] = "absent" /\ m < n => nodes[n] = "absent"
    /\ \A m \in Instance : nodes[m] = "absent" => /\ ~record[m].made
                                                 /\ \A q \in Run : run[q].on # m
    /\ \A m \in Instance : nodes[m] # "placed" => \A q \in Run : run[q].on = m => Settled(q)
    /\ \A q \in Run : run[q].status = "absent" \/ run[q].on \in Instance

\* A row comes after its parent's.
RowsInv ==
    \A m \in Instance :
        /\ ~record[m].made => ~record[m].stopping /\ ~record[m].reclaimed
        /\ record[m].made /\ record[m].parent # 0 => record[m].parent < m

\* The instance being summoned has no row and no Run yet, and the one it is
\* summoned from stays open as long as the mutation lock is held.
PendingInv ==
    admission # Free =>
        /\ admission.inst \in Instance /\ nodes[admission.inst] = "placed"
        /\ ~record[admission.inst].made /\ \A q \in Run : run[q].on # admission.inst
        /\ admission.caller # 0 =>
              /\ run[admission.caller].on \in Instance
              /\ run[admission.caller].on < admission.inst
              /\ ~record[run[admission.caller].on].stopping
              /\ ~record[run[admission.caller].on].reclaimed

\* A teardown that waits for the mutation lock has read its instance; since then
\* attempts may have been added to the row.
Reading(i) ==
    /\ record[i].made /\ call[i].copy[i].made
    /\ call[i].copy[i].parent = record[i].parent
    /\ call[i].copy[i].reclaimed = record[i].reclaimed

\* The family of one that has begun is closed: its rows are as the teardown has
\* marked them, nothing is summoned below it, and a Run on it that has not
\* settled is one the teardown has still to join.
ClosedFamily(i) ==
    /\ \A m \in call[i].family :
          /\ record[m].made /\ record[m].stopping /\ record[m] = call[i].copy[m]
          /\ call[i].phase = "deleted" => nodes[m] # "placed"
    /\ \A m \in Instance : record[m].made /\ record[m].parent \in call[i].family
                               => m \in call[i].family
    /\ \A q \in Run : run[q].on \in call[i].family /\ ~Settled(q)
                          => run[q].on \in call[i].agents \/ q \in call[i].left

FamilyInv(i) ==
    /\ call[i].phase # "idle" => i \in call[i].family
    /\ IF call[i].phase = "wait" THEN Reading(i) ELSE ClosedFamily(i)

Disjoint ==
    \A i, j \in Instance : i # j => \A m \in call[i].family : m \notin call[j].family

\* What the sweep has read still describes the row, and nothing is summoned
\* before the sweep is over.
SweepInv ==
    /\ DOMAIN sweep # {} => admission = Free
    /\ \A i \in DOMAIN sweep :
          /\ sweep[i].made /\ sweep[i].stopping
          /\ record[i].made /\ record[i].parent = sweep[i].parent
          /\ sweep[i].reclaimed => record[i].reclaimed

TeardownInv ==
    /\ Typed /\ NodesInv /\ RowsInv /\ PendingInv
    /\ (\A i \in Instance : FamilyInv(i)) /\ Disjoint
    /\ SweepInv /\ ReclaimedIsGone

-----------------------------------------------------------------------------
(* What a step does to the Runs, the nodes and the rows.                   *)

\* Runs change their status, and what starts starts on the instances in S.
Stirs(S) ==
    \A q \in Run :
        /\ \/ run'[q].on \in S
           \/ /\ run'[q].on = run[q].on
              /\ Settled(q) => Settled(q)'
              /\ run[q].status = "absent" <=> run'[q].status = "absent"
        /\ run[q].on # 0 => run'[q].on = run[q].on

\* Nodes are removed only where nothing runs.
Clears ==
    \A m \in Instance :
        \/ nodes'[m] = nodes[m]
        \/ /\ nodes[m] \in {"placed", "debt"} /\ nodes'[m] \in {"gone", "debt"}
           /\ \A q \in Run : run'[q].on = m => Settled(q)'

\* Rows keep their place.
KeepsRows ==
    \A m \in Instance : /\ record'[m].made = record[m].made
                        /\ record'[m].parent = record[m].parent
                        /\ ~record[m].made => record'[m] = record[m]

LEMMA Small ==
    /\ 0 \notin Instance /\ Instance \in SUBSET Nat /\ Run \in SUBSET Nat
    /\ \A S : S \in SUBSET Instance => 0 \notin S
BY DEF Instance, Run

LEMMA StirsNone == RunsEnd => Stirs({})
BY DEF RunsEnd, Stirs

LEMMA StirsSame == run' = run => Stirs({})
BY DEF Stirs, Settled

LEMMA StirsStart ==
    ASSUME Typed, NEW i \in Instance, NEW c \in 0..MaxRuns, StartRun(i, c)
    PROVE  Stirs({i})
<1>1. PICK r \in Run : /\ run[r] = NoRun
                      /\ run'[r] = [status |-> "live", on |-> i, by |-> c]
                      /\ \A q \in Run \ {r} : run'[q] = run[q]
    BY StartRunEffect
<1>2. run[r].on = 0 /\ run'[r].on = i BY <1>1 DEF NoRun
<1> QED BY <1>1, <1>2 DEF Stirs, Settled

LEMMA NodesKept ==
    ASSUME Typed, NodesInv, KeepsRows, Clears, NEW S \in SUBSET Instance, Stirs(S),
           \A m \in S : nodes[m] = "placed"
    PROVE  NodesInv'
<1>0. \A m \in S : nodes'[m] = "placed" \/ \A q \in Run : run'[q].on = m => Settled(q)'
    BY DEF Clears
<1>1. \A m \in Instance : nodes'[m] = "absent" <=> nodes[m] = "absent"
    BY DEF Clears
<1>2. \A m, n \in Instance : nodes'[m] = "absent" /\ m < n => nodes'[n] = "absent"
    BY <1>1 DEF NodesInv
<1>3. ASSUME NEW m \in Instance, nodes'[m] = "absent"
      PROVE  ~record'[m].made /\ \A q \in Run : run'[q].on # m
    <2>1. nodes[m] = "absent" /\ m \notin S BY <1>1, <1>3
    <2> QED BY <2>1 DEF NodesInv, KeepsRows, Stirs
<1>4. ASSUME NEW m \in Instance, nodes'[m] # "placed", NEW q \in Run, run'[q].on = m
      PROVE  Settled(q)'
    <2>1. CASE nodes'[m] = nodes[m]
        <3>1. m \notin S BY <1>4, <2>1
        <3>2. run[q].on = m /\ (Settled(q) => Settled(q)') BY <1>4, <3>1 DEF Stirs
        <3> QED BY <1>4, <2>1, <3>2 DEF NodesInv
    <2>2. CASE nodes'[m] # nodes[m] BY <1>4, <2>2 DEF Clears
    <2> QED BY <2>1, <2>2
<1>5. ASSUME NEW q \in Run PROVE run'[q].status = "absent" \/ run'[q].on \in Instance
    BY DEF Stirs, NodesInv
<1> QED BY <1>2, <1>3, <1>4, <1>5 DEF NodesInv

LEMMA RowsKept ==
    ASSUME RowsInv, KeepsRows
    PROVE  RowsInv'
BY DEF RowsInv, KeepsRows

\* A row keeps what a waiting teardown has read of it.
RowKept(m) ==
    /\ record'[m].made = record[m].made /\ record'[m].parent = record[m].parent
    /\ record'[m].reclaimed = record[m].reclaimed

\* A family that the step leaves alone: its rows do not change, no Run starts on
\* it.  A waiting teardown has no family yet.
LEMMA FamilyKept ==
    ASSUME Typed, NodesInv, NEW i \in Instance, FamilyInv(i), call'[i] = call[i],
           NEW S, Stirs(S),
           call[i].phase = "wait" => RowKept(i),
           call[i].phase # "wait" =>
               /\ \A m \in call[i].family : record'[m] = record[m]
               /\ \A m \in call[i].family : nodes[m] \notin {"absent", "placed"} => nodes'[m] # "placed"
               /\ \A m \in Instance : record'[m].made /\ record'[m].parent \in call[i].family =>
                                          record[m].made /\ record[m].parent = record'[m].parent
               /\ \A m \in S : m \notin call[i].family
    PROVE  FamilyInv(i)'
<1>1. call[i].family \in SUBSET Instance BY DEF Typed, TypeOK
<1>2. CASE call[i].phase = "wait"
    BY <1>2 DEF FamilyInv, Reading, RowKept
<1>3. CASE call[i].phase # "wait"
    <2>1. ClosedFamily(i) BY <1>3 DEF FamilyInv
    <2>2. ASSUME NEW m \in call[i].family
          PROVE  /\ record'[m].made /\ record'[m].stopping /\ record'[m] = call'[i].copy[m]
                 /\ call'[i].phase = "deleted" => nodes'[m] # "placed"
        BY <1>1, <1>3, <2>1, <2>2 DEF ClosedFamily, NodesInv
    <2>3. \A m \in Instance : record'[m].made /\ record'[m].parent \in call'[i].family
                                   => m \in call'[i].family
        BY <1>3, <2>1 DEF ClosedFamily
    <2>4. ASSUME NEW q \in Run, run'[q].on \in call'[i].family, ~Settled(q)'
          PROVE  run'[q].on \in call'[i].agents \/ q \in call'[i].left
        <3>1. run'[q].on \notin S BY <1>3, <2>4
        <3>2. run'[q].on = run[q].on /\ ~Settled(q) BY <2>4, <3>1 DEF Stirs
        <3> QED BY <2>1, <2>4, <3>2 DEF ClosedFamily
    <2>5. ClosedFamily(i)' BY <2>2, <2>3, <2>4 DEF ClosedFamily
    <2>6. call'[i].phase # "idle" => i \in call'[i].family BY DEF FamilyInv
    <2> QED BY <1>3, <2>5, <2>6 DEF FamilyInv
<1> QED BY <1>2, <1>3

LEMMA NoFamily ==
    ASSUME NEW i \in Instance, call'[i] = NoCall
    PROVE  FamilyInv(i)' /\ call'[i].family = {}
<1>1. call'[i].family = {} /\ call'[i].phase = "idle" BY NoCallType
<1> QED BY <1>1 DEF FamilyInv, ClosedFamily

LEMMA SweepKept ==
    ASSUME SweepInv, Typed, admission' \in {admission, Free},
           \A m \in DOMAIN sweep' : m \in DOMAIN sweep /\ sweep'[m] = sweep[m],
           \A m \in DOMAIN sweep' : /\ record[m].made => record'[m].made
                                    /\ record[m].made => record'[m].parent = record[m].parent
                                    /\ record[m].reclaimed => record'[m].reclaimed
    PROVE  SweepInv'
BY DEF SweepInv

\* A reclaimed instance stays as it is.
LEMMA ReclaimedKept ==
    ASSUME Typed, NodesInv, ReclaimedIsGone, NEW i \in Instance, record[i].reclaimed,
           nodes'[i] = nodes[i],
           \A m \in Instance : nodes[m] \notin {"absent", "placed"} => nodes'[m] # "placed",
           \A m \in Instance : record'[m].made /\ record'[m].parent = i =>
                                   record[m].made /\ record[m].parent = i,
           NEW S, Stirs(S), i \notin S
    PROVE  /\ nodes'[i] = "gone"
           /\ \A r \in RunsOn(i)' : Settled(r)'
           /\ \A m \in Instance : record'[m].made /\ record'[m].parent = i => nodes'[m] # "placed"
<1>1. nodes'[i] = "gone" BY DEF ReclaimedIsGone
<1>2. ASSUME NEW q \in Run, run'[q].on = i PROVE Settled(q)'
    <2>1. run[q].on = i /\ (Settled(q) => Settled(q)') BY <1>2 DEF Stirs
    <2>2. Settled(q) BY <2>1 DEF ReclaimedIsGone, RunsOn
    <2> QED BY <2>1, <2>2
<1>3. ASSUME NEW m \in Instance, record'[m].made, record'[m].parent = i
      PROVE  nodes'[m] # "placed"
    <2>1. record[m].made /\ record[m].parent = i BY <1>3
    <2>2. nodes[m] # "placed" BY <2>1 DEF ReclaimedIsGone
    <2>3. nodes[m] # "absent" BY <2>1 DEF NodesInv
    <2> QED BY <2>2, <2>3
<1> QED BY <1>1, <1>2, <1>3 DEF RunsOn

\* The parts that say nothing about calls and the sweep.
LEMMA QuietKept ==
    ASSUME Typed, NodesInv, RowsInv, ReclaimedIsGone, KeepsRows, Clears,
           NEW S \in SUBSET Instance, Stirs(S), \A m \in S : nodes[m] = "placed",
           \A m \in Instance : record'[m].reclaimed => record[m].reclaimed
    PROVE  NodesInv' /\ RowsInv' /\ ReclaimedIsGone'
<1>1. NodesInv' BY NodesKept
<1>2. RowsInv' BY RowsKept
<1>3. \A m \in Instance : nodes[m] \notin {"absent", "placed"} => nodes'[m] # "placed"
    BY DEF Clears
<1>4. ASSUME NEW i \in Instance, record'[i].reclaimed
      PROVE  /\ nodes'[i] = "gone"
             /\ \A r \in RunsOn(i)' : Settled(r)'
             /\ \A m \in Instance : record'[m].made /\ record'[m].parent = i => nodes'[m] # "placed"
    <2>1. record[i].reclaimed BY <1>4
    <2>2. nodes[i] = "gone" BY <2>1 DEF ReclaimedIsGone
    <2>3. i \notin S /\ nodes'[i] = nodes[i] BY <2>2 DEF Clears
    <2>4. \A m \in Instance : record'[m].made /\ record'[m].parent = i =>
                                  record[m].made /\ record[m].parent = i
        BY DEF KeepsRows
    <2> QED BY <1>3, <2>1, <2>3, <2>4, ReclaimedKept
<1>5. ReclaimedIsGone' BY <1>4 DEF ReclaimedIsGone
<1> QED BY <1>1, <1>2, <1>5

\* An open instance stays open while the mutation lock is held.
LEMMA PendingKept ==
    ASSUME Typed, PendingInv, KeepsRows, admission' \in {admission, Free},
           \A m \in Instance : nodes[m] = "placed" => nodes'[m] = "placed",
           \A m \in Instance : ~record[m].stopping => /\ record'[m].stopping = record[m].stopping
                                                      /\ record'[m].reclaimed = record[m].reclaimed,
           NEW S \in SUBSET Instance, Stirs(S), \A m \in S : record[m].made
    PROVE  PendingInv'
<1> SUFFICES ASSUME admission' # Free PROVE PendingInv'
    BY DEF PendingInv, Free
<1>1. admission' = admission /\ admission # Free OBVIOUS
<1>2. /\ admission.inst \in Instance /\ nodes'[admission.inst] = "placed"
      /\ ~record'[admission.inst].made
    BY <1>1 DEF PendingInv, KeepsRows
<1>3. \A q \in Run : run'[q].on # admission.inst
    BY <1>1 DEF PendingInv, Stirs
<1>4. ASSUME admission.caller # 0
      PROVE  /\ run'[admission.caller].on \in Instance
             /\ run'[admission.caller].on < admission.inst
             /\ ~record'[run'[admission.caller].on].stopping
             /\ ~record'[run'[admission.caller].on].reclaimed
    <2>1. admission.caller \in Run BY <1>4 DEF Typed, TypeOK, Run
    <2>2. run[admission.caller].on \in Instance BY <1>1, <1>4 DEF PendingInv
    <2>3. run'[admission.caller].on = run[admission.caller].on BY <2>1, <2>2, Small DEF Stirs
    <2> QED BY <1>1, <1>4, <2>2, <2>3 DEF PendingInv
<1> QED BY <1>1, <1>2, <1>3, <1>4 DEF PendingInv, Free

LEMMA FreePending == admission' = Free => PendingInv'
BY DEF PendingInv, Free

\* No family and no record of the sweep is touched.
LEMMA CallsKept ==
    ASSUME TeardownInv, call' = call, KeepsRows, Clears, NEW S \in SUBSET Instance, Stirs(S),
           \A m \in S : ~record[m].stopping,
           \A m \in Instance : record'[m].reclaimed = record[m].reclaimed,
           \A m \in Instance : record[m].stopping => record'[m] = record[m]
    PROVE  (\A j \in Instance : FamilyInv(j)') /\ Disjoint'
<1>1. ASSUME NEW j \in Instance PROVE FamilyInv(j)'
    <2>0. call[j].family \in SUBSET Instance BY DEF TeardownInv, Typed, TypeOK
    <2>1. call[j].phase # "wait" => \A m \in call[j].family : record[m].stopping
        BY DEF TeardownInv, FamilyInv, ClosedFamily
    <2>2. call[j].phase # "wait" => \A m \in call[j].family : record'[m] = record[m] /\ m \notin S
        BY <2>0, <2>1
    <2>3. \A m \in call[j].family : nodes[m] \notin {"absent", "placed"} => nodes'[m] # "placed"
        BY <2>0 DEF Clears
    <2>4. \A m \in Instance : record'[m].made /\ record'[m].parent \in call[j].family =>
                                  record[m].made /\ record[m].parent = record'[m].parent
        BY DEF KeepsRows
    <2>5. Typed /\ NodesInv /\ FamilyInv(j) /\ call'[j] = call[j] BY DEF TeardownInv
    <2>6. RowKept(j) BY DEF RowKept, KeepsRows
    <2> QED BY <2>2, <2>3, <2>4, <2>5, <2>6, FamilyKept
<1>2. Disjoint' BY DEF TeardownInv, Disjoint
<1> QED BY <1>1, <1>2

-----------------------------------------------------------------------------
(* Summons and Runs.                                                       *)

\* No row opens or closes, and a closed one does not change.
Rests ==
    /\ KeepsRows
    /\ \A m \in Instance : /\ record'[m].stopping = record[m].stopping
                           /\ record'[m].reclaimed = record[m].reclaimed
                           /\ record[m].stopping => record'[m] = record[m]

LEMMA RestsSame == record' = record => Rests
BY DEF Rests, KeepsRows

\* A step that opens and closes no instance and moves no call.
LEMMA StillKept ==
    ASSUME TeardownInv, Typed', Rests, call' = call, Clears,
           NEW S \in SUBSET Instance, Stirs(S),
           \A m \in S : nodes[m] = "placed" /\ record[m].made /\ ~record[m].stopping,
           \/ admission' = Free
           \/ /\ admission' = admission
              /\ \A m \in Instance : nodes[m] = "placed" => nodes'[m] = "placed",
           \A m \in DOMAIN sweep' : m \in DOMAIN sweep /\ sweep'[m] = sweep[m]
    PROVE  TeardownInv'
<1>1. /\ Typed /\ NodesInv /\ RowsInv /\ PendingInv /\ SweepInv /\ ReclaimedIsGone
    BY DEF TeardownInv
<1>2. KeepsRows /\ \A m \in Instance : record'[m].reclaimed => record[m].reclaimed
    BY DEF Rests
<1>3. NodesInv' /\ RowsInv' /\ ReclaimedIsGone' BY <1>1, <1>2, QuietKept
<1>4. PendingInv'
    <2>1. CASE admission' = Free BY <2>1, FreePending
    <2>2. CASE admission' = admission /\ \A m \in Instance : nodes[m] = "placed" => nodes'[m] = "placed"
        <3>1. admission' \in {admission, Free} BY <2>2
        <3> QED BY <1>1, <1>2, <2>2, <3>1, PendingKept DEF Rests
    <2> QED BY <2>1, <2>2
<1>5. (\A j \in Instance : FamilyInv(j)') /\ Disjoint' BY <1>2, CallsKept DEF Rests
<1>6. SweepInv'
    <2>1. DOMAIN sweep \in SUBSET Instance BY <1>1 DEF Typed, TypeOK
    <2>2. admission' \in {admission, Free} OBVIOUS
    <2> QED BY <1>1, <1>2, <2>1, <2>2, SweepKept DEF Rests, KeepsRows
<1> QED BY <1>3, <1>4, <1>5, <1>6 DEF TeardownInv


LEMMA QuietSteps ==
    ASSUME TeardownInv, Typed',
           \/ SummonFails \/ SummonDropped
           \/ \E r \in Run : RunEnds(r) \/ RunSettles(r)
           \/ \E i \in Instance : DebtPaid(i)
           \/ SweepSkips
           \/ UNCHANGED vars
    PROVE  TeardownInv'
<1>0. Typed /\ NodesInv /\ PendingInv BY DEF TeardownInv
<1>1. CASE SummonFails
    <2>1. /\ record' = record /\ call' = call /\ sweep' = sweep /\ run' = run
          /\ admission # Free /\ admission' = Free
          /\ nodes' = [nodes EXCEPT ![admission.inst] = "gone"]
        BY <1>1 DEF SummonFails, Unlocked
    <2>2. nodes[admission.inst] = "placed" /\ \A q \in Run : run[q].on # admission.inst
        BY <1>0, <2>1 DEF PendingInv
    <2>3. Clears
        <3>1. nodes \in [Instance -> {"absent", "placed", "debt", "gone"}]
            BY <1>0 DEF Typed, TypeOK
        <3> QED BY <2>1, <2>2, <3>1 DEF Clears
    <2>4. Rests /\ Stirs({}) BY <2>1, RestsSame, StirsSame
    <2>5. \A m \in DOMAIN sweep' : m \in DOMAIN sweep /\ sweep'[m] = sweep[m] BY <2>1
    <2> QED BY <2>1, <2>3, <2>4, <2>5, StillKept
<1>2. CASE SummonDropped
    <2>1. /\ record' = record /\ call' = call /\ sweep' = sweep /\ run' = run /\ nodes' = nodes
          /\ admission' = Free
        BY <1>2 DEF SummonDropped
    <2>2. Clears /\ Rests /\ Stirs({}) BY <2>1, RestsSame, StirsSame DEF Clears
    <2>3. \A m \in DOMAIN sweep' : m \in DOMAIN sweep /\ sweep'[m] = sweep[m] BY <2>1
    <2> QED BY <2>1, <2>2, <2>3, StillKept
<1>3. ASSUME NEW r \in Run, RunEnds(r) \/ RunSettles(r) PROVE TeardownInv'
    <2>1. /\ record' = record /\ call' = call /\ sweep' = sweep /\ nodes' = nodes
          /\ admission' = admission
        BY <1>3 DEF RunEnds, RunSettles
    <2>2. RunsEnd
        <3>1. PICK s \in {"ended", "settled"} :
                  /\ run' = [run EXCEPT ![r].status = s]
                  /\ run[r].status \in {"live", "ended"}
            BY <1>3 DEF RunEnds, RunSettles, Live
        <3>2. run'[r] = [run[r] EXCEPT !.status = s] /\ \A q \in Run \ {r} : run'[q] = run[q]
            BY <1>0, <3>1, RunStatusType
        <3>3. run'[r].on = run[r].on /\ run'[r].status = s
            BY <1>0, <3>2, StatusType
        <3> QED BY <3>1, <3>2, <3>3 DEF RunsEnd, Settled
    <2>3. Clears /\ Rests /\ Stirs({}) BY <2>1, <2>2, RestsSame, StirsNone DEF Clears
    <2>4. \A m \in DOMAIN sweep' : m \in DOMAIN sweep /\ sweep'[m] = sweep[m] BY <2>1
    <2> QED BY <2>1, <2>3, <2>4, StillKept
<1>4. ASSUME NEW i \in Instance, DebtPaid(i) PROVE TeardownInv'
    <2>1. /\ record' = record /\ call' = call /\ sweep' = sweep /\ run' = run
          /\ admission' = admission
          /\ nodes[i] = "debt" /\ nodes' = [nodes EXCEPT ![i] = "gone"]
        BY <1>4 DEF DebtPaid
    <2>2. nodes \in [Instance -> {"absent", "placed", "debt", "gone"}]
        BY <1>0 DEF Typed, TypeOK
    <2>3. Clears /\ \A m \in Instance : nodes[m] = "placed" => nodes'[m] = "placed"
        <3>1. \A q \in Run : run'[q].on = i => Settled(q)'
            BY <1>0, <2>1 DEF NodesInv, Settled
        <3> QED BY <2>1, <2>2, <3>1 DEF Clears
    <2>4. Rests /\ Stirs({}) BY <2>1, RestsSame, StirsSame
    <2>5. \A m \in DOMAIN sweep' : m \in DOMAIN sweep /\ sweep'[m] = sweep[m] BY <2>1
    <2> QED BY <2>1, <2>3, <2>4, <2>5, StillKept
<1>5. CASE SweepSkips \/ UNCHANGED vars
    <2>1. /\ record' = record /\ call' = call /\ run' = run /\ admission' = admission
          /\ nodes' = nodes
          /\ \A m \in DOMAIN sweep' : m \in DOMAIN sweep /\ sweep'[m] = sweep[m]
        BY <1>0, <1>5, SkipsEffect DEF vars
    <2>2. Clears /\ Rests /\ Stirs({}) BY <2>1, RestsSame, StirsSame DEF Clears
    <2> QED BY <2>1, <2>2, StillKept
<1> QED BY <1>1, <1>2, <1>3, <1>4, <1>5

\* A Run starts on an open instance that is placed.
LEMMA StartSteps ==
    ASSUME TeardownInv, Typed',
           \/ \E i \in Instance, c \in 0..MaxRuns : SummonAgain(i, c)
           \/ \E i \in Instance : DirectRun(i)
    PROVE  TeardownInv'
<1>0. Typed BY DEF TeardownInv
<1>1. PICK i \in Instance, c \in 0..MaxRuns :
          /\ StartRun(i, c) /\ record[i].made /\ nodes[i] = "placed" /\ ~record[i].stopping
          /\ SummonAgain(i, c) \/ DirectRun(i)
    <2>1. 0 \in 0..MaxRuns OBVIOUS
    <2> QED BY <2>1 DEF SummonAgain, DirectRun, Closed
<1>2. nodes' = nodes /\ admission' = admission /\ call' = call /\ sweep' = sweep
    BY <1>1 DEF SummonAgain, DirectRun
<1>3. Rests
    <2>1. CASE record' = record BY <2>1, RestsSame
    <2>2. CASE SummonAgain(i, c)
        <3> DEFINE att == record[i].attempts \union First({x \in Run : run[x] = NoRun})
        <3>1. record' = [record EXCEPT ![i] = [record[i] EXCEPT !.attempts = att]]
            BY <2>2 DEF SummonAgain
        <3>2. record[i] \in Record /\ record \in [Instance -> Record] BY <1>0 DEF Typed, TypeOK
        <3> HIDE DEF att
        <3> DEFINE new == [record[i] EXCEPT !.attempts = att]
        <3>3. /\ new.made = record[i].made /\ new.parent = record[i].parent
              /\ new.stopping = record[i].stopping /\ new.reclaimed = record[i].reclaimed
            BY <3>2 DEF Record
        <3>4. record' = [record EXCEPT ![i] = new] BY <3>1
        <3> HIDE DEF new
        <3>5. record'[i] = new /\ \A m \in Instance \ {i} : record'[m] = record[m]
            BY <3>2, <3>4
        <3> QED BY <1>1, <3>3, <3>5 DEF Rests, KeepsRows
    <2> QED BY <1>1, <2>1, <2>2 DEF DirectRun
<1>4. Stirs({i}) BY <1>0, <1>1, StirsStart
<1>5. Clears BY <1>2 DEF Clears
<1>6. \A m \in DOMAIN sweep' : m \in DOMAIN sweep /\ sweep'[m] = sweep[m] BY <1>2
<1>7. /\ {i} \in SUBSET Instance
      /\ \A m \in {i} : nodes[m] = "placed" /\ record[m].made /\ ~record[m].stopping
    BY <1>1
<1>8. \/ admission' = Free
      \/ /\ admission' = admission
         /\ \A m \in Instance : nodes[m] = "placed" => nodes'[m] = "placed"
    BY <1>2
<1> QED BY <1>2, <1>3, <1>4, <1>5, <1>6, <1>7, <1>8, StillKept

\* A copy is placed: its nodes are the first that were absent, and the caller's
\* instance is an earlier and open one.
LEMMA SummonBeginsKept ==
    ASSUME TeardownInv, Typed', NEW c \in 0..MaxRuns, SummonBegins(c)
    PROVE  TeardownInv'
<1>0. /\ Typed /\ NodesInv /\ RowsInv /\ PendingInv /\ SweepInv /\ ReclaimedIsGone /\ Disjoint
      /\ nodes \in [Instance -> {"absent", "placed", "debt", "gone"}]
      /\ Instance \in SUBSET Nat
    BY Small DEF TeardownInv, Typed, TypeOK
<1>1. PICK i \in Instance :
          /\ nodes[i] = "absent" /\ \A m \in Instance : nodes[m] = "absent" => i <= m
          /\ nodes' = [nodes EXCEPT ![i] = "placed"]
          /\ admission' = [inst |-> i, caller |-> c]
    BY DEF SummonBegins, First
<1>2. /\ record' = record /\ run' = run /\ call' = call /\ sweep' = sweep /\ MayCall(c)
    BY DEF SummonBegins
<1>3. nodes'[i] = "placed" /\ \A m \in Instance \ {i} : nodes'[m] = nodes[m]
    BY <1>0, <1>1
<1>4. ~record[i].made /\ \A q \in Run : run[q].on # i
    BY <1>0, <1>1 DEF NodesInv
<1>5. NodesInv'
    <2>1. ASSUME NEW m \in Instance, NEW n \in Instance, nodes'[m] = "absent", m < n
          PROVE  nodes'[n] = "absent"
        <3>1. m # i /\ nodes[m] = "absent" BY <1>3, <2>1
        <3>2. i <= m BY <1>1, <3>1
        <3>3. n # i BY <1>0, <2>1, <3>1, <3>2
        <3>4. nodes[n] = "absent" BY <1>0, <2>1, <3>1 DEF NodesInv
        <3> QED BY <1>3, <3>3, <3>4
    <2>2. \A m \in Instance : nodes'[m] = "absent" => /\ ~record'[m].made
                                                     /\ \A q \in Run : run'[q].on # m
        BY <1>0, <1>2, <1>3 DEF NodesInv
    <2>3. \A m \in Instance : nodes'[m] # "placed" => \A q \in Run : run'[q].on = m => Settled(q)'
        BY <1>0, <1>2, <1>3 DEF NodesInv, Settled
    <2>4. \A q \in Run : run'[q].status = "absent" \/ run'[q].on \in Instance
        BY <1>0, <1>2 DEF NodesInv
    <2> QED BY <2>1, <2>2, <2>3, <2>4 DEF NodesInv
<1>6. RowsInv' BY <1>0, <1>2 DEF RowsInv
<1>7. PendingInv'
    <2>1. admission'.inst = i /\ admission'.caller = c BY <1>1
    <2>2. ASSUME c # 0
          PROVE  run[c].on \in Instance /\ run[c].on < i /\ ~record[run[c].on].stopping
                 /\ ~record[run[c].on].reclaimed
        <3>1. c \in Run /\ Live(c) /\ ~record[run[c].on].stopping
            BY <1>2, <2>2 DEF MayCall, Run
        <3>2. run[c].on \in Instance /\ ~Settled(c) BY <1>0, <3>1 DEF NodesInv, Live, Settled
        <3>3. nodes[run[c].on] = "placed" BY <1>0, <3>1, <3>2 DEF NodesInv
        <3>4. run[c].on # i /\ ~(i < run[c].on) BY <1>0, <1>1, <3>2, <3>3 DEF NodesInv
        <3>5. run[c].on < i
            <4>1. run[c].on \in Nat /\ i \in Nat BY <1>0, <3>2
            <4> QED BY <3>4, <4>1
        <3>6. ~record[run[c].on].reclaimed BY <1>0, <3>2, <3>3 DEF ReclaimedIsGone
        <3> QED BY <3>1, <3>2, <3>5, <3>6
    <2>3. nodes'[i] = "placed" /\ ~record'[i].made /\ \A q \in Run : run'[q].on # i
        BY <1>2, <1>3, <1>4
    <2>4. c # 0 => /\ run'[c].on \in Instance /\ run'[c].on < i
                   /\ ~record'[run'[c].on].stopping /\ ~record'[run'[c].on].reclaimed
        BY <1>2, <2>2
    <2> QED BY <2>1, <2>3, <2>4 DEF PendingInv
<1>8. Stirs({}) BY <1>2, StirsSame
<1>9. ASSUME NEW j \in Instance PROVE FamilyInv(j)'
    <2>1. call[j].family \in SUBSET Instance /\ FamilyInv(j) BY DEF TeardownInv, Typed, TypeOK
    <2>2. \A m \in call[j].family : nodes[m] \notin {"absent", "placed"} => nodes'[m] # "placed"
        BY <1>1, <1>3, <2>1
    <2>3. RowKept(j) BY <1>2 DEF RowKept
    <2> QED BY <1>0, <1>2, <1>8, <2>1, <2>2, <2>3, FamilyKept
<1>10. Disjoint' BY <1>0, <1>2 DEF Disjoint
<1>11. SweepInv'
    <2>1. sweep = <<>> BY DEF SummonBegins, Serving
    <2>2. DOMAIN sweep = {} BY <2>1
    <2> QED BY <1>2, <2>2 DEF SweepInv
<1>12. ReclaimedIsGone'
    <2>1. ASSUME NEW m \in Instance, record'[m].reclaimed
          PROVE  /\ nodes'[m] = "gone"
                 /\ \A r \in RunsOn(m)' : Settled(r)'
                 /\ \A n \in Instance : record'[n].made /\ record'[n].parent = m => nodes'[n] # "placed"
        <3>1. record[m].reclaimed BY <1>2, <2>1
        <3>2. nodes[m] = "gone" BY <1>0, <3>1 DEF ReclaimedIsGone
        <3>3. nodes'[m] = nodes[m] BY <1>1, <1>3, <3>2
        <3>4. \A n \in Instance : nodes[n] \notin {"absent", "placed"} => nodes'[n] # "placed"
            BY <1>1, <1>3
        <3> QED BY <1>0, <1>2, <1>8, <3>1, <3>3, <3>4, ReclaimedKept
    <2> QED BY <2>1 DEF ReclaimedIsGone
<1> QED BY <1>5, <1>6, <1>7, <1>9, <1>10, <1>11, <1>12 DEF TeardownInv

\* The row that a summon saves, and the Run it may start.
LEMMA AdmitsEffect ==
    ASSUME Typed, SummonAdmits, admission.inst \in Instance
    PROVE  /\ \A m \in Instance \ {admission.inst} : record'[m] = record[m]
           /\ record'[admission.inst].made
           /\ ~record'[admission.inst].stopping /\ ~record'[admission.inst].reclaimed
           /\ record'[admission.inst].parent =
                (IF admission.caller = 0 THEN 0 ELSE run[admission.caller].on)
           /\ Stirs({}) \/ Stirs({admission.inst})
           /\ nodes' = nodes /\ call' = call /\ sweep' = sweep /\ admission' = Free
<1> DEFINE i == admission.inst
           c == admission.caller
           from == IF c = 0 THEN 0 ELSE run[c].on
           new == [NoRecord EXCEPT !.made = TRUE, !.parent = from]
           att == First({x \in Run : run[x] = NoRun})
           started == [new EXCEPT !.attempts = att]
<1>1. /\ record' = [record EXCEPT ![i] = new] \/ record' = [record EXCEPT ![i] = started]
      /\ run' = run \/ StartRun(i, c)
      /\ nodes' = nodes /\ call' = call /\ sweep' = sweep /\ admission' = Free
    BY DEF SummonAdmits
<1>2. /\ new.made /\ new.parent = from /\ ~new.stopping /\ ~new.reclaimed
      /\ started.made /\ started.parent = from /\ ~started.stopping /\ ~started.reclaimed
    <2> HIDE DEF from, att
    <2> QED BY DEF NoRecord
<1>3. record \in [Instance -> Record] /\ c \in 0..MaxRuns BY DEF Typed, TypeOK
<1>4. Stirs({}) \/ Stirs({i})
    <2>1. CASE run' = run BY <2>1, StirsSame
    <2>2. CASE StartRun(i, c)
        <3>1. PICK x \in Instance, y \in 0..MaxRuns : x = i /\ y = c BY <1>3
        <3> QED BY <2>2, <3>1, StirsStart
    <2> QED BY <1>1, <2>1, <2>2
<1>5. i \in Instance OBVIOUS
<1> HIDE DEF new, started, from, i
<1>6. /\ \A m \in Instance \ {i} : record'[m] = record[m]
      /\ record'[i] = new \/ record'[i] = started
    BY <1>1, <1>3, <1>5
<1>7. record'[i].made /\ record'[i].parent = from /\ ~record'[i].stopping /\ ~record'[i].reclaimed
    BY <1>2, <1>6
<1> QED BY <1>1, <1>4, <1>6, <1>7 DEF i, from

LEMMA SummonAdmitsKept ==
    ASSUME TeardownInv, Typed', SummonAdmits
    PROVE  TeardownInv'
<1>0. /\ Typed /\ NodesInv /\ RowsInv /\ PendingInv /\ SweepInv /\ ReclaimedIsGone /\ Disjoint
      /\ DOMAIN sweep \in SUBSET Instance
    BY DEF TeardownInv, Typed, TypeOK
<1> DEFINE i == admission.inst
           from == IF admission.caller = 0 THEN 0 ELSE run[admission.caller].on
<1>1. admission # Free BY DEF SummonAdmits, Unlocked
<1>2. /\ i \in Instance /\ nodes[i] = "placed" /\ ~record[i].made
      /\ \A q \in Run : run[q].on # i
      /\ from # 0 => /\ from \in Instance /\ from < i /\ ~record[from].stopping
                     /\ ~record[from].reclaimed
    BY <1>0, <1>1 DEF PendingInv
<1>3. /\ \A m \in Instance \ {i} : record'[m] = record[m]
      /\ record'[i].made /\ ~record'[i].stopping /\ ~record'[i].reclaimed
      /\ record'[i].parent = from
      /\ Stirs({}) \/ Stirs({i})
      /\ nodes' = nodes /\ call' = call /\ sweep' = sweep /\ admission' = Free
    BY <1>0, <1>2, AdmitsEffect
<1> HIDE DEF i, from
<1>4. PICK S \in SUBSET {i} : Stirs(S) BY <1>3
<1>5. NodesInv'
    <2>1. \A m, n \in Instance : nodes'[m] = "absent" /\ m < n => nodes'[n] = "absent"
        BY <1>0, <1>3 DEF NodesInv
    <2>2. ASSUME NEW m \in Instance, nodes'[m] = "absent"
          PROVE  ~record'[m].made /\ \A q \in Run : run'[q].on # m
        <3>1. nodes[m] = "absent" /\ m # i /\ m \notin S BY <1>2, <1>3, <2>2
        <3> QED BY <1>0, <1>3, <1>4, <3>1 DEF NodesInv, Stirs
    <2>3. ASSUME NEW m \in Instance, nodes'[m] # "placed", NEW q \in Run, run'[q].on = m
          PROVE  Settled(q)'
        <3>1. nodes[m] # "placed" /\ m \notin S BY <1>2, <1>3, <2>3
        <3> QED BY <1>0, <1>4, <2>3, <3>1 DEF NodesInv, Stirs
    <2>4. ASSUME NEW q \in Run PROVE run'[q].status = "absent" \/ run'[q].on \in Instance
        BY <1>0, <1>2, <1>4 DEF NodesInv, Stirs
    <2> QED BY <2>1, <2>2, <2>3, <2>4 DEF NodesInv
<1>6. RowsInv' BY <1>0, <1>2, <1>3 DEF RowsInv
<1>7. PendingInv' BY <1>3, FreePending
<1>8. ASSUME NEW j \in Instance PROVE FamilyInv(j)'
    <2>1. call[j].family \in SUBSET Instance /\ FamilyInv(j) BY DEF TeardownInv, Typed, TypeOK
    <2>2. call[j].phase # "wait" => i \notin call[j].family /\ from \notin call[j].family
        BY <1>2, <2>1, Small DEF FamilyInv, ClosedFamily
    <2>3. call[j].phase # "wait" => \A m \in call[j].family : record'[m] = record[m]
        BY <1>3, <2>1, <2>2
    <2>4. \A m \in call[j].family : nodes[m] \notin {"absent", "placed"} => nodes'[m] # "placed"
        BY <1>3
    <2>5. call[j].phase # "wait" =>
              /\ \A m \in Instance : record'[m].made /\ record'[m].parent \in call[j].family =>
                                        record[m].made /\ record[m].parent = record'[m].parent
              /\ \A m \in S : m \notin call[j].family
        BY <1>3, <2>2
    <2>6. call[j].phase = "wait" => RowKept(j)
        BY <1>2, <1>3, <2>1 DEF FamilyInv, Reading, RowKept
    <2>7. call'[j] = call[j] BY <1>3
    <2> QED BY <1>0, <1>4, <2>1, <2>3, <2>4, <2>5, <2>6, <2>7, FamilyKept
<1>9. Disjoint' BY <1>0, <1>3 DEF Disjoint
<1>10. SweepInv' BY <1>0, <1>2, <1>3 DEF SweepInv
<1>11. ReclaimedIsGone'
    <2>1. ASSUME NEW m \in Instance, record'[m].reclaimed
          PROVE  /\ nodes'[m] = "gone"
                 /\ \A r \in RunsOn(m)' : Settled(r)'
                 /\ \A n \in Instance : record'[n].made /\ record'[n].parent = m => nodes'[n] # "placed"
        <3>1. m # i /\ record[m].reclaimed BY <1>3, <2>1
        <3>2. m # from BY <1>2, <3>1, Small
        <3>3. \A n \in Instance : record'[n].made /\ record'[n].parent = m =>
                                      record[n].made /\ record[n].parent = m
            BY <1>3, <3>2
        <3>4. /\ nodes'[m] = nodes[m] /\ m \notin S
              /\ \A n \in Instance : nodes[n] \notin {"absent", "placed"} => nodes'[n] # "placed"
            BY <1>3, <3>1
        <3> QED BY <1>0, <1>4, <3>1, <3>3, <3>4, ReclaimedKept
    <2> QED BY <2>1 DEF ReclaimedIsGone
<1> QED BY <1>5, <1>6, <1>7, <1>8, <1>9, <1>10, <1>11 DEF TeardownInv

-----------------------------------------------------------------------------
(* Teardowns.                                                              *)

\* A teardown reads its instance: nothing else changes.
LEMMA ReadsKept ==
    ASSUME TeardownInv, Typed', "overlap" \notin Env, NEW i \in Instance,
           NEW action \in {"stop", "reclaim"}, NEW swept \in BOOLEAN,
           ReadsEffect(i, action, swept), record[i].made \/ i \in DOMAIN sweep
    PROVE  TeardownInv'
<1>0. /\ Typed /\ NodesInv /\ RowsInv /\ PendingInv /\ SweepInv /\ ReclaimedIsGone /\ Disjoint
      /\ call \in [Instance -> CallRecord]
    BY DEF TeardownInv, Typed, TypeOK
<1> DEFINE new == Waiting(i, action, swept)
<1>1. /\ record' = record /\ nodes' = nodes /\ run' = run /\ admission' = admission
      /\ sweep' = sweep /\ call' = [call EXCEPT ![i] = new]
      /\ \A j \in Instance : i \notin call[j].family
    BY DEF ReadsEffect, Reads, Waiting
<1>2. new.phase = "wait" /\ new.family = {i} /\ new.copy[i] = record[i]
    BY <1>0, WaitingFacts
<1> HIDE DEF new
<1>3. call'[i] = new /\ \A j \in Instance \ {i} : call'[j] = call[j] BY <1>0, <1>1
<1>4. record[i].made BY <1>0 DEF SweepInv
<1>5. NodesInv' BY <1>0, <1>1 DEF NodesInv, Settled
<1>6. RowsInv' /\ PendingInv' /\ SweepInv' BY <1>0, <1>1 DEF RowsInv, PendingInv, SweepInv
<1>7. ReclaimedIsGone' BY <1>0, <1>1 DEF ReclaimedIsGone, RunsOn, Settled
<1>8. FamilyInv(i)' BY <1>1, <1>2, <1>3, <1>4 DEF FamilyInv, Reading
<1>9. ASSUME NEW j \in Instance \ {i} PROVE FamilyInv(j)'
    <2>1. FamilyInv(j) /\ call'[j] = call[j] BY <1>3 DEF TeardownInv
    <2>2. RowKept(j) /\ Stirs({}) BY <1>1, StirsSame DEF RowKept
    <2>3. call[j].family \in SUBSET Instance BY <1>0 DEF Typed, TypeOK
    <2> QED BY <1>0, <1>1, <2>1, <2>2, <2>3, FamilyKept
<1>10. Disjoint'
    <2> SUFFICES ASSUME NEW j \in Instance, NEW k \in Instance, j # k, NEW m \in call'[j].family
                 PROVE  m \notin call'[k].family
        BY DEF Disjoint
    <2>1. CASE j = i BY <1>1, <1>2, <1>3, <2>1
    <2>2. CASE k = i BY <1>1, <1>2, <1>3, <2>2
    <2>3. CASE j # i /\ k # i BY <1>0, <1>3, <2>3 DEF Disjoint
    <2> QED BY <2>1, <2>2, <2>3
<1> QED BY <1>5, <1>6, <1>7, <1>8, <1>9, <1>10 DEF TeardownInv

\* A family is closed: no one holds the mutation lock, and no other teardown
\* has one of its members.
LEMMA BeginsKept ==
    ASSUME TeardownInv, Typed', "overlap" \notin Env, NEW i \in Instance, Begins(i)
    PROVE  TeardownInv'
<1>0. /\ Typed /\ NodesInv /\ RowsInv /\ PendingInv /\ SweepInv /\ ReclaimedIsGone /\ Disjoint
      /\ DOMAIN sweep \in SUBSET Instance /\ call \in [Instance -> CallRecord]
    BY DEF TeardownInv, Typed, TypeOK
<1> DEFINE family == Family(i)
           new == NewCall(i)
<1>00. i \in call[i].family /\ Reading(i) BY DEF Begins, TeardownInv, FamilyInv
<1>1. /\ call' = [call EXCEPT ![i] = new]
      /\ \A m \in family : record'[m] = RowMarked(i, m)
      /\ \A m \in Instance \ family : record'[m] = record[m]
    BY <1>0, <1>00, BeginsEffect
<1>2. /\ admission = Free
      /\ \A j \in Instance \ {i} : \A m \in call[j].family : m \notin family
      /\ nodes' = nodes /\ run' = run /\ admission' = admission /\ sweep' = sweep
    BY DEF Begins, Unlocked
<1>3. /\ family \in SUBSET Instance /\ i \in family
      /\ \A m \in family : record[m].made
      /\ \A m \in Instance : record[m].made /\ record[m].parent \in family /\ record[m].parent < m
                                => m \in family
    BY <1>00, FamilyFacts DEF Reading
<1>4. /\ new.phase = "cancel" /\ new.family = family
      /\ new.copy = [m \in family |-> RowMarked(i, m)]
      /\ new.agents = {m \in family : nodes[m] = "placed"}
    BY <1>0, <1>00, NewCallFacts
<1>5. ASSUME NEW m \in family
      PROVE  /\ RowMarked(i, m).made = record[m].made /\ RowMarked(i, m).stopping
             /\ RowMarked(i, m).parent = record[m].parent
             /\ RowMarked(i, m).reclaimed = record[m].reclaimed
    <2>1. m \in Instance BY <1>3
    <2>2. /\ RowMarked(i, m).made = Row(i, m).made /\ RowMarked(i, m).stopping
          /\ RowMarked(i, m).parent = Row(i, m).parent
          /\ RowMarked(i, m).reclaimed = Row(i, m).reclaimed
        BY <1>0, <1>00, <2>1, RowMarkedFacts
    <2>3. /\ Row(i, m).made = record[m].made /\ Row(i, m).parent = record[m].parent
          /\ Row(i, m).reclaimed = record[m].reclaimed
        <3>1. record[m].made \in BOOLEAN /\ call[i].copy[i].made \in BOOLEAN
            <4>1. record[m] \in Record /\ call[i].copy[i] \in Record
                BY <1>0, <1>00, <2>1 DEF Typed, TypeOK
            <4> QED BY <4>1 DEF Record
        <3> QED BY <1>00, <3>1 DEF Row, Reading
    <2> QED BY <2>2, <2>3
<1> HIDE DEF family, new
<1>6. call'[i] = new /\ \A j \in Instance \ {i} : call'[j] = call[j] BY <1>0, <1>1
<1>7. KeepsRows BY <1>1, <1>3, <1>5 DEF KeepsRows
<1>8. Clears /\ Stirs({}) BY <1>2, StirsSame DEF Clears
<1>9. NodesInv' /\ RowsInv' /\ ReclaimedIsGone'
    <2>1. \A m \in Instance : record'[m].reclaimed => record[m].reclaimed BY <1>1, <1>5
    <2> QED BY <1>0, <1>7, <1>8, <2>1, QuietKept
<1>10. PendingInv' BY <1>2, FreePending
<1>11. ASSUME NEW j \in Instance \ {i} PROVE FamilyInv(j)'
    <2>1. call[j].family \in SUBSET Instance /\ FamilyInv(j) BY DEF TeardownInv, Typed, TypeOK
    <2>2. \A m \in call[j].family : record'[m] = record[m] BY <1>1, <1>2, <2>1
    <2>3. \A m \in call[j].family : nodes[m] \notin {"absent", "placed"} => nodes'[m] # "placed"
        BY <1>2
    <2>4. \A m \in Instance : record'[m].made /\ record'[m].parent \in call[j].family =>
                                  record[m].made /\ record[m].parent = record'[m].parent
        BY <1>7 DEF KeepsRows
    <2>5. call'[j] = call[j] BY <1>6
    <2>6. call[j].phase = "wait" => RowKept(j) BY <2>1, <2>2 DEF FamilyInv, RowKept
    <2> QED BY <1>0, <1>8, <2>1, <2>2, <2>3, <2>4, <2>5, <2>6, FamilyKept
<1>12. FamilyInv(i)'
    <2>1. \A m \in call'[i].family :
              /\ record'[m].made /\ record'[m].stopping /\ record'[m] = call'[i].copy[m]
              /\ call'[i].phase = "deleted" => nodes'[m] # "placed"
        BY <1>1, <1>3, <1>4, <1>5, <1>6
    <2>2. ASSUME NEW m \in Instance, record'[m].made, record'[m].parent \in family
          PROVE  m \in family
        <3>1. record[m].made /\ record[m].parent = record'[m].parent BY <1>7, <2>2 DEF KeepsRows
        <3>2. record[m].parent # 0 BY <1>3, <2>2, <3>1, Small
        <3>3. record[m].parent < m BY <1>0, <3>1, <3>2 DEF RowsInv
        <3> QED BY <1>3, <2>2, <3>1, <3>3
    <2>3. ASSUME NEW q \in Run, run'[q].on \in family, ~Settled(q)'
          PROVE  run'[q].on \in new.agents
        <3>1. run[q].on \in Instance /\ ~Settled(q) /\ run'[q].on = run[q].on
            BY <1>2, <1>3, <2>3 DEF Settled
        <3>2. nodes[run[q].on] = "placed" BY <1>0, <3>1 DEF NodesInv
        <3> QED BY <1>4, <2>3, <3>1, <3>2
    <2>4. call'[i].family = family /\ call'[i].phase # "wait" BY <1>4, <1>6
    <2>5. ClosedFamily(i)' BY <1>6, <2>1, <2>2, <2>3, <2>4 DEF ClosedFamily
    <2> QED BY <1>3, <2>4, <2>5 DEF FamilyInv
<1>13. Disjoint'
    <2>1. call'[i].family = family BY <1>4, <1>6
    <2>2. ASSUME NEW j \in Instance, NEW k \in Instance, j # k, NEW m \in call'[j].family
          PROVE  m \notin call'[k].family
        <3>1. CASE j = i BY <1>2, <1>6, <2>1, <2>2, <3>1
        <3>2. CASE k = i BY <1>2, <1>6, <2>1, <2>2, <3>2
        <3>3. CASE j # i /\ k # i BY <1>0, <1>6, <2>2, <3>3 DEF Disjoint
        <3> QED BY <3>1, <3>2, <3>3
    <2> QED BY <2>2 DEF Disjoint
<1>14. SweepInv'
    <2>1. \A m \in Instance : record'[m].reclaimed = record[m].reclaimed BY <1>1, <1>5
    <2> QED BY <1>0, <1>2, <1>7, <2>1 DEF SweepInv, KeepsRows
<1> QED BY <1>9, <1>10, <1>11, <1>12, <1>13, <1>14 DEF TeardownInv

\* A call in progress moves on; Runs end, and nodes go where none is left.
LEMMA MovesKept ==
    ASSUME TeardownInv, Typed', NEW i \in Instance, SameFamily(i), RunsEnd, Clears,
           record' = record, admission' = admission, sweep' = sweep,
           nodes' = nodes \/ admission = Free,
           call[i].phase \in {"cancel", "deleted"}, call'[i].phase \in {"cancel", "deleted"},
           call'[i].phase = "deleted" =>
               call[i].phase = "deleted" \/ \A m \in call[i].family : nodes'[m] # "placed",
           \A q \in Run : run[q].on \in call[i].family /\ ~Settled(q)' =>
               \/ run[q].on \notin call[i].agents /\ q \notin call[i].left
               \/ run[q].on \in call'[i].agents \/ q \in call'[i].left
    PROVE  TeardownInv'
<1>0. /\ Typed /\ NodesInv /\ RowsInv /\ PendingInv /\ SweepInv /\ ReclaimedIsGone /\ Disjoint
      /\ \A j \in Instance : FamilyInv(j) /\ call[j].family \in SUBSET Instance
    BY DEF TeardownInv, Typed, TypeOK
<1>1. Stirs({}) /\ KeepsRows BY StirsNone DEF KeepsRows
<1>2. NodesInv' /\ RowsInv' /\ ReclaimedIsGone' BY <1>0, <1>1, QuietKept
<1>3. PendingInv'
    <2>1. CASE admission = Free BY <2>1, FreePending
    <2>2. CASE nodes' = nodes BY <1>0, <1>1, <2>2, PendingKept
    <2> QED BY <2>1, <2>2
<1>4. ASSUME NEW j \in Instance \ {i} PROVE FamilyInv(j)'
    <2>1. call'[j] = call[j] BY DEF SameFamily
    <2>2. \A m \in call[j].family : nodes[m] \notin {"absent", "placed"} => nodes'[m] # "placed"
        BY <1>0 DEF Clears
    <2>3. RowKept(j) BY DEF RowKept
    <2> QED BY <1>0, <1>1, <2>1, <2>2, <2>3, FamilyKept
<1>5. FamilyInv(i)'
    <2>0. ClosedFamily(i) /\ i \in call[i].family BY <1>0 DEF FamilyInv
    <2>1. call'[i].family = call[i].family /\ call'[i].copy = call[i].copy BY DEF SameFamily
    <2>2. ASSUME NEW m \in call[i].family
          PROVE  /\ record'[m].made /\ record'[m].stopping /\ record'[m] = call'[i].copy[m]
                 /\ call'[i].phase = "deleted" => nodes'[m] # "placed"
        <3>1. m \in Instance BY <1>0
        <3>2. /\ record[m].made /\ record[m].stopping /\ record[m] = call[i].copy[m]
              /\ call[i].phase = "deleted" => nodes[m] # "placed"
            BY <2>0 DEF ClosedFamily
        <3>3. nodes[m] # "placed" => nodes'[m] # "placed" BY <3>1 DEF Clears
        <3> QED BY <2>1, <3>2, <3>3
    <2>3. ASSUME NEW q \in Run, run'[q].on \in call[i].family, ~Settled(q)'
          PROVE  run'[q].on \in call'[i].agents \/ q \in call'[i].left
        <3>1. run'[q].on = run[q].on /\ ~Settled(q) BY <2>3 DEF RunsEnd
        <3>2. run[q].on \in call[i].agents \/ q \in call[i].left BY <2>0, <2>3, <3>1 DEF ClosedFamily
        <3> QED BY <2>3, <3>1, <3>2
    <2>4. \A m \in Instance : record[m].made /\ record[m].parent \in call[i].family
                                  => m \in call[i].family
        BY <2>0 DEF ClosedFamily
    <2>5. ClosedFamily(i)' BY <2>1, <2>2, <2>3, <2>4 DEF ClosedFamily
    <2> QED BY <2>0, <2>1, <2>5 DEF FamilyInv
<1>6. Disjoint' BY <1>0 DEF Disjoint, SameFamily
<1>7. SweepInv' BY <1>0 DEF SweepInv
<1> QED BY <1>2, <1>3, <1>4, <1>5, <1>6, <1>7 DEF TeardownInv

LEMMA CallStepsKept ==
    ASSUME TeardownInv, Typed', NEW i \in Instance,
           Cancels(i) \/ AgentCancels(i) \/ Deletes(i)
    PROVE  TeardownInv'
<1>0. Typed /\ NodesInv /\ FamilyInv(i) /\ call[i].family \in SUBSET Instance
    BY DEF TeardownInv, Typed, TypeOK
<1>1. record' = record /\ admission' = admission /\ sweep' = sweep
    BY DEF Cancels, AgentCancels, Deletes
<1>2. call[i].phase \in {"cancel", "deleted"} \/ (call[i].left = {} /\ call[i].agents = {})
    BY <1>0, NoCallType DEF Typed, TypeOK, Empties
<1>3. CASE Cancels(i)
    <2>1. call[i].phase \in {"cancel", "deleted"} BY <1>2, <1>3 DEF Cancels
    <2>2. nodes' = nodes /\ Clears BY <1>3 DEF Cancels, Clears
    <2>3. /\ SameFamily(i) /\ RunsEnd
          /\ call'[i].phase = call[i].phase /\ call'[i].agents = call[i].agents
          /\ \A q \in call[i].left : Settled(q) \/ q \in call'[i].left
        BY <1>0, <1>3, CancelsEffect
    <2>4. \A q \in Run : ~Settled(q)' => ~Settled(q) BY <2>3 DEF RunsEnd
    <2> QED BY <1>1, <2>1, <2>2, <2>3, <2>4, MovesKept
<1>4. CASE AgentCancels(i)
    <2>1. call[i].phase \in {"cancel", "deleted"} BY <1>2, <1>4 DEF AgentCancels, First
    <2>2. nodes' = nodes /\ Clears BY <1>4 DEF AgentCancels, Clears
    <2>3. /\ SameFamily(i) /\ RunsEnd
          /\ call'[i].phase = call[i].phase /\ call[i].left = {}
          /\ \A q \in Run : run[q].on \in call[i].agents =>
                 run[q].on \in call'[i].agents \/ q \in call'[i].left
        BY <1>0, <1>4, AgentCancelsEffect
    <2> QED BY <1>1, <2>1, <2>2, <2>3, MovesKept
<1>5. CASE Deletes(i)
    <2>1. call[i].phase \in {"cancel", "deleted"} /\ admission = Free
        BY <1>5 DEF Deletes, AllJoined, Unlocked
    <2>2. /\ SameFamily(i) /\ RunsEnd /\ call'[i].phase \in {"cancel", "deleted"}
          /\ \A m \in Instance : \/ m \notin call[i].family /\ nodes'[m] = nodes[m]
                                 \/ nodes[m] # "placed" /\ nodes'[m] = nodes[m]
                                 \/ m \in call[i].family /\ nodes'[m] \in {"gone", "debt"}
          /\ \A q \in Run : run[q].on \in call[i].family => Settled(q)'
        BY <1>0, <1>5, DeletesEffect
    <2>3. PICK debt \in {"gone", "debt"} :
              nodes' = [m \in Instance |-> IF m \in call[i].family /\ nodes[m] = "placed"
                                           THEN debt ELSE nodes[m]]
        BY <1>5 DEF Deletes
    <2>4. Clears
        <3>1. \A q \in Run : run'[q].on \in call[i].family => Settled(q)' BY <2>2 DEF RunsEnd
        <3> QED BY <2>3, <3>1 DEF Clears
    <2>5. \A m \in call[i].family : nodes'[m] # "placed" BY <1>0, <2>3
    <2> QED BY <1>1, <2>1, <2>2, <2>4, <2>5, MovesKept
<1> QED BY <1>3, <1>4, <1>5

\* Saving the family, or as much of it as is saved before a crash: what becomes
\* reclaimed is gone, and so is whatever was summoned below it.
LEMMA SavesKept ==
    ASSUME TeardownInv, NEW i \in Instance, Confirmable(i), nodes' = nodes, RunsEnd,
           \A m \in Instance : \/ record'[m] = record[m]
                               \/ m \in call[i].family /\ record'[m] = Confirmed(i, m)
    PROVE  /\ KeepsRows /\ NodesInv' /\ RowsInv' /\ ReclaimedIsGone'
           /\ \A m \in Instance : record[m].reclaimed => record'[m].reclaimed
<1>0. /\ Typed /\ NodesInv /\ RowsInv /\ ReclaimedIsGone /\ ClosedFamily(i)
      /\ call[i].family \in SUBSET Instance
    BY DEF TeardownInv, Typed, TypeOK, FamilyInv, Confirmable, AllJoined
<1>1. ASSUME NEW m \in call[i].family
      PROVE  /\ record[m].made /\ Confirmed(i, m).made = record[m].made
             /\ Confirmed(i, m).parent = record[m].parent
             /\ Confirmed(i, m).reclaimed <=> record[m].reclaimed \/ call[i].action = "reclaim"
    <2>1. record[m] = call[i].copy[m] /\ record[m].made BY <1>0 DEF ClosedFamily
    <2>2. Typed BY <1>0
    <2>3. /\ Confirmed(i, m).made = call[i].copy[m].made
          /\ Confirmed(i, m).parent = call[i].copy[m].parent
          /\ Confirmed(i, m).reclaimed <=> call[i].copy[m].reclaimed \/ call[i].action = "reclaim"
        BY <2>2, SavedFacts
    <2> QED BY <2>1, <2>3
<1>2. KeepsRows BY <1>1 DEF KeepsRows
<1>3. Stirs({}) /\ Clears BY StirsNone DEF Clears
<1>4. NodesInv' /\ RowsInv'
    <2>1. {} \in SUBSET Instance /\ \A m \in {} : nodes[m] = "placed" OBVIOUS
    <2> QED BY <1>0, <1>2, <1>3, <2>1, NodesKept, RowsKept
<1>5. ASSUME NEW m \in Instance, record'[m].reclaimed
      PROVE  /\ nodes'[m] = "gone"
             /\ \A r \in RunsOn(m)' : Settled(r)'
             /\ \A n \in Instance : record'[n].made /\ record'[n].parent = m => nodes'[n] # "placed"
    <2>1. CASE record[m].reclaimed
        <3>1. \A n \in Instance : record'[n].made /\ record'[n].parent = m =>
                                      record[n].made /\ record[n].parent = m
            BY <1>2 DEF KeepsRows
        <3>2. m \notin {} /\ nodes'[m] = nodes[m] OBVIOUS
        <3>3. \A n \in Instance : nodes[n] \notin {"absent", "placed"} => nodes'[n] # "placed"
            OBVIOUS
        <3> QED BY <1>0, <1>3, <2>1, <3>1, <3>2, <3>3, ReclaimedKept
    <2>2. CASE ~record[m].reclaimed
        <3>1. m \in call[i].family /\ call[i].action = "reclaim" BY <1>1, <1>5, <2>2
        <3>2. call[i].phase = "deleted" /\ \A n \in call[i].family : nodes[n] # "debt"
            BY <3>1 DEF Confirmable, DebtFree
        <3>3. \A n \in call[i].family : nodes[n] # "placed" /\ nodes[n] # "absent"
            BY <1>0, <3>2 DEF ClosedFamily, NodesInv
        <3>4. nodes \in [Instance -> {"absent", "placed", "debt", "gone"}]
            BY <1>0 DEF Typed, TypeOK
        <3>5. nodes[m] = "gone" BY <3>1, <3>2, <3>3, <3>4
        <3>6. ASSUME NEW q \in Run, run'[q].on = m PROVE Settled(q)'
            <4>1. run[q].on = m BY <3>6 DEF RunsEnd
            <4>2. Settled(q) BY <1>0, <3>5, <4>1 DEF NodesInv
            <4> QED BY <4>2 DEF RunsEnd
        <3>7. ASSUME NEW n \in Instance, record'[n].made, record'[n].parent = m
              PROVE  nodes'[n] # "placed"
            <4>1. record[n].made /\ record[n].parent = m BY <1>2, <3>7 DEF KeepsRows
            <4>2. n \in call[i].family BY <1>0, <3>1, <4>1 DEF ClosedFamily
            <4> QED BY <3>3, <4>2
        <3> QED BY <3>5, <3>6, <3>7 DEF RunsOn
    <2> QED BY <2>1, <2>2
<1>6. ReclaimedIsGone' BY <1>5 DEF ReclaimedIsGone
<1>7. \A m \in Instance : record[m].reclaimed => record'[m].reclaimed BY <1>1
<1> QED BY <1>2, <1>4, <1>6, <1>7

\* A call ends: the others keep their families.
LEMMA EndsKept ==
    ASSUME TeardownInv, NEW i \in Instance, KeepsRows, nodes' = nodes, run' = run,
           admission' = admission, call'[i] = NoCall,
           \A j \in Instance \ {i} : call'[j] = call[j],
           \A m \in Instance \ call[i].family : record'[m] = record[m],
           \/ admission = Free
           \/ \A m \in Instance : ~record[m].stopping => record'[m] = record[m]
    PROVE  PendingInv' /\ (\A j \in Instance : FamilyInv(j)') /\ Disjoint'
<1>0. /\ Typed /\ NodesInv /\ PendingInv /\ Disjoint
      /\ \A j \in Instance : FamilyInv(j) /\ call[j].family \in SUBSET Instance
    BY DEF TeardownInv, Typed, TypeOK
<1>1. Stirs({}) BY StirsSame
<1>2. PendingInv'
    <2>1. {} \in SUBSET Instance /\ \A m \in {} : record[m].made OBVIOUS
    <2>2. admission' \in {admission, Free} OBVIOUS
    <2> QED BY <1>0, <1>1, <2>1, <2>2, FreePending, PendingKept
<1>3. ASSUME NEW j \in Instance \ {i} PROVE FamilyInv(j)'
    <2>1. \A m \in call[j].family : record'[m] = record[m] BY <1>0 DEF Disjoint
    <2>2. \A m \in call[j].family : nodes[m] \notin {"absent", "placed"} => nodes'[m] # "placed"
        OBVIOUS
    <2>3. \A m \in Instance : record'[m].made /\ record'[m].parent \in call[j].family =>
                                  record[m].made /\ record[m].parent = record'[m].parent
        BY DEF KeepsRows
    <2>4. call'[j] = call[j] /\ FamilyInv(j) /\ \A m \in {} : m \notin call[j].family BY <1>0
    <2>5. call[j].phase = "wait" => RowKept(j) BY <2>1, <2>4 DEF FamilyInv, RowKept
    <2> QED BY <1>0, <1>1, <2>1, <2>2, <2>3, <2>4, <2>5, FamilyKept
<1>4. FamilyInv(i)' /\ call'[i].family = {} BY NoFamily
<1>5. Disjoint' BY <1>0, <1>4 DEF Disjoint
<1> QED BY <1>2, <1>3, <1>4, <1>5

LEMMA ConfirmsKept ==
    ASSUME TeardownInv, NEW i \in Instance, Confirms(i)
    PROVE  TeardownInv'
<1>0. Typed /\ SweepInv /\ DOMAIN sweep \in SUBSET Instance /\ call[i].family \in SUBSET Instance
    BY DEF TeardownInv, Typed, TypeOK
<1>1. /\ Typed' /\ Confirmable(i)
      /\ call'[i] = NoCall /\ \A j \in Instance \ {i} : call'[j] = call[j]
      /\ \A m \in call[i].family : record'[m] = Confirmed(i, m)
      /\ \A m \in Instance \ call[i].family : record'[m] = record[m]
      /\ \A m \in DOMAIN sweep' : m \in DOMAIN sweep /\ sweep'[m] = sweep[m]
      /\ nodes' = nodes /\ run' = run /\ admission' = admission
    BY <1>0, ConfirmsEffect
<1>2. RunsEnd BY <1>1 DEF RunsEnd, Settled
<1>3. /\ KeepsRows /\ NodesInv' /\ RowsInv' /\ ReclaimedIsGone'
      /\ \A m \in Instance : record[m].reclaimed => record'[m].reclaimed
    BY <1>1, <1>2, SavesKept
<1>6. \A m \in call[i].family : record[m].stopping
    BY <1>1 DEF TeardownInv, FamilyInv, ClosedFamily, Confirmable, AllJoined
<1>4. PendingInv' /\ (\A j \in Instance : FamilyInv(j)') /\ Disjoint'
    BY <1>1, <1>3, <1>6, EndsKept
<1>5. SweepInv' BY <1>0, <1>1, <1>3, SweepKept DEF KeepsRows
<1> QED BY <1>1, <1>3, <1>4, <1>5 DEF TeardownInv

\* A failure saves the rows as they were read: no instance is reclaimed by it.
LEMMA FailsKept ==
    ASSUME TeardownInv, NEW i \in Instance, Fails(i)
    PROVE  TeardownInv'
<1>0. /\ Typed /\ NodesInv /\ RowsInv /\ ReclaimedIsGone /\ SweepInv /\ FamilyInv(i)
      /\ DOMAIN sweep \in SUBSET Instance /\ call[i].family \in SUBSET Instance
    BY DEF TeardownInv, Typed, TypeOK
<1>1. /\ Typed' /\ call[i].phase # "idle"
      /\ call'[i] = NoCall /\ \A j \in Instance \ {i} : call'[j] = call[j]
      /\ \A m \in call[i].family \ {i} : record'[m] = FailedCopy(i, m)
      /\ \A m \in Instance \ (call[i].family \union {i}) : record'[m] = record[m]
      /\ i \in call[i].family =>
           \/ call[i].phase # "wait" /\ record'[i] = FailedCopy(i, i)
           \/ call[i].phase = "wait" /\ record'[i] = record[i]
           \/ /\ i \in DOMAIN sweep /\ record'[i].made = sweep[i].made
              /\ record'[i].parent = sweep[i].parent
              /\ record'[i].reclaimed = sweep[i].reclaimed
              /\ i \notin DOMAIN sweep'
      /\ \A m \in DOMAIN sweep' : m \in DOMAIN sweep /\ sweep'[m] = sweep[m]
      /\ nodes' = nodes /\ run' = run /\ admission' = admission
    BY <1>0, FailsEffect
<1>2. i \in call[i].family BY <1>0, <1>1 DEF FamilyInv
<1>3. ASSUME NEW m \in call[i].family, call[i].phase # "wait"
      PROVE  /\ record[m].made /\ FailedCopy(i, m).made = record[m].made
             /\ FailedCopy(i, m).parent = record[m].parent
             /\ FailedCopy(i, m).reclaimed = record[m].reclaimed
    <2>1. record[m] = call[i].copy[m] /\ record[m].made BY <1>0, <1>3 DEF FamilyInv, ClosedFamily
    <2>2. Typed BY <1>0
    <2>3. /\ FailedCopy(i, m).made = call[i].copy[m].made
          /\ FailedCopy(i, m).parent = call[i].copy[m].parent
          /\ FailedCopy(i, m).reclaimed = call[i].copy[m].reclaimed
        BY <2>2, SavedFacts
    <2> QED BY <2>1, <2>3
<1>4. /\ record'[i].made = record[i].made /\ record'[i].parent = record[i].parent
      /\ record'[i].reclaimed => record[i].reclaimed
      /\ i \in DOMAIN sweep' => record'[i].reclaimed = record[i].reclaimed
    <2>1. CASE call[i].phase # "wait" /\ record'[i] = FailedCopy(i, i) BY <1>2, <1>3, <2>1
    <2>2. CASE /\ i \in DOMAIN sweep /\ record'[i].made = sweep[i].made
               /\ record'[i].parent = sweep[i].parent
               /\ record'[i].reclaimed = sweep[i].reclaimed
               /\ i \notin DOMAIN sweep'
        <3>1. /\ sweep[i].made /\ record[i].made /\ record[i].parent = sweep[i].parent
              /\ sweep[i].reclaimed => record[i].reclaimed
            BY <1>0, <2>2 DEF SweepInv
        <3>2. record'[i].made /\ record[i].made BY <2>2, <3>1
        <3>3. record'[i].made \in BOOLEAN /\ record[i].made \in BOOLEAN
            BY <1>0, <1>1 DEF Typed, TypeOK, Record
        <3> QED BY <2>2, <3>1, <3>2, <3>3
    <2> QED BY <1>1, <1>2, <2>1, <2>2
<1>5. \A m \in Instance \ {i} : /\ record'[m].made = record[m].made
                                /\ record'[m].parent = record[m].parent
                                /\ record'[m].reclaimed = record[m].reclaimed
    <2>1. call[i].phase = "wait" => call[i].family = {i} BY <1>0 DEF Typed, Empties
    <2> QED BY <1>1, <1>3, <2>1
<1>12. record[i].made
    <2>1. CASE call[i].phase = "wait" BY <1>0, <2>1 DEF FamilyInv, Reading
    <2> QED BY <1>2, <1>3, <2>1
<1>6. KeepsRows
    <2>1. \A m \in Instance \ {i} : ~record[m].made => record'[m] = record[m]
        <3>1. call[i].phase = "wait" => call[i].family = {i} BY <1>0 DEF Typed, Empties
        <3> QED BY <1>1, <1>3, <3>1
    <2> QED BY <1>4, <1>5, <1>12, <2>1 DEF KeepsRows
<1>7. Stirs({}) /\ Clears BY <1>1, StirsSame DEF Clears
<1>8. NodesInv' /\ RowsInv' /\ ReclaimedIsGone'
    <2>1. \A m \in Instance : record'[m].reclaimed => record[m].reclaimed BY <1>4, <1>5
    <2>2. {} \in SUBSET Instance /\ \A m \in {} : nodes[m] = "placed" OBVIOUS
    <2> QED BY <1>0, <1>6, <1>7, <2>1, <2>2, QuietKept
<1>9. \A m \in Instance \ call[i].family : record'[m] = record[m] BY <1>1, <1>2
<1>13. \/ admission = Free
       \/ \A m \in Instance : ~record[m].stopping => record'[m] = record[m]
    <2>1. CASE call[i].phase # "wait" BY <1>0, <1>9, <2>1 DEF FamilyInv, ClosedFamily
    <2>2. CASE i \in DOMAIN sweep BY <1>0, <2>2 DEF SweepInv
    <2>3. CASE call[i].phase = "wait" /\ record'[i] = record[i]
        <3>1. call[i].family = {i} BY <1>0, <2>3 DEF Typed, Empties
        <3> QED BY <1>9, <2>3, <3>1
    <2> QED BY <1>1, <1>2, <2>1, <2>2, <2>3
<1>10. PendingInv' /\ (\A j \in Instance : FamilyInv(j)') /\ Disjoint'
    BY <1>1, <1>6, <1>9, <1>13, EndsKept
<1>11. SweepInv'
    <2>1. \A m \in DOMAIN sweep' : record'[m].reclaimed = record[m].reclaimed
        BY <1>0, <1>1, <1>4, <1>5
    <2> QED BY <1>0, <1>1, <1>6, <2>1, SweepKept DEF KeepsRows
<1> QED BY <1>1, <1>8, <1>10, <1>11 DEF TeardownInv

LEMMA CrashKept ==
    ASSUME TeardownInv, Crash
    PROVE  TeardownInv'
<1>0. Typed /\ NodesInv /\ RowsInv /\ ReclaimedIsGone
    BY DEF TeardownInv
<1>1. /\ Typed' /\ nodes' = nodes /\ RunsEnd /\ admission' = Free
      /\ \A j \in Instance : call'[j] = NoCall
      /\ DOMAIN sweep' = {}
      /\ \/ record' = record
         \/ \E i \in Instance : \E m \in call[i].family :
               /\ Confirmable(i)
               /\ \A n \in Instance :
                      IF n \in call[i].family /\ n <= m THEN record'[n] = Confirmed(i, n)
                                                        ELSE record'[n] = record[n]
    BY <1>0, CrashEffect
<1>2. NodesInv' /\ RowsInv' /\ ReclaimedIsGone'
    <2>1. CASE record' = record
        <3>1. KeepsRows /\ Clears /\ Stirs({}) BY <1>1, <2>1, StirsNone DEF KeepsRows, Clears
        <3>2. {} \in SUBSET Instance /\ \A m \in {} : nodes[m] = "placed" OBVIOUS
        <3> QED BY <1>0, <2>1, <3>1, <3>2, QuietKept
    <2>2. ASSUME NEW i \in Instance, NEW m \in call[i].family, Confirmable(i),
                 \A n \in Instance :
                      IF n \in call[i].family /\ n <= m THEN record'[n] = Confirmed(i, n)
                                                        ELSE record'[n] = record[n]
          PROVE  NodesInv' /\ RowsInv' /\ ReclaimedIsGone'
        BY <1>1, <2>2, SavesKept
    <2> QED BY <1>1, <2>1, <2>2
<1>3. PendingInv' BY <1>1, FreePending
<1>4. \A j \in Instance : FamilyInv(j)' /\ call'[j].family = {} BY <1>1, NoFamily
<1>5. Disjoint' BY <1>4 DEF Disjoint
<1>6. SweepInv' BY <1>1 DEF SweepInv
<1> QED BY <1>1, <1>2, <1>3, <1>4, <1>5, <1>6 DEF TeardownInv

LEMMA StartupKept ==
    ASSUME TeardownInv, Down, Startup
    PROVE  TeardownInv'
<1>0. Typed /\ NodesInv /\ RowsInv /\ ReclaimedIsGone /\ PendingInv
    BY DEF TeardownInv
<1>1. /\ Typed' /\ record' = record /\ run' = run /\ admission' = admission
      /\ \A j \in Instance : call'[j] = NoCall /\ call[j] = NoCall
      /\ \A m \in Instance : nodes'[m] = nodes[m] \/ (nodes[m] = "debt" /\ nodes'[m] = "gone")
      /\ DOMAIN sweep' = Owed /\ \A i \in Owed : sweep'[i] = record[i]
    BY <1>0, StartupEffect
<1>2. KeepsRows /\ Stirs({}) BY <1>1, StirsSame DEF KeepsRows
<1>3. Clears
    <2>1. ASSUME NEW m \in Instance, nodes[m] = "debt", NEW q \in Run, run'[q].on = m
          PROVE  Settled(q)'
        BY <1>0, <1>1, <2>1 DEF NodesInv, Settled
    <2> QED BY <1>1, <2>1 DEF Clears
<1>4. NodesInv' /\ RowsInv' /\ ReclaimedIsGone'
    <2>1. {} \in SUBSET Instance /\ \A m \in {} : nodes[m] = "placed" OBVIOUS
    <2> QED BY <1>0, <1>1, <1>2, <1>3, <2>1, QuietKept
<1>5. PendingInv'
    <2>1. {} \in SUBSET Instance /\ \A m \in {} : record[m].made OBVIOUS
    <2>2. admission' \in {admission, Free} BY <1>1
    <2>3. \A m \in Instance : nodes[m] = "placed" => nodes'[m] = "placed" BY <1>1
    <2> QED BY <1>0, <1>1, <1>2, <2>1, <2>2, <2>3, PendingKept
<1>6. \A j \in Instance : FamilyInv(j)' /\ call'[j].family = {} BY <1>1, NoFamily
<1>7. Disjoint' BY <1>6 DEF Disjoint
<1>8. SweepInv'
    <2>1. admission' = Free BY <1>1 DEF Startup, Down
    <2> QED BY <1>0, <1>1, <2>1 DEF SweepInv, Owed, RowsInv
<1> QED BY <1>1, <1>4, <1>5, <1>6, <1>7, <1>8 DEF TeardownInv

-----------------------------------------------------------------------------
LEMMA TeardownInit == Init => TeardownInv
<1> SUFFICES ASSUME Init PROVE TeardownInv
    OBVIOUS
<1>1. Typed BY TypedInit
<1>2. /\ \A m \in Instance : /\ ~record[m].made /\ ~record[m].stopping /\ ~record[m].reclaimed
                             /\ nodes[m] = "absent" /\ call[m] = NoCall
      /\ \A q \in Run : run[q].on = 0 /\ run[q].status = "absent"
      /\ admission = Free /\ DOMAIN sweep = {}
    BY DEF Init, NoRecord, NoRun
<1>3. NodesInv BY <1>2, Small DEF NodesInv, Settled
<1>4. RowsInv /\ PendingInv /\ SweepInv /\ ReclaimedIsGone
    BY <1>2 DEF RowsInv, PendingInv, SweepInv, ReclaimedIsGone
<1>5. \A i \in Instance : call[i].family = {} /\ call[i].phase = "idle" BY <1>2, NoCallType
<1>6. Disjoint /\ \A i \in Instance : FamilyInv(i) BY <1>5 DEF Disjoint, FamilyInv, ClosedFamily
<1> QED BY <1>1, <1>3, <1>4, <1>6 DEF TeardownInv

LEMMA TeardownNext ==
    ASSUME "overlap" \notin Env, TeardownInv, Down, [Next]_vars
    PROVE  TeardownInv'
<1>0. Typed /\ Typed' BY TypedNext DEF TeardownInv
<1>1. CASE Crash BY <1>1, CrashKept
<1>2. CASE Startup BY <1>2, StartupKept
<1>3. ASSUME NEW i \in Instance, Step(i) PROVE TeardownInv'
    BY <1>0, <1>3, BeginsKept, CallStepsKept, ConfirmsKept, FailsKept DEF Step
<1>4. CASE (\E i \in Instance, action \in {"stop", "reclaim"} : Teardown(i, action)) \/ SweepBegins
    BY <1>0, <1>4, Readings, ReadsKept
<1>6. CASE SummonAdmits BY <1>0, <1>6, SummonAdmitsKept
<1>7. CASE \E c \in 0..MaxRuns : SummonBegins(c) BY <1>0, <1>7, SummonBeginsKept
<1>8. CASE \/ \E i \in Instance, c \in 0..MaxRuns : SummonAgain(i, c)
           \/ \E i \in Instance : DirectRun(i)
    BY <1>0, <1>8, StartSteps
<1>9. CASE \/ SummonFails \/ SummonDropped
           \/ \E r \in Run : RunEnds(r) \/ RunSettles(r)
           \/ \E i \in Instance : DebtPaid(i)
           \/ SweepSkips
           \/ UNCHANGED vars
    BY <1>0, <1>9, QuietSteps
<1> QED BY <1>1, <1>2, <1>3, <1>4, <1>6, <1>7, <1>8, <1>9 DEF Next, Progress

\* A teardown that has joined everything it found has an idle family to confirm.
LEMMA JoinedIsIdle == TeardownInv => ConfirmedIsIdle
<1> SUFFICES ASSUME TeardownInv, NEW i \in Instance, AllJoined(i)
             PROVE  /\ \A m \in Instance : record[m].made /\ record[m].parent \in call[i].family
                                              => m \in call[i].family
                    /\ \A r \in Run : run[r].on \in call[i].family => Settled(r)
    BY DEF ConfirmedIsIdle
<1> QED BY DEF TeardownInv, FamilyInv, ClosedFamily, AllJoined

\* However Runs start and end, summons and teardowns interleave, cancellations
\* and deletions fail and the process dies: what a teardown confirms is true,
\* and what is reclaimed never comes back, as long as no two teardowns of
\* overlapping families run side by side (summoning.py holds a lock for each
\* instance, not for its family).
THEOREM TeardownCorrect == "overlap" \notin Env => (Spec => []TeardownSound)
<1> SUFFICES ASSUME "overlap" \notin Env PROVE Spec => []TeardownSound
    OBVIOUS
<1>1. Init => TeardownInv /\ Down BY TeardownInit DEF Init, Down
<1>2. TeardownInv /\ Down /\ [Next]_vars => (TeardownInv /\ Down)'
    <2>1. TeardownInv => Typed BY DEF TeardownInv
    <2> QED BY <2>1, TeardownNext, DownNext
<1>3. TeardownInv => TeardownSound
    BY JoinedIsIdle DEF TeardownInv, Typed, TeardownSound
<1> QED BY <1>1, <1>2, <1>3, PTL DEF Spec
=============================================================================
