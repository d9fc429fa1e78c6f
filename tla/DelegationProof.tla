--------------------------- MODULE DelegationProof ---------------------------
(***************************************************************************)
(* The board proved correct for any number of requests, tasks, attempts,   *)
(* turns, stops and crashes, and for every Env.                            *)
(***************************************************************************)
EXTENDS Delegation, FiniteSetTheorems, SequenceTheorems, TLAPS

-----------------------------------------------------------------------------
(* The invariant.                                                          *)

Entry == [req : Request, item : Item, coord : Turn, link : BOOLEAN, known : BOOLEAN,
          status : Live \union Terminal, applied : BOOLEAN, report : {"none", "waiting"}]
Worked == {"absent"} \union Live \union Terminal
Notices == [Attempt -> [Kinds -> Note]]
Documents == [Item -> {"pending", "running", "review", "blocked", "done", "removed"}]
Turns == [Turn -> [status : {"absent"} \union Live \union Terminal, parent : 0..MaxTurns,
                   stopped : BOOLEAN, told : SUBSET (Attempt \X Kinds)]]
Ops == [phase : {"idle", "reserved", "marked", "made", "started", "claimed"},
        n : Nat, turn : 0..MaxTurns, told : SUBSET (Attempt \X Kinds)]
Stops == [on : BOOLEAN, all : BOOLEAN, who : SUBSET Attempt, tell : SUBSET Turn]

Ledger(b) == b \in Seq(Entry) /\ Len(b) <= MaxAttempts

Typed ==
    /\ alive \in BOOLEAN /\ items \in Documents /\ Ledger(board) /\ notes \in Notices
    /\ made \subseteq Attempt /\ work \in [Attempt -> Worked] /\ turns \in Turns /\ op \in Ops
    /\ look \in [turn : 0..MaxTurns, set : SUBSET Attempt] /\ stop \in Stops

\* What a row says of its worker's Run, w: it is known to the row that has a handle,
\* and an outcome that was applied is final.
Row(e, w) ==
    /\ e.known => e.link
    /\ e.link => (e.known <=> w # "absent")
    /\ e.applied => e.status \notin Live /\ e.status = (IF w = "absent" THEN "interrupted" ELSE w)

Rows(b, runs) == \A n \in 1..Len(b) : Row(b[n], runs[n])

\* A Run belongs to an instance, and an instance to a row.
Dispatched ==
    /\ \A n \in Attempt : work[n] # "absent" => n \in made
    /\ made \subseteq 1..Len(board)

\* An older attempt at a task is over, and no request has two.
Ordered(b) ==
    \A m, n \in 1..Len(b) : m < n =>
        /\ b[m].req # b[n].req
        /\ b[m].item = b[n].item => b[m].applied

Dispatching == op.phase \in {"reserved", "marked", "made", "started"}

\* A delegate that holds the lock works on the last row, and nobody has touched it.
Dispatcher ==
    Dispatching =>
        /\ op.n = Len(board) /\ op.n # 0
        /\ ~board[op.n].link /\ ~board[op.n].applied
        /\ op.phase \in {"reserved", "marked"} => op.n \notin made
        /\ op.phase \in {"made", "started"} => op.n \in made
        /\ work[op.n] = "absent" <=> op.phase # "started"

AtWork == {n \in Attempt : work[n] \in Live}

\* While the process is up every live worker has its handle on the ledger, but the
\* one whose delegate is about to save it; for the next one there is room.
Parallel ==
    /\ Cardinality(AtWork) <= MaxParallel
    /\ Dispatching /\ op.phase # "started" => Cardinality(AtWork) < MaxParallel
    /\ alive => \A n \in AtWork : board[n].known \/ (op.phase = "started" /\ n = op.n)
    /\ ~alive => op = Idle

Settlement == Rows(board, work) /\ Dispatched /\ Ordered(board) /\ Dispatcher /\ Parallel

Base == Typed /\ Settlement

\* Who was told of an outcome is named by its notice.
Told ==
    \A t \in Turn : \A x \in turns[t].told :
        /\ x[1] \in 1..Len(board) /\ notes[x[1]][x[2]].turn = t
        /\ turns[t].status # "absent"

\* A pass that is about to start a turn has named it, and nobody else takes its id.
Claiming ==
    op.phase = "claimed" =>
        /\ op.n \in Turn /\ op.turn \in Turn /\ turns[op.turn].status = "absent" /\ op.told # {}
        /\ \A x \in op.told : x[1] \in 1..Len(board) /\ notes[x[1]][x[2]].turn = op.turn

Opened == \A n \in 1..Len(board) : notes[n]["done"].open

\* While the board is stopped nothing starts, nobody is woken, and whatever still
\* runs of it is on the stop's lists.
Halting ==
    Stopping =>
        /\ op = Idle
        /\ AtWork \subseteq stop.who
        /\ \A n \in 1..Len(board) :
              notes[n]["done"].quiet /\ (notes[n]["check"].open => notes[n]["check"].quiet)
        /\ \A t \in Turn : Running(t) /\ turns[t].told # {} => t \in stop.tell

Inv == Base /\ Told /\ Claiming /\ Opened /\ Halting

-----------------------------------------------------------------------------
(* What a collect does.                                                    *)

LEMMA Positions == Attempt \subseteq Nat \ {0} /\ 0 \notin Turn /\ MaxAttempts \in Nat /\ MaxTurns \in Nat /\ MaxParallel \in Nat
BY DelegationConstants DEF Attempt, Turn

LEMMA LedgerRows ==
    ASSUME NEW b, Ledger(b)
    PROVE  /\ Len(b) \in Nat /\ DOMAIN b = 1..Len(b) /\ 1..Len(b) \subseteq Attempt
           /\ \A n \in 1..Len(b) : b[n] \in Entry
BY Positions DEF Ledger, Attempt

LEMMA LedgerOf ==
    ASSUME NEW k \in Nat, k <= MaxAttempts, NEW b \in [1..k -> Entry]
    PROVE  Ledger(b) /\ Len(b) = k
<1>1. b \in Seq(Entry)
    BY SeqDef
<1>2. DOMAIN b = 1..k /\ DOMAIN b = 1..Len(b) /\ Len(b) \in Nat
    BY <1>1
<1>3. Len(b) = k
    BY <1>2
<1> QED BY <1>1, <1>3 DEF Ledger

\* How a collect leaves the row of attempt n.
After(n, e, new, w) ==
    IF e.applied THEN new = e
    ELSE /\ new.link = (e.link \/ n \in made)
         /\ new.known = (IF e.link \/ n \notin made THEN e.known ELSE w # "absent")
         /\ new.status = (IF new.known THEN w ELSE "interrupted")
         /\ new.applied => new.status \notin Live

LEMMA SettledRow ==
    ASSUME NEW b, Ledger(b), NEW runs \in [Attempt -> Worked], Rows(b, runs), Typed,
           NEW n \in 1..Len(b), ~b[n].applied
    PROVE  LET e == Settled(b, n, runs) IN
           /\ e \in Entry /\ After(n, b[n], e, runs[n])
           /\ e.req = b[n].req /\ e.item = b[n].item /\ e.coord = b[n].coord /\ e.report = b[n].report
<1> DEFINE r == Recovered(n, b[n], runs)
           s == Outcome(n, r, runs)
<1>1. b[n] \in Entry /\ n \in Attempt /\ runs[n] \in Worked /\ Row(b[n], runs[n])
    BY LedgerRows DEF Rows
<1>2. /\ r \in Entry /\ r.req = b[n].req /\ r.item = b[n].item /\ r.coord = b[n].coord /\ r.report = b[n].report
      /\ r.link = (b[n].link \/ n \in made)
      /\ r.known = (IF b[n].link \/ n \notin made THEN b[n].known ELSE runs[n] # "absent")
    BY <1>1 DEF Recovered, Entry
<1>3. s = (IF r.known THEN runs[n] ELSE "interrupted") /\ s \in Live \union Terminal
    BY <1>1, <1>2 DEF Outcome, Row, Worked, Terminal
<1> DEFINE a == s \notin Live /\ (Superseded(b, n) \/ items[r.item] # "removed")
<1>4. a \in BOOLEAN /\ (a => s \notin Live)
    OBVIOUS
<1>5. Settled(b, n, runs) = [r EXCEPT !.status = s, !.applied = a]
    BY DEF Settled
<1> HIDE DEF r, s, a
<1>6. /\ Settled(b, n, runs) \in Entry
      /\ Settled(b, n, runs).link = r.link /\ Settled(b, n, runs).known = r.known
      /\ Settled(b, n, runs).status = s /\ Settled(b, n, runs).applied = a
      /\ Settled(b, n, runs).req = r.req /\ Settled(b, n, runs).item = r.item
      /\ Settled(b, n, runs).coord = r.coord /\ Settled(b, n, runs).report = r.report
    BY <1>2, <1>3, <1>4, <1>5 DEF Entry
<1> QED BY <1>1, <1>2, <1>3, <1>4, <1>6 DEF After

LEMMA WrittenStatus == \A s : Written(s) \in {"running", "review", "blocked"}
BY DEF Written

\* What the collect c of the ledger b, with the Runs' status, has to say.
Collects(c, b, runs) ==
    /\ c = [board |-> c.board, items |-> c.items, notes |-> c.notes]
    /\ Ledger(c.board) /\ Len(c.board) = Len(b)
    /\ \A n \in 1..Len(b) :
          /\ After(n, b[n], c.board[n], runs[n])
          /\ c.board[n].req = b[n].req /\ c.board[n].item = b[n].item /\ c.board[n].coord = b[n].coord
    /\ c.items \in Documents
    /\ c.notes \in Notices
    /\ \A n \in Attempt :
          /\ c.notes[n]["done"] = notes[n]["done"]
          /\ c.notes[n]["check"] = notes[n]["check"] \/
                (/\ n \in 1..Len(b) /\ ~notes[n]["done"].quiet
                 /\ c.notes[n]["check"] = [notes[n]["check"] EXCEPT !.open = TRUE])

LEMMA CollectedItems ==
    ASSUME Typed, NEW last, NEW b, NEW runs
    PROVE  CollectedUpTo(last, b, runs).items \in Documents
<1> DEFINE open == {n \in 1..last : ~b[n].applied}
           now == [n \in DOMAIN b |-> IF n \in open THEN Settled(b, n, runs) ELSE b[n]]
           writes == {n \in open : now[n].applied /\ ~Superseded(b, n)}
           value(i) == IF \E n \in writes : b[n].item = i
                       THEN Written(now[CHOOSE n \in writes : b[n].item = i].status) ELSE items[i]
<1>1. \A i \in Item : items[i] \in {"pending", "running", "review", "blocked", "done", "removed"}
    BY DEF Typed, Documents
<1>2. \A i \in Item : value(i) \in {"pending", "running", "review", "blocked", "done", "removed"}
    <2> TAKE i \in Item
    <2>1. CASE \E n \in writes : b[n].item = i
        <3> DEFINE s == now[CHOOSE n \in writes : b[n].item = i].status
        <3>1. value(i) = Written(s)
            BY <2>1
        <3> HIDE DEF s, value
        <3> QED BY <3>1, WrittenStatus
    <2>2. CASE ~\E n \in writes : b[n].item = i
        BY <1>1, <2>2
    <2> QED BY <2>1, <2>2
<1>3. CollectedUpTo(last, b, runs).items = [i \in Item |-> value(i)]
    BY DEF CollectedUpTo
<1> HIDE DEF value
<1> QED BY <1>2, <1>3 DEF Documents

LEMMA CollectRows ==
    ASSUME Typed, NEW b, Ledger(b), NEW runs \in [Attempt -> Worked], Rows(b, runs)
    PROVE  Collects(Collected(b, runs), b, runs)
<1> DEFINE c == Collected(b, runs)
           open == {n \in 1..Len(b) : ~b[n].applied}
           now == [n \in DOMAIN b |-> IF n \in open THEN Settled(b, n, runs) ELSE b[n]]
           checks == {n \in open : ChecksLater(n, now[n])}
<1>1. /\ c.board = now
      /\ c.notes = [n \in Attempt |->
            IF n \in checks THEN [notes[n] EXCEPT !["check"].open = TRUE] ELSE notes[n]]
    BY DEF Collected, CollectedUpTo
<1>2. Len(b) \in Nat /\ Len(b) <= MaxAttempts /\ DOMAIN b = 1..Len(b) /\ 1..Len(b) \subseteq Attempt
      /\ \A n \in 1..Len(b) : b[n] \in Entry
    BY LedgerRows DEF Ledger
<1>3. \A n \in 1..Len(b) : /\ now[n] \in Entry /\ After(n, b[n], now[n], runs[n])
                           /\ now[n].req = b[n].req /\ now[n].item = b[n].item /\ now[n].coord = b[n].coord
    <2> TAKE n \in 1..Len(b)
    <2>1. CASE b[n].applied
        BY <1>2, <2>1 DEF After
    <2>2. CASE ~b[n].applied
        BY <1>2, <2>2, SettledRow
    <2> QED BY <2>1, <2>2
<1>4. now \in [1..Len(b) -> Entry]
    BY <1>2, <1>3
<1>5. Ledger(now) /\ Len(now) = Len(b)
    BY <1>2, <1>4, LedgerOf
<1>6. c.items \in Documents
    BY <1>2, CollectedItems DEF Collected
<1>7. checks \subseteq 1..Len(b) /\ \A n \in checks : ~notes[n]["done"].quiet
    BY DEF ChecksLater
<1> HIDE DEF now, checks
<1>8. ASSUME NEW n \in Attempt
      PROVE  /\ c.notes[n] \in [Kinds -> Note] /\ c.notes[n]["done"] = notes[n]["done"]
             /\ c.notes[n]["check"] = notes[n]["check"] \/
                (/\ n \in 1..Len(b) /\ ~notes[n]["done"].quiet
                 /\ c.notes[n]["check"] = [notes[n]["check"] EXCEPT !.open = TRUE])
    <2>1. notes[n] \in [Kinds -> Note] /\ notes[n]["check"] \in Note
        BY DEF Typed, Notices, Kinds
    <2>2. [notes[n]["check"] EXCEPT !.open = TRUE] \in Note
        BY <2>1 DEF Note
    <2>3. CASE n \in checks
        <3>1. c.notes[n] = [notes[n] EXCEPT !["check"].open = TRUE]
            BY <1>1, <2>3
        <3>2. [notes[n] EXCEPT !["check"].open = TRUE] =
                  [notes[n] EXCEPT !["check"] = [notes[n]["check"] EXCEPT !.open = TRUE]]
            OBVIOUS
        <3>3. c.notes[n] = [notes[n] EXCEPT !["check"] = [notes[n]["check"] EXCEPT !.open = TRUE]]
            BY <3>1, <3>2
        <3>4. n \in 1..Len(b) /\ ~notes[n]["done"].quiet
            BY <1>7, <2>3
        <3>5. c.notes[n] \in [Kinds -> Note]
            BY <2>1, <2>2, <3>3 DEF Kinds
        <3>6. c.notes[n]["done"] = notes[n]["done"] /\ c.notes[n]["check"] = [notes[n]["check"] EXCEPT !.open = TRUE]
            BY <2>1, <3>3 DEF Kinds
        <3> QED BY <3>4, <3>5, <3>6
    <2>4. CASE n \notin checks
        BY <1>1, <2>1, <2>4
    <2> QED BY <2>3, <2>4
<1>9. c.notes \in Notices
    <2>1. c.notes = [n \in Attempt |-> c.notes[n]]
        BY <1>1
    <2> QED BY <1>8, <2>1 DEF Notices
<1>10. c = [board |-> c.board, items |-> c.items, notes |-> c.notes]
    BY DEF Collected, CollectedUpTo
<1> QED BY <1>1, <1>3, <1>5, <1>6, <1>8, <1>9, <1>10 DEF Collects

LEMMA CollectKeeps ==
    ASSUME Typed, NEW b, Ledger(b), NEW runs \in [Attempt -> Worked], Rows(b, runs), Ordered(b),
           \A n \in Attempt : runs[n] # "absent" => n \in made,
           NEW c, Collects(c, b, runs)
    PROVE  /\ Rows(c.board, runs) /\ Ordered(c.board)
           /\ \A n \in 1..Len(b) : b[n].known \/ (~b[n].applied /\ runs[n] # "absent") => c.board[n].known
<1>1. /\ 1..Len(b) \subseteq Attempt /\ Len(c.board) = Len(b)
      /\ \A n \in 1..Len(b) : /\ b[n] \in Entry /\ c.board[n] \in Entry /\ Row(b[n], runs[n])
                              /\ After(n, b[n], c.board[n], runs[n])
                              /\ c.board[n].req = b[n].req /\ c.board[n].item = b[n].item
    BY LedgerRows DEF Collects, Rows
<1>2. ASSUME NEW n \in 1..Len(b)
      PROVE  /\ Row(c.board[n], runs[n])
             /\ b[n].applied => c.board[n].applied
             /\ b[n].known \/ (~b[n].applied /\ runs[n] # "absent") => c.board[n].known
    <2>1. runs[n] # "absent" => n \in made
        BY <1>1
    <2>2. CASE b[n].applied
        BY <1>1, <2>2 DEF After
    <2>3. CASE ~b[n].applied
        BY <1>1, <2>1, <2>3 DEF After, Row, Entry
    <2> QED BY <2>2, <2>3
<1>3. Rows(c.board, runs)
    BY <1>1, <1>2 DEF Rows
<1>4. Ordered(c.board)
    BY <1>1, <1>2 DEF Ordered
<1> QED BY <1>2, <1>3, <1>4

-----------------------------------------------------------------------------
(* Steps, by what they do to the ledger, the Runs and the holder of the lock. *)

\* Neither the ledger nor a worker is touched, and nobody takes the lock.
Still ==
    /\ UNCHANGED <<alive, board, made, work>>
    /\ op' = op \/ (~Dispatching /\ op' = Idle)

\* A row gets a report.
Noted(n) ==
    /\ n \in 1..Len(board) /\ board' = [board EXCEPT ![n].report = "waiting"]
    /\ UNCHANGED <<alive, made, work, op>> /\ op = Idle

\* Live workers end.
Ceases ==
    /\ \A n \in Attempt : work'[n] = work[n] \/ (work[n] \in Live /\ work'[n] \in Terminal)
    /\ UNCHANGED <<alive, board, made, op>>

\* The board is collected, b being its ledger; nobody dispatches afterwards.
Tallied(b) ==
    /\ Ledger(b) /\ Rows(b, work) /\ Ordered(b) /\ Len(b) = Len(board)
    /\ \A n \in AtWork : b[n].known \/ ~b[n].applied
    /\ \E c : Collects(c, b, work) /\ board' = c.board
    /\ UNCHANGED <<alive, made, work>> /\ alive
    /\ op'.phase \in {"idle", "claimed"}

LEMMA AtWorkFinite == ASSUME Typed PROVE IsFiniteSet(AtWork) /\ IsFiniteSet(AtWork') /\ AtWork \subseteq Attempt
<1>1. IsFiniteSet(Attempt)
    BY Positions, FS_Interval DEF Attempt
<1>2. AtWork \subseteq Attempt /\ AtWork' \subseteq Attempt
    BY DEF AtWork
<1> QED BY <1>1, <1>2, FS_Subset

LEMMA FewerAtWork ==
    ASSUME Typed, AtWork' \subseteq AtWork
    PROVE  Cardinality(AtWork') <= Cardinality(AtWork) /\ Cardinality(AtWork') \in Nat /\ Cardinality(AtWork) \in Nat
BY AtWorkFinite, FS_Subset, FS_CardinalityType

LEMMA StillStep ==
    ASSUME Base, Still
    PROVE  Settlement'
<1>1. CASE op' = op
    <2>1. Dispatching' <=> Dispatching
        BY <1>1 DEF Dispatching
    <2>2. AtWork' = AtWork
        BY DEF Still, AtWork
    <2> QED BY <1>1, <2>1, <2>2
            DEF Base, Settlement, Still, Rows, Row, Dispatched, Ordered, Dispatcher, Parallel
<1>2. CASE ~Dispatching /\ op' = Idle
    <2>1. ~Dispatching'
        BY <1>2 DEF Dispatching, Idle
    <2>2. AtWork' = AtWork
        BY DEF Still, AtWork
    <2>3. op.phase # "started"
        BY <1>2 DEF Dispatching
    <2> QED BY <1>2, <2>1, <2>2, <2>3
            DEF Base, Settlement, Still, Rows, Row, Dispatched, Ordered, Dispatcher, Parallel
<1> QED BY <1>1, <1>2 DEF Still

LEMMA NotedStep ==
    ASSUME Base, NEW n \in Attempt, Noted(n)
    PROVE  Settlement' /\ Ledger(board')
<1>1. Ledger(board) /\ Len(board) \in Nat /\ DOMAIN board = 1..Len(board) /\ Len(board) <= MaxAttempts
      /\ 1..Len(board) \subseteq Attempt /\ \A m \in 1..Len(board) : board[m] \in Entry
    BY LedgerRows DEF Base, Typed, Ledger
<1>2. board' = [m \in 1..Len(board) |-> IF m = n THEN [board[n] EXCEPT !.report = "waiting"] ELSE board[m]]
    BY <1>1 DEF Noted
<1>3. /\ [board[n] EXCEPT !.report = "waiting"] \in Entry
      /\ \A m \in 1..Len(board) : /\ board'[m] \in Entry /\ board'[m].req = board[m].req
                                  /\ board'[m].item = board[m].item /\ board'[m].applied = board[m].applied
                                  /\ board'[m].link = board[m].link /\ board'[m].known = board[m].known
                                  /\ board'[m].status = board[m].status
    BY <1>1, <1>2 DEF Noted, Entry
<1>4. Ledger(board') /\ Len(board') = Len(board)
    BY <1>1, <1>2, <1>3, LedgerOf
<1>5. Rows(board', work') /\ Ordered(board')
    BY <1>3, <1>4 DEF Base, Settlement, Rows, Row, Ordered, Noted
<1>6. AtWork' = AtWork /\ ~Dispatching' /\ AtWork \subseteq 1..Len(board) /\ op.phase # "started" /\ op'.phase # "started"
    BY DEF Noted, AtWork, Dispatching, Idle, Base, Settlement, Dispatched, Live
<1>7. Parallel'
    BY <1>3, <1>6 DEF Base, Settlement, Parallel, Noted
<1> QED BY <1>4, <1>5, <1>6, <1>7 DEF Base, Settlement, Dispatched, Dispatcher, Noted

LEMMA CeasesStep ==
    ASSUME Base, Ceases
    PROVE  Settlement'
<1>1. /\ 1..Len(board) \subseteq Attempt /\ work \in [Attempt -> Worked]
      /\ Dispatching => op.n \in 1..Len(board)
    BY LedgerRows DEF Base, Typed, Settlement, Dispatcher
<1>2. \A n \in Attempt : /\ work'[n] = "absent" <=> work[n] = "absent"
                         /\ work'[n] # work[n] => work[n] \in Live
                         /\ work'[n] \in Live => work[n] \in Live
    BY DEF Ceases, Live, Terminal
<1>3. Rows(board', work')
    <2> SUFFICES ASSUME NEW n \in 1..Len(board) PROVE Row(board[n], work'[n])
        BY DEF Rows, Ceases
    <2>1. Row(board[n], work[n])
        BY DEF Base, Settlement, Rows
    <2> QED BY <1>1, <1>2, <2>1 DEF Row, Live
<1>4. AtWork' \subseteq AtWork
    BY <1>2 DEF AtWork
<1>5. Parallel'
    <2>1. Dispatching' <=> Dispatching
        BY DEF Dispatching, Ceases
    <2>2. Cardinality(AtWork') <= Cardinality(AtWork) /\ Cardinality(AtWork') \in Nat /\ Cardinality(AtWork) \in Nat
        BY <1>4, FewerAtWork DEF Base
    <2> QED BY <1>4, <2>1, <2>2, Positions DEF Base, Settlement, Parallel, Ceases
<1>6. Dispatcher'
    <2>1. Dispatching' <=> Dispatching
        BY DEF Dispatching, Ceases
    <2> QED BY <1>1, <1>2, <2>1 DEF Base, Settlement, Dispatcher, Ceases
<1> QED BY <1>2, <1>3, <1>5, <1>6 DEF Base, Settlement, Dispatched, Ordered, Ceases

LEMMA TalliedStep ==
    ASSUME Base, NEW b, Tallied(b)
    PROVE  Settlement' /\ Ledger(board') /\ Len(board') = Len(board)
<1>1. PICK c : Collects(c, b, work) /\ board' = c.board
    BY DEF Tallied
<1>2. /\ work \in [Attempt -> Worked] /\ \A n \in Attempt : work[n] # "absent" => n \in made
      /\ made \subseteq 1..Len(b) /\ Len(b) = Len(board) /\ Len(c.board) = Len(b) /\ Ledger(c.board)
    BY <1>1 DEF Base, Typed, Settlement, Dispatched, Tallied, Collects
<1>3. /\ Rows(c.board, work) /\ Ordered(c.board)
      /\ \A n \in 1..Len(b) : b[n].known \/ (~b[n].applied /\ work[n] # "absent") => c.board[n].known
    BY <1>1, <1>2, CollectKeeps DEF Base, Tallied
<1>4. AtWork \subseteq 1..Len(b) /\ \A n \in AtWork : work[n] # "absent"
    BY <1>2 DEF AtWork, Live
<1>5. AtWork' = AtWork /\ ~Dispatching' /\ op'.phase # "started"
    BY DEF Tallied, AtWork, Dispatching
<1>6. Parallel'
    BY <1>1, <1>3, <1>4, <1>5 DEF Base, Settlement, Parallel, Tallied
<1> QED BY <1>1, <1>2, <1>3, <1>5, <1>6 DEF Base, Settlement, Dispatched, Dispatcher, Tallied

LEMMA RowTypes ==
    ASSUME Typed
    PROVE  /\ Len(board) \in Nat /\ Len(board) <= MaxAttempts /\ DOMAIN board = 1..Len(board)
           /\ 1..Len(board) \subseteq Attempt /\ Attempt \subseteq Nat /\ Turn \subseteq Nat
           /\ \A n \in 1..Len(board) : board[n] \in Entry
           /\ \A n \in Attempt : work[n] \in Worked /\ notes[n]["done"] \in Note /\ notes[n]["check"] \in Note
BY LedgerRows, Positions DEF Typed, Ledger, Notices, Kinds, Turn

LEMMA ReservesStep ==
    ASSUME Base, NEW q \in Request, NEW t \in Turn, DelegateReserves(q, t)
    PROVE  /\ Typed' /\ Settlement' /\ board' = Append(board, NewEntry(q, t))
           /\ op'.n = Len(board) + 1 /\ op'.n \in Attempt
<1> DEFINE n == Len(board) + 1
           e == NewEntry(q, t)
<1>1. /\ alive /\ op = Idle /\ Admissible(q) /\ Len(board) < MaxAttempts /\ board' = Append(board, e)
      /\ notes' = [notes EXCEPT ![n]["done"] = [Silent EXCEPT !.open = TRUE, !.due = TRUE]]
      /\ op' = [phase |-> "reserved", n |-> n, turn |-> t, told |-> {}]
      /\ UNCHANGED <<alive, items, made, work, turns, look, stop, stops, crashes>>
    BY DEF DelegateReserves, Free
<1>2. /\ Len(board) \in Nat /\ DOMAIN board = 1..Len(board) /\ n \in Attempt /\ n \notin 1..Len(board)
      /\ 1..Len(board) \subseteq Attempt /\ \A m \in 1..Len(board) : board[m] \in Entry
    BY <1>1, RowTypes, Positions DEF Base, Attempt
<1>3. e \in Entry /\ ~e.link /\ ~e.known /\ ~e.applied /\ e.req = q /\ e.item = ItemOf[q]
    BY DelegationConstants DEF NewEntry, Entry, Live
<1>4. /\ board' \in Seq(Entry) /\ Len(board') = n /\ board'[n] = e
      /\ \A m \in 1..Len(board) : board'[m] = board[m]
    BY <1>1, <1>2, <1>3 DEF Base, Typed, Ledger
<1>5. Typed'
    <2>1. [Silent EXCEPT !.open = TRUE, !.due = TRUE] \in Note
        <3>1. Silent \in Note
            BY Positions DEF Silent, Note, NoTurn
        <3>2. [Silent EXCEPT !.open = TRUE] \in Note
            BY <3>1 DEF Note
        <3>3. [[Silent EXCEPT !.open = TRUE] EXCEPT !.due = TRUE] \in Note
            BY <3>2 DEF Note
        <3> QED BY <3>3
    <2>2. notes' \in Notices
        BY <1>1, <1>2, <2>1 DEF Base, Typed, Notices, Kinds
    <2>3. op' \in Ops
        BY <1>1, <1>2, Positions DEF Ops, Turn
    <2>4. Ledger(board')
        BY <1>1, <1>2, <1>4, Positions DEF Ledger
    <2> QED BY <1>1, <2>2, <2>3, <2>4 DEF Base, Typed
<1>6. work[n] = "absent" /\ n \notin made
    BY <1>2 DEF Base, Settlement, Dispatched
<1>7. Rows(board', work')
    BY <1>1, <1>2, <1>3, <1>4, <1>6 DEF Base, Settlement, Rows, Row
<1>8. Ordered(board')
    <2>1. \A m \in 1..Len(board) : board[m].req # q /\ (board[m].item = ItemOf[q] => board[m].applied)
        BY <1>1, <1>2 DEF Admissible, Requested, Uncollected
    <2> QED BY <1>2, <1>3, <1>4, <2>1 DEF Base, Settlement, Ordered
<1>9. Dispatched' /\ Dispatcher'
    BY <1>1, <1>2, <1>3, <1>4, <1>6 DEF Base, Settlement, Dispatched, Dispatcher, Dispatching
<1>10. Parallel'
    <2>1. AtWork' = AtWork /\ op.phase # "started" /\ alive
        BY <1>1 DEF AtWork, Idle
    <2>2. \A m \in AtWork : m \in 1..Len(board) /\ board[m].known
        BY <2>1 DEF Base, Settlement, Parallel, Dispatched, AtWork, Live
    <2>3. AtWork \subseteq Active
        BY <1>2, <2>2 DEF Active, AtWork
    <2>4. Active \subseteq Attempt /\ IsFiniteSet(Active) /\ Cardinality(Active) < MaxParallel
        <3>1. Active \subseteq Attempt /\ IsFiniteSet(Attempt)
            BY <1>2, Positions, FS_Interval DEF Active, Attempt
        <3> QED BY <1>1, <3>1, FS_Subset DEF Admissible
    <2>5. Cardinality(AtWork) < MaxParallel /\ Cardinality(AtWork) \in Nat
        <3>1. IsFiniteSet(AtWork) /\ Cardinality(AtWork) <= Cardinality(Active)
            BY <2>3, <2>4, FS_Subset
        <3>2. Cardinality(AtWork) \in Nat /\ Cardinality(Active) \in Nat
            BY <2>4, <3>1, FS_CardinalityType
        <3> QED BY <2>4, <3>1, <3>2, Positions
    <2> QED BY <1>1, <1>4, <2>1, <2>2, <2>5, Positions DEF Parallel
<1> QED BY <1>1, <1>2, <1>5, <1>7, <1>8, <1>9, <1>10 DEF Settlement

LEMMA HolderRow ==
    ASSUME Base, Dispatching
    PROVE  /\ op.n \in 1..Len(board) /\ op.n \in Attempt /\ alive /\ op # Idle
           /\ ~board[op.n].link /\ ~board[op.n].applied /\ ~board[op.n].known
<1>1. Len(board) \in Nat /\ 1..Len(board) \subseteq Attempt
    BY RowTypes DEF Base
<1>2. op.n \in 1..Len(board) /\ ~board[op.n].link /\ ~board[op.n].applied
    BY <1>1 DEF Base, Settlement, Dispatcher
<1> QED BY <1>1, <1>2 DEF Base, Settlement, Rows, Row, Parallel, Dispatching, Idle

LEMMA MarksStep ==
    ASSUME Base, DelegateMarks
    PROVE  Typed' /\ Settlement'
<1>1. Dispatching /\ op.phase = "reserved" /\ op.n \in 1..Len(board) /\ op.n \in Attempt
    BY HolderRow DEF DelegateMarks, Dispatching
<1>2. op' = [op EXCEPT !.phase = "marked"] /\ UNCHANGED <<alive, board, notes, made, work, turns, look, stop>>
    BY DEF DelegateMarks
<1>3. op' \in Ops /\ op'.phase = "marked" /\ op'.n = op.n
    BY <1>2 DEF Base, Typed, Ops
<1>4. items' \in Documents
    BY DEF DelegateMarks, Base, Typed, Documents
<1>5. Typed'
    BY <1>2, <1>3, <1>4 DEF Base, Typed
<1>6. AtWork' = AtWork
    BY <1>2 DEF AtWork
<1>7. Rows(board', work') /\ Dispatched' /\ Ordered(board')
    BY <1>2 DEF Base, Settlement, Rows, Row, Dispatched, Ordered
<1>8. Dispatcher'
    BY <1>1, <1>2, <1>3 DEF Base, Settlement, Dispatcher, Dispatching
<1>9. Parallel'
    BY <1>1, <1>2, <1>3, <1>6, HolderRow DEF Base, Settlement, Dispatching, Parallel
<1> QED BY <1>5, <1>7, <1>8, <1>9 DEF Settlement

LEMMA MadeStep ==
    ASSUME Base, InstanceMade
    PROVE  Typed' /\ Settlement'
<1>1. Dispatching /\ op.phase = "marked" /\ op.n \in 1..Len(board) /\ op.n \in Attempt /\ work[op.n] = "absent"
    BY HolderRow DEF InstanceMade, Dispatching, Base, Settlement, Dispatcher
<1>2. /\ op' = [op EXCEPT !.phase = "made"] /\ made' = made \union {op.n}
      /\ UNCHANGED <<alive, items, board, notes, work, turns, look, stop>>
    BY DEF InstanceMade
<1>3. op' \in Ops /\ op'.phase = "made" /\ op'.n = op.n
    BY <1>2 DEF Base, Typed, Ops
<1>4. Typed'
    BY <1>1, <1>2, <1>3 DEF Base, Typed
<1>5. AtWork' = AtWork
    BY <1>2 DEF AtWork
<1>6. Rows(board', work') /\ Dispatched' /\ Ordered(board')
    BY <1>1, <1>2 DEF Base, Settlement, Rows, Row, Dispatched, Ordered
<1>7. Dispatcher'
    BY <1>1, <1>2, <1>3 DEF Base, Settlement, Dispatcher, Dispatching
<1>8. Parallel'
    BY <1>1, <1>2, <1>3, <1>5, HolderRow DEF Base, Settlement, Dispatching, Parallel
<1> QED BY <1>4, <1>6, <1>7, <1>8 DEF Settlement

LEMMA StartsStep ==
    ASSUME Base, WorkerStarts
    PROVE  Typed' /\ Settlement'
<1>1. /\ Dispatching /\ op.phase = "made" /\ op.n \in 1..Len(board) /\ op.n \in Attempt /\ alive
      /\ ~board[op.n].link /\ ~board[op.n].applied /\ op.n \in made /\ work[op.n] = "absent"
    BY HolderRow DEF WorkerStarts, Dispatching, Base, Settlement, Dispatcher
<1>2. /\ op' = [op EXCEPT !.phase = "started"] /\ work' = [work EXCEPT ![op.n] = "running"]
      /\ UNCHANGED <<alive, items, board, notes, made, turns, look, stop>>
    BY DEF WorkerStarts
<1>3. op' \in Ops /\ op'.phase = "started" /\ op'.n = op.n
    BY <1>2 DEF Base, Typed, Ops
<1>4. /\ work' \in [Attempt -> Worked] /\ work'[op.n] = "running"
      /\ \A n \in Attempt : n # op.n => work'[n] = work[n]
    BY <1>1, <1>2 DEF Base, Typed, Worked, Live
<1>5. Typed'
    BY <1>1, <1>2, <1>3, <1>4 DEF Base, Typed
<1>6. AtWork' = AtWork \union {op.n} /\ op.n \notin AtWork
    BY <1>1, <1>4 DEF AtWork, Live
<1>7. Cardinality(AtWork') <= MaxParallel
    <2>1. IsFiniteSet(AtWork) /\ Cardinality(AtWork) \in Nat
        BY AtWorkFinite, FS_CardinalityType DEF Base
    <2>2. Cardinality(AtWork') = Cardinality(AtWork) + 1
        BY <1>6, <2>1, FS_AddElement
    <2>3. Cardinality(AtWork) < MaxParallel
        BY <1>1 DEF Base, Settlement, Parallel
    <2> QED BY <2>1, <2>2, <2>3, Positions
<1>8. Parallel'
    BY <1>1, <1>2, <1>3, <1>6, <1>7 DEF Base, Settlement, Parallel, Idle
<1>9. Rows(board', work')
    <2> SUFFICES ASSUME NEW n \in 1..Len(board) PROVE Row(board[n], work'[n])
        BY <1>2 DEF Rows
    <2>1. Row(board[n], work[n]) /\ n \in Attempt
        BY RowTypes DEF Base, Settlement, Rows
    <2> QED BY <1>1, <1>4, <2>1, HolderRow DEF Row
<1> QED BY <1>1, <1>2, <1>3, <1>4, <1>5, <1>8, <1>9
        DEF Base, Settlement, Dispatched, Ordered, Dispatcher, Dispatching

-----------------------------------------------------------------------------
(* Steps, by what they do to notices, turns and stops.                     *)

\* Notices keep the turn they name, and turns what they were told.
Heard ==
    /\ Len(board) <= Len(board')
    /\ \A n \in 1..Len(board), k \in Kinds :
          /\ notes'[n][k].turn = notes[n][k].turn
          /\ notes[n][k].open => notes'[n][k].open
    /\ \A n \in 1..Len(board') : n \in 1..Len(board) \/ notes'[n]["done"].open
    /\ \A t \in Turn : /\ turns'[t].told = turns[t].told
                       /\ turns'[t].status = "absent" => turns[t].status = "absent"
                       /\ turns[t].status = "absent" => turns'[t].status = "absent" \/ t \notin Named(notes)
    /\ op' = op \/ op'.phase # "claimed"

\* If the board is being stopped, it was before, and nothing comes up.
Calm ==
    Stopping' =>
        /\ Stopping /\ stop' = stop /\ op' = Idle /\ Len(board') = Len(board) /\ AtWork' \subseteq AtWork
        /\ \A n \in 1..Len(board) :
              /\ notes[n]["done"].quiet => notes'[n]["done"].quiet
              /\ notes[n]["check"].quiet => notes'[n]["check"].quiet
              /\ notes'[n]["check"].open => notes[n]["check"].open \/ ~notes[n]["done"].quiet
        /\ \A t \in Turn : Running(t)' => turns'[t].told = {} \/ (Running(t) /\ turns'[t].told = turns[t].told)

LEMMA HeardStep ==
    ASSUME Inv, Typed', Heard
    PROVE  Told' /\ Claiming' /\ Opened'
<1>1. /\ Len(board) \in Nat /\ Len(board') \in Nat /\ 1..Len(board) \subseteq 1..Len(board')
      /\ 1..Len(board) \subseteq Attempt
    <2>1. Len(board) \in Nat /\ Len(board') \in Nat
        BY LedgerRows DEF Inv, Base, Typed
    <2> QED BY <2>1, RowTypes DEF Heard, Inv, Base
<1>2. \A t \in Turn : turns[t].told \subseteq Attempt \X Kinds
    BY DEF Inv, Base, Typed, Turns
<1>3. Told'
    <2> SUFFICES ASSUME NEW t \in Turn, NEW x \in turns'[t].told
                 PROVE  /\ x[1] \in 1..Len(board') /\ notes'[x[1]][x[2]].turn = t
                        /\ turns'[t].status # "absent"
        BY DEF Told
    <2>1. x \in turns[t].told /\ x \in Attempt \X Kinds
        BY <1>2 DEF Heard
    <2>2. x[2] \in Kinds /\ x[1] \in 1..Len(board) /\ notes[x[1]][x[2]].turn = t /\ turns[t].status # "absent"
        BY <2>1 DEF Inv, Told
    <2> QED BY <1>1, <2>2 DEF Heard
<1>4. Claiming'
    <2> SUFFICES ASSUME op'.phase = "claimed" PROVE Claiming'
        BY DEF Claiming
    <2>1. op' = op /\ op.phase = "claimed" /\ op.told \subseteq Attempt \X Kinds
        BY DEF Heard, Inv, Base, Typed, Ops
    <2>2. /\ op.n \in Turn /\ op.turn \in Turn /\ turns[op.turn].status = "absent" /\ op.told # {}
          /\ \A x \in op.told : x[1] \in 1..Len(board) /\ notes[x[1]][x[2]].turn = op.turn
        BY <2>1 DEF Inv, Claiming
    <2>3. \A x \in op.told : x[1] \in 1..Len(board') /\ notes'[x[1]][x[2]].turn = op.turn
        BY <1>1, <2>1, <2>2 DEF Heard
    <2>4. op.turn \in Named(notes)
        <3>1. PICK x : x \in op.told
            BY <2>2
        <3> QED BY <1>1, <2>1, <2>2, <3>1 DEF Named
    <2> QED BY <2>1, <2>2, <2>3, <2>4 DEF Heard, Claiming
<1>5. Opened'
    BY DEF Heard, Inv, Opened, Kinds
<1> QED BY <1>3, <1>4, <1>5

LEMMA CalmStep ==
    ASSUME Inv, Calm
    PROVE  Halting'
<1> SUFFICES ASSUME Stopping' PROVE Halting'
    BY DEF Halting
<1>1. /\ Stopping /\ stop' = stop /\ op' = Idle /\ Len(board') = Len(board) /\ AtWork' \subseteq AtWork
      /\ AtWork \subseteq stop.who
    BY DEF Calm, Inv, Halting
<1>2. \A n \in 1..Len(board) :
          notes'[n]["done"].quiet /\ (notes'[n]["check"].open => notes'[n]["check"].quiet)
    BY <1>1 DEF Calm, Inv, Halting
<1>3. \A t \in Turn : Running(t)' /\ turns'[t].told # {} => t \in stop.tell
    BY <1>1 DEF Calm, Inv, Halting
<1> QED BY <1>1, <1>2, <1>3 DEF Halting

-----------------------------------------------------------------------------
(* Collecting.                                                             *)

LEMMA SavesCollected ==
    ASSUME Typed, NEW b, Ledger(b), NEW runs \in [Attempt -> Worked], Rows(b, runs), Save(Collected(b, runs))
    PROVE  \E c : Collects(c, b, runs) /\ board' = c.board /\ items' = c.items /\ notes' = c.notes
BY CollectRows DEF Save

\* The board is collected and saved, b being its ledger, and the lock is free.
Tallies(b) ==
    /\ alive /\ Ledger(b) /\ Rows(b, work) /\ Ordered(b) /\ Len(b) = Len(board)
    /\ \A n \in AtWork : b[n].known \/ ~b[n].applied
    /\ Save(Collected(b, work))
    /\ UNCHANGED <<alive, made, work, turns>>
    /\ op' = Idle /\ stop' \in {stop, NoStop}
    /\ look' \in [turn : 0..MaxTurns, set : SUBSET Attempt]

LEMMA CollectedNotes ==
    ASSUME Typed, NEW b, NEW runs, NEW c, Collects(c, b, runs), NEW n \in Attempt
    PROVE  /\ \A k \in Kinds : /\ c.notes[n][k].turn = notes[n][k].turn /\ c.notes[n][k].due = notes[n][k].due
                               /\ c.notes[n][k].quiet = notes[n][k].quiet /\ c.notes[n][k].seen = notes[n][k].seen
                               /\ notes[n][k].open => c.notes[n][k].open
           /\ c.notes[n]["check"].open => notes[n]["check"].open \/ ~notes[n]["done"].quiet
<1>1. notes[n]["done"] \in Note /\ notes[n]["check"] \in Note
    BY DEF Typed, Notices, Kinds
<1> QED BY <1>1 DEF Collects, Note, Kinds

LEMMA TalliesStep ==
    ASSUME Inv, NEW b, Tallies(b)
    PROVE  Inv'
<1>1. PICK c : Collects(c, b, work) /\ board' = c.board /\ items' = c.items /\ notes' = c.notes
    BY SavesCollected DEF Inv, Base, Typed, Tallies
<1>2. Tallied(b)
    BY <1>1 DEF Tallies, Tallied, Idle
<1>3. Settlement' /\ Ledger(board') /\ Len(board') = Len(board)
    BY <1>2, TalliedStep DEF Inv
<1>4. Idle \in Ops /\ NoStop \in Stops
    BY Positions DEF Idle, Ops, NoTurn, NoStop, Stops
<1>5. Typed'
    BY <1>1, <1>3, <1>4 DEF Inv, Base, Typed, Tallies, Collects
<1>6. 1..Len(board) \subseteq Attempt /\ Len(board) \in Nat
    BY RowTypes DEF Inv, Base
<1>7. Heard
    BY <1>1, <1>3, <1>6, CollectedNotes DEF Inv, Base, Heard, Tallies, Idle
<1>8. AtWork' = AtWork
    BY DEF AtWork, Tallies
<1>9. Stopping' => Stopping /\ stop' = stop
    BY DEF Stopping, Tallies, NoStop
<1>10. Calm
    BY <1>1, <1>3, <1>6, <1>8, <1>9, CollectedNotes DEF Inv, Base, Calm, Tallies, Kinds, Running
<1> QED BY <1>3, <1>5, <1>7, <1>10, HeardStep, CalmStep DEF Inv, Base

LEMMA LiveIsKnown ==
    ASSUME Base, alive
    PROVE  \A n \in AtWork : n \in 1..Len(board) /\ (board[n].known \/ ~board[n].applied)
<1>1. \A n \in AtWork : n \in 1..Len(board)
    BY DEF Base, Settlement, Dispatched, AtWork, Live
<1>2. op.phase = "started" => ~board[op.n].applied
    BY HolderRow DEF Dispatching
<1> QED BY <1>1, <1>2 DEF Base, Settlement, Parallel

LEMMA PollStep ==
    ASSUME Inv, Poll \/ StopEnds
    PROVE  Inv'
<1>1. Tallies(board)
    BY LiveIsKnown DEF Inv, Base, Typed, Settlement, Poll, StopEnds, Free, Tallies
<1> QED BY <1>1, TalliesStep

LEMMA ReadsStep ==
    ASSUME Inv, NEW t \in Turn, CollectReads(t)
    PROVE  Inv'
<1>1. PICK c : c = Collected(board, work) /\ Save(c) /\ look' = [turn |-> t, set |-> Unseen(c)]
    BY DEF CollectReads
<1>2. Collects(c, board, work)
    BY <1>1, CollectRows DEF Inv, Base, Typed, Settlement
<1>3. Unseen(c) \subseteq Attempt
    BY <1>2, LedgerRows DEF Collects, Unseen, Applied
<1>4. look' \in [turn : 0..MaxTurns, set : SUBSET Attempt]
    BY <1>1, <1>3, Positions DEF Turn
<1>5. Tallies(board)
    BY <1>1, <1>4, LiveIsKnown DEF Inv, Base, Typed, Settlement, CollectReads, Free, Tallies
<1> QED BY <1>5, TalliesStep

LEMMA AbortsStep ==
    ASSUME Inv, DelegateAborts
    PROVE  Inv'
<1>1. Tallies(board)
    BY LiveIsKnown DEF Inv, Base, Typed, Settlement, DelegateAborts, Tallies
<1> QED BY <1>1, TalliesStep

\* The handle that delegate writes, for a Run or for a refusal.
LEMMA LinkedRow ==
    ASSUME Base, Dispatching, NEW b,
           \/ /\ op.phase = "started"
              /\ b = [board EXCEPT ![op.n].link = TRUE, ![op.n].known = TRUE, ![op.n].status = work[op.n]]
           \/ /\ op.phase = "made"
              /\ b = [board EXCEPT ![op.n].link = TRUE, ![op.n].status = "failed"]
    PROVE  /\ Ledger(b) /\ Rows(b, work) /\ Ordered(b) /\ Len(b) = Len(board)
           /\ \A n \in AtWork : b[n].known \/ ~b[n].applied
<1>1. /\ Len(board) \in Nat /\ Len(board) <= MaxAttempts /\ DOMAIN board = 1..Len(board)
      /\ 1..Len(board) \subseteq Attempt /\ \A n \in 1..Len(board) : board[n] \in Entry
      /\ work \in [Attempt -> Worked]
    BY RowTypes DEF Base, Typed
<1>2. /\ op.n \in 1..Len(board) /\ alive /\ ~board[op.n].applied /\ ~board[op.n].known
      /\ work[op.n] = "absent" <=> op.phase # "started"
    BY HolderRow DEF Base, Settlement, Dispatcher
<1> DEFINE e == b[op.n]
<1>3. /\ e \in Entry /\ e.link /\ ~e.applied /\ e.req = board[op.n].req /\ e.item = board[op.n].item
      /\ e.known <=> op.phase = "started"
    <2>1. CASE op.phase = "started"
        <3>1. e = [board[op.n] EXCEPT !.link = TRUE, !.known = TRUE, !.status = work[op.n]]
            BY <1>1, <1>2, <2>1
        <3>2. work[op.n] \in Live \union Terminal
            BY <1>1, <1>2, <2>1 DEF Worked
        <3> QED BY <1>1, <1>2, <2>1, <3>1, <3>2 DEF Entry
    <2>2. CASE op.phase = "made"
        <3>1. e = [board[op.n] EXCEPT !.link = TRUE, !.status = "failed"]
            BY <1>1, <1>2, <2>2
        <3> QED BY <1>1, <1>2, <2>2, <3>1 DEF Entry, Terminal
    <2> QED BY <2>1, <2>2
<1>4. DOMAIN b = 1..Len(board) /\ \A n \in 1..Len(board) : n # op.n => b[n] = board[n]
    BY <1>1, <1>2
<1>5. b \in [1..Len(board) -> Entry]
    <2>1. b = [n \in 1..Len(board) |-> b[n]]
        BY <1>1
    <2>2. \A n \in 1..Len(board) : b[n] \in Entry
        BY <1>1, <1>3, <1>4
    <2> QED BY <2>1, <2>2
<1>6. Ledger(b) /\ Len(b) = Len(board)
    BY <1>1, <1>5, LedgerOf
<1> HIDE DEF e
<1>7. Rows(b, work)
    <2> SUFFICES ASSUME NEW n \in 1..Len(board) PROVE Row(b[n], work[n])
        BY <1>6 DEF Rows
    <2>1. CASE n = op.n
        BY <1>2, <1>3, <2>1 DEF Row, e
    <2>2. CASE n # op.n
        BY <1>4, <2>2 DEF Base, Settlement, Rows
    <2> QED BY <2>1, <2>2
<1>8. Ordered(b)
    <2>1. \A n \in 1..Len(board) : /\ b[n].req = board[n].req /\ b[n].item = board[n].item
                                   /\ board[n].applied => b[n].applied
        BY <1>2, <1>3, <1>4 DEF e
    <2> QED BY <1>6, <2>1 DEF Base, Settlement, Ordered
<1>9. \A n \in AtWork : b[n].known \/ ~b[n].applied
    BY <1>2, <1>3, <1>4, LiveIsKnown DEF e
<1> QED BY <1>6, <1>7, <1>8, <1>9

LEMMA SavedStep ==
    ASSUME Inv, HandleSaved \/ WorkerRefused
    PROVE  Inv'
<1>1. CASE HandleSaved
    <2> DEFINE b == [board EXCEPT ![op.n].link = TRUE, ![op.n].known = TRUE, ![op.n].status = work[op.n]]
    <2>1. Dispatching /\ op.phase = "started" /\ alive /\ Save(Collected(b, work)) /\ op' = Idle
        BY <1>1 DEF HandleSaved, Dispatching
    <2> HIDE DEF b
    <2>2. /\ Ledger(b) /\ Rows(b, work) /\ Ordered(b) /\ Len(b) = Len(board)
          /\ \A n \in AtWork : b[n].known \/ ~b[n].applied
        BY <2>1, LinkedRow DEF b, Inv
    <2>3. Tallies(b)
        BY <1>1, <2>1, <2>2 DEF Tallies, HandleSaved, Inv, Base, Typed
    <2> QED BY <2>3, TalliesStep
<1>2. CASE WorkerRefused
    <2> DEFINE b == [board EXCEPT ![op.n].link = TRUE, ![op.n].status = "failed"]
    <2>1. Dispatching /\ op.phase = "made" /\ alive /\ Save(Collected(b, work)) /\ op' = Idle
        BY <1>2 DEF WorkerRefused, Dispatching
    <2> HIDE DEF b
    <2>2. /\ Ledger(b) /\ Rows(b, work) /\ Ordered(b) /\ Len(b) = Len(board)
          /\ \A n \in AtWork : b[n].known \/ ~b[n].applied
        BY <2>1, LinkedRow DEF b, Inv
    <2>3. Tallies(b)
        BY <1>2, <2>1, <2>2 DEF Tallies, WorkerRefused, Inv, Base, Typed
    <2> QED BY <2>3, TalliesStep
<1> QED BY <1>1, <1>2

-----------------------------------------------------------------------------
(* Delegating, up to the worker's Run.                                     *)

LEMMA HolderIsAlone ==
    ASSUME Inv, op # Idle
    PROVE  ~Stopping
BY DEF Inv, Halting

LEMMA DelegateStep ==
    ASSUME Inv, NEW q \in Request, NEW t \in Turn, DelegateReserves(q, t)
    PROVE  Inv'
<1> DEFINE n == Len(board) + 1
<1>1. /\ Typed' /\ Settlement' /\ board' = Append(board, NewEntry(q, t)) /\ op'.n = n /\ op'.n \in Attempt
    BY ReservesStep DEF Inv
<1>2. /\ notes' = [notes EXCEPT ![n]["done"] = [Silent EXCEPT !.open = TRUE, !.due = TRUE]]
      /\ op'.phase = "reserved" /\ turns' = turns /\ stop' = stop /\ ~Stopping
    BY DEF DelegateReserves, Admissible
<1>3. /\ Len(board) \in Nat /\ Len(board') = n /\ 1..Len(board) \subseteq Attempt /\ n \in Attempt
      /\ board \in Seq(Entry)
    BY <1>1, RowTypes DEF Inv, Base, Typed, Ledger
<1>4. \A m \in 1..Len(board) : notes'[m] = notes[m]
    BY <1>2, <1>3 DEF Inv, Base, Typed, Notices
<1>5. notes'[n]["done"].open
    <2>1. notes[n] \in [Kinds -> Note] /\ notes'[n] = [notes[n] EXCEPT !["done"] = [Silent EXCEPT !.open = TRUE, !.due = TRUE]]
        BY <1>2, <1>3 DEF Inv, Base, Typed, Notices
    <2> QED BY <2>1 DEF Kinds, Silent
<1>6. Heard
    BY <1>2, <1>3, <1>4, <1>5 DEF Heard
<1>7. Calm
    BY <1>2 DEF Calm, Stopping
<1> QED BY <1>1, <1>6, <1>7, HeardStep, CalmStep DEF Inv, Base

LEMMA DispatchStep ==
    ASSUME Inv, DelegateMarks \/ InstanceMade \/ WorkerStarts
    PROVE  Inv'
<1>1. Typed' /\ Settlement'
    BY MarksStep, MadeStep, StartsStep DEF Inv
<1>2. /\ UNCHANGED <<board, notes, turns, stop>> /\ op # Idle
      /\ op'.phase # "claimed"
    <2>1. op \in Ops
        BY DEF Inv, Base, Typed
    <2> QED BY <2>1 DEF DelegateMarks, InstanceMade, WorkerStarts, Idle, Ops
<1>3. Heard
    BY <1>2, RowTypes DEF Heard, Inv, Base
<1>4. Calm
    BY <1>2, HolderIsAlone DEF Calm, Stopping
<1> QED BY <1>1, <1>3, <1>4, HeardStep, CalmStep DEF Inv, Base

-----------------------------------------------------------------------------
(* Runs that end or are cancelled.                                         *)

LEMMA TurnTypes ==
    ASSUME Typed
    PROVE  \A t \in Turn : /\ turns[t].status \in {"absent"} \union Live \union Terminal
                           /\ turns[t].stopped \in BOOLEAN /\ turns[t].parent \in 0..MaxTurns
                           /\ turns[t].told \subseteq Attempt \X Kinds
BY DEF Typed, Turns


LEMMA CancelledTurns ==
    ASSUME Typed, NEW T, NEW t \in Turn,
           turns' = Cancelled(T) \/ turns' = [Cancelled(T) EXCEPT ![t].stopped = TRUE]
    PROVE  /\ turns' \in Turns
           /\ \A s \in Turn : /\ turns'[s].told = turns[s].told
                              /\ turns'[s].status = (IF s \in T /\ Running(s) THEN "cancelled" ELSE turns[s].status)
<1> DEFINE row(s) == IF s \in T /\ Running(s) THEN [turns[s] EXCEPT !.status = "cancelled", !.stopped = TRUE]
                                              ELSE turns[s]
           TurnRow == [status : {"absent"} \union Live \union Terminal, parent : 0..MaxTurns,
                       stopped : BOOLEAN, told : SUBSET (Attempt \X Kinds)]
<1>1. ASSUME NEW s \in Turn
      PROVE  /\ row(s) \in TurnRow /\ row(s).told = turns[s].told
             /\ row(s).status = (IF s \in T /\ Running(s) THEN "cancelled" ELSE turns[s].status)
    <2>1. turns[s] \in TurnRow
        BY DEF Typed, Turns
    <2>2. [turns[s] EXCEPT !.status = "cancelled"] \in TurnRow
        BY <2>1 DEF Terminal
    <2>3. [[turns[s] EXCEPT !.status = "cancelled"] EXCEPT !.stopped = TRUE] \in TurnRow
        BY <2>2
    <2> QED BY <2>1, <2>3
<1>2. Cancelled(T) = [s \in Turn |-> row(s)]
    BY DEF Cancelled
<1> HIDE DEF row
<1>3. Cancelled(T) \in [Turn -> TurnRow] /\ \A s \in Turn : Cancelled(T)[s] = row(s)
    BY <1>1, <1>2
<1>4. CASE turns' = Cancelled(T)
    BY <1>1, <1>3, <1>4 DEF Turns
<1>5. CASE turns' = [Cancelled(T) EXCEPT ![t].stopped = TRUE]
    <2>1. turns' = [Cancelled(T) EXCEPT ![t] = [Cancelled(T)[t] EXCEPT !.stopped = TRUE]]
        BY <1>5
    <2>2. [row(t) EXCEPT !.stopped = TRUE] \in TurnRow
        BY <1>1
    <2>3. turns' \in [Turn -> TurnRow]
        BY <1>3, <2>1, <2>2
    <2>4. \A s \in Turn : turns'[s] = (IF s = t THEN [row(t) EXCEPT !.stopped = TRUE] ELSE row(s))
        BY <1>3, <2>1
    <2>5. ASSUME NEW s \in Turn PROVE turns'[s].told = row(s).told /\ turns'[s].status = row(s).status
        BY <1>1, <2>4
    <2> QED BY <1>1, <2>3, <2>5 DEF Turns
<1> QED BY <1>4, <1>5

LEMMA EndedWorkers ==
    ASSUME Typed, NEW T, NEW N, work' = Ended(T, N)
    PROVE  /\ work' \in [Attempt -> Worked]
           /\ \A n \in Attempt : work'[n] = work[n] \/ (work[n] \in Live /\ work'[n] \in Terminal)
           /\ \A n \in N : n \in Attempt => work'[n] \notin Live
BY DEF Ended, Typed, Worked, Live, Terminal

\* Live workers and turns may end, and nothing else happens but to a stop.
Wanes ==
    /\ work' \in [Attempt -> Worked] /\ turns' \in Turns /\ stop' \in Stops
    /\ Ceases
    /\ \A t \in Turn : /\ turns'[t].told = turns[t].told
                       /\ turns'[t].status = turns[t].status \/ (Running(t) /\ turns'[t].status \in Terminal)
    /\ UNCHANGED <<items, notes, look>>

LEMMA WanesStep ==
    ASSUME Inv, Wanes, Stopping' => Stopping,
           Stopping' => \A n \in AtWork' : n \in stop.who => n \in stop'.who,
           Stopping' => \A t \in Turn : Running(t)' /\ turns[t].told # {} /\ t \in stop.tell => t \in stop'.tell
    PROVE  Inv'
<1>1. Settlement'
    BY CeasesStep DEF Inv, Wanes
<1>2. Typed'
    BY DEF Inv, Base, Typed, Wanes, Ceases
<1>3. Len(board') = Len(board) /\ op' = op /\ notes' = notes /\ Len(board) \in Nat
    BY RowTypes DEF Wanes, Ceases, Inv, Base
<1>4. \A t \in Turn : /\ turns'[t].status = "absent" <=> turns[t].status = "absent"
                      /\ Running(t)' => Running(t)
    BY TurnTypes DEF Wanes, Running, Terminal, Inv, Base
<1>5. Heard
    BY <1>3, <1>4 DEF Heard, Wanes
<1>6. AtWork' \subseteq AtWork
    BY DEF AtWork, Wanes, Ceases, Live, Terminal
<1>7. Halting'
    <2> SUFFICES ASSUME Stopping' PROVE Halting'
        BY DEF Halting
    <2>1. /\ op = Idle /\ AtWork \subseteq stop.who
          /\ \A n \in 1..Len(board) : notes[n]["done"].quiet /\ (notes[n]["check"].open => notes[n]["check"].quiet)
          /\ \A t \in Turn : Running(t) /\ turns[t].told # {} => t \in stop.tell
        BY DEF Inv, Halting
    <2>2. AtWork' \subseteq stop'.who
        BY <1>6, <2>1
    <2>3. \A t \in Turn : Running(t)' /\ turns'[t].told # {} => t \in stop'.tell
        BY <1>4, <2>1 DEF Wanes
    <2> QED BY <1>3, <2>1, <2>2, <2>3 DEF Halting
<1> QED BY <1>1, <1>2, <1>5, <1>7, HeardStep DEF Inv, Base

LEMMA WorkerEndsStep ==
    ASSUME Inv, NEW n \in Attempt, WorkerEnds(n)
    PROVE  Inv'
<1>1. /\ work' \in [Attempt -> Worked]
      /\ \A m \in Attempt : work'[m] = work[m] \/ (work[m] \in Live /\ work'[m] \in Terminal)
    BY DEF WorkerEnds, Inv, Base, Typed, Worked, Live, Terminal
<1>2. Wanes /\ stop' = stop
    BY <1>1 DEF WorkerEnds, Wanes, Ceases, Inv, Base, Typed
<1> QED BY <1>2, WanesStep DEF Stopping, WorkerEnds

LEMMA TurnEndsStep ==
    ASSUME Inv, NEW t \in Turn, TurnEnds(t)
    PROVE  Inv'
<1>1. PICK s \in {"succeeded", "failed"} : turns' = [turns EXCEPT ![t].status = s]
    BY DEF TurnEnds
<1>2. turns[t] \in [status : {"absent"} \union Live \union Terminal, parent : 0..MaxTurns,
                    stopped : BOOLEAN, told : SUBSET (Attempt \X Kinds)]
    BY DEF Inv, Base, Typed, Turns
<1>3. /\ turns' \in Turns
      /\ \A r \in Turn : /\ turns'[r].told = turns[r].told
                         /\ turns'[r].status = (IF r = t THEN s ELSE turns[r].status)
    BY <1>1, <1>2 DEF Inv, Base, Typed, Turns, Terminal
<1>4. Wanes /\ stop' = stop
    BY <1>3 DEF TurnEnds, Wanes, Ceases, Inv, Base, Typed, Terminal
<1> QED BY <1>4, WanesStep DEF Stopping, TurnEnds

LEMMA UserCancelsStep ==
    ASSUME Inv, NEW t \in Turn, UserCancels(t)
    PROVE  Inv'
<1>1. turns' \in Turns /\ \A s \in Turn : /\ turns'[s].told = turns[s].told
                                          /\ turns'[s].status = turns[s].status \/ (Running(s) /\ turns'[s].status \in Terminal)
    BY CancelledTurns DEF UserCancels, Inv, Base, Terminal
<1>2. /\ work' \in [Attempt -> Worked]
      /\ \A n \in Attempt : work'[n] = work[n] \/ (work[n] \in Live /\ work'[n] \in Terminal)
    BY EndedWorkers DEF UserCancels, Inv, Base
<1>3. Wanes /\ stop' = stop
    BY <1>1, <1>2 DEF UserCancels, Wanes, Ceases, Inv, Base, Typed
<1> QED BY <1>3, WanesStep DEF Stopping, UserCancels

LEMMA StopCancelsStep ==
    ASSUME Inv, NEW n \in Attempt, StopCancels(n)
    PROVE  Inv'
<1>1. /\ work' \in [Attempt -> Worked] /\ work'[n] \notin Live
      /\ \A m \in Attempt : work'[m] = work[m] \/ (work[m] \in Live /\ work'[m] \in Terminal)
    BY EndedWorkers DEF StopCancels, Inv, Base
<1>2. stop' \in Stops /\ stop'.who = stop.who \ {n} /\ stop'.tell = stop.tell /\ stop'.on = stop.on /\ stop'.all = stop.all
    BY DEF StopCancels, Inv, Base, Typed, Stops
<1>3. Wanes
    BY <1>1, <1>2 DEF StopCancels, Wanes, Ceases, Inv, Base, Typed
<1>4. (Stopping' => Stopping) /\ \A m \in AtWork' : m \in stop.who => m \in stop'.who
    BY <1>1, <1>2 DEF Stopping, AtWork
<1> QED BY <1>2, <1>3, <1>4, WanesStep

LEMMA StopCancelsTurnStep ==
    ASSUME Inv, NEW t \in Turn, StopCancelsTurn(t)
    PROVE  Inv'
<1>1. t \in Below(t)
    BY DEF Below
<1>2. turns' \in Turns /\ \A s \in Turn : /\ turns'[s].told = turns[s].told
                                          /\ turns'[s].status = (IF s \in Below(t) /\ Running(s) THEN "cancelled" ELSE turns[s].status)
    BY CancelledTurns DEF StopCancelsTurn, Inv, Base
<1>3. /\ work' \in [Attempt -> Worked]
      /\ \A n \in Attempt : work'[n] = work[n] \/ (work[n] \in Live /\ work'[n] \in Terminal)
    BY EndedWorkers DEF StopCancelsTurn, Inv, Base
<1>4. stop' \in Stops /\ stop'.who = stop.who /\ stop'.tell = stop.tell \ {t} /\ stop'.on = stop.on /\ stop'.all = stop.all
    BY DEF StopCancelsTurn, Inv, Base, Typed, Stops
<1>5. Wanes
    BY <1>2, <1>3, <1>4 DEF StopCancelsTurn, Wanes, Ceases, Inv, Base, Typed, Terminal
<1>6. (Stopping' => Stopping) /\ ~Running(t)'
    BY <1>1, <1>2, <1>4 DEF Stopping, Running
<1> QED BY <1>4, <1>5, <1>6, WanesStep

-----------------------------------------------------------------------------
(* The coordinator's other calls, users, and the beginning and end of stops. *)

\* The ledger, the Runs and the lock are left alone.
Aside ==
    /\ UNCHANGED <<alive, board, made, work>>
    /\ op' = op \/ (~Dispatching /\ op' = Idle)
    /\ items' \in Documents /\ notes' \in Notices /\ turns' \in Turns
    /\ look' \in [turn : 0..MaxTurns, set : SUBSET Attempt] /\ stop' \in Stops

LEMMA AsideStep ==
    ASSUME Inv, Aside
    PROVE  Typed' /\ Settlement' /\ Len(board') = Len(board) /\ AtWork' = AtWork
<1>1. Settlement'
    BY StillStep DEF Inv, Aside, Still
<1>2. Idle \in Ops
    BY Positions DEF Idle, Ops, NoTurn
<1>3. op' \in Ops
    BY <1>2 DEF Inv, Base, Typed, Aside
<1>4. Typed'
    BY <1>3 DEF Inv, Base, Typed, Aside
<1> QED BY <1>1, <1>4 DEF Aside, AtWork

\* Notices change only in what neither names a turn nor opens or mutes them.
Tame ==
    \A n \in Attempt, k \in Kinds :
        /\ notes'[n][k].turn = notes[n][k].turn /\ notes'[n][k].open = notes[n][k].open
        /\ notes[n][k].quiet => notes'[n][k].quiet

LEMMA TameStep ==
    ASSUME Inv, Aside, Tame, stop' = stop \/ ~Stopping', UNCHANGED <<turns, op>>
    PROVE  Inv'
<1>1. Typed' /\ Settlement' /\ Len(board') = Len(board) /\ AtWork' = AtWork /\ Len(board) \in Nat
    BY AsideStep, RowTypes DEF Inv, Base
<1>2. 1..Len(board) \subseteq Attempt
    BY RowTypes DEF Inv, Base
<1>3. Heard
    BY <1>1, <1>2 DEF Heard, Tame
<1>4. Calm
    <2> SUFFICES ASSUME Stopping' PROVE Calm
        BY DEF Calm
    <2>1. Stopping /\ op' = Idle /\ stop' = stop
        BY DEF Stopping, Inv, Halting
    <2> QED BY <1>1, <1>2, <2>1 DEF Calm, Tame, Kinds, Running
<1> QED BY <1>1, <1>3, <1>4, HeardStep, CalmStep DEF Inv, Base

LEMMA ReportsStep ==
    ASSUME Inv, NEW n \in Attempt, WorkerReports(n)
    PROVE  Inv'
<1>1. Noted(n)
    BY RowTypes DEF WorkerReports, Free, Noted, Inv, Base
<1>2. Settlement' /\ Ledger(board')
    BY <1>1, NotedStep DEF Inv
<1>3. Typed'
    BY <1>2 DEF WorkerReports, Inv, Base, Typed
<1>4. Len(board') = Len(board) /\ Len(board) \in Nat /\ AtWork' = AtWork
    <2>1. DOMAIN board' = DOMAIN board
        BY <1>1 DEF Noted
    <2>2. DOMAIN board' = 1..Len(board') /\ DOMAIN board = 1..Len(board) /\ Len(board) \in Nat /\ Len(board') \in Nat
        BY <1>2, LedgerRows DEF Inv, Base, Typed
    <2> QED BY <2>1, <2>2 DEF WorkerReports, AtWork
<1>5. Heard
    BY <1>4 DEF Heard, WorkerReports
<1>6. Calm
    BY <1>4 DEF Calm, WorkerReports, Stopping, Inv, Halting, Running
<1> QED BY <1>2, <1>3, <1>5, <1>6, HeardStep, CalmStep DEF Inv, Base

LEMMA EditStep ==
    ASSUME Inv, NEW i \in Item, Edit(i)
    PROVE  Inv'
<1>1. items' \in Documents
    BY DEF Edit, Inv, Base, Typed, Documents
<1>2. Aside /\ Tame
    BY <1>1 DEF Edit, Aside, Tame, Inv, Base, Typed
<1> QED BY <1>2, TameStep DEF Edit

LEMMA MarksSeenStep ==
    ASSUME Inv, CollectMarks \/ CollectDropped
    PROVE  Inv'
<1>1. NoLook \in [turn : 0..MaxTurns, set : SUBSET Attempt]
    BY Positions DEF NoLook, NoTurn
<1>2. CASE CollectDropped
    <2>1. Aside /\ Tame
        BY <1>1, <1>2 DEF CollectDropped, Aside, Tame, Inv, Base, Typed
    <2> QED BY <1>2, <2>1, TameStep DEF CollectDropped
<1>3. CASE CollectMarks
    <2>1. \A n \in Attempt : \/ notes'[n] = notes[n]
                             \/ notes'[n] = [notes[n] EXCEPT !["done"] = [notes[n]["done"] EXCEPT !.seen = TRUE]]
        <3> TAKE n \in Attempt
        <3>1. notes'[n] = notes[n] \/ notes'[n] = [notes[n] EXCEPT !["done"].seen = TRUE]
            BY <1>3 DEF CollectMarks
        <3> QED BY <3>1
    <2>2. ASSUME NEW n \in Attempt
          PROVE  /\ notes'[n] \in [Kinds -> Note]
                 /\ \A k \in Kinds : /\ notes'[n][k].turn = notes[n][k].turn /\ notes'[n][k].open = notes[n][k].open
                                     /\ notes[n][k].quiet => notes'[n][k].quiet
        <3>1. notes[n] \in [Kinds -> Note] /\ notes[n]["done"] \in Note
            BY DEF Inv, Base, Typed, Notices, Kinds
        <3>2. [notes[n]["done"] EXCEPT !.seen = TRUE] \in Note
            BY <3>1 DEF Note
        <3>3. CASE notes'[n] = [notes[n] EXCEPT !["done"] = [notes[n]["done"] EXCEPT !.seen = TRUE]]
            <4>1. notes'[n] \in [Kinds -> Note]
                BY <3>1, <3>2, <3>3 DEF Kinds
            <4>2. /\ notes'[n]["done"] = [notes[n]["done"] EXCEPT !.seen = TRUE]
                  /\ notes'[n]["check"] = notes[n]["check"]
                BY <3>1, <3>3 DEF Kinds
            <4>3. \A k \in Kinds : k = "done" \/ k = "check"
                BY DEF Kinds
            <4> QED BY <3>1, <4>1, <4>2, <4>3 DEF Note
        <3> QED BY <2>1, <3>1, <3>3
    <2>3. notes' \in Notices
        <3>1. notes' = [n \in Attempt |-> notes'[n]]
            BY <1>3 DEF CollectMarks
        <3> QED BY <2>2, <3>1 DEF Notices
    <2>4. Aside /\ Tame
        BY <1>1, <1>3, <2>2, <2>3 DEF CollectMarks, Aside, Tame, Inv, Base, Typed
    <2> QED BY <1>3, <2>4, TameStep DEF CollectMarks
<1> QED BY <1>2, <1>3

LEMMA RipenStep ==
    ASSUME Inv, NEW n \in Attempt, Ripen(n)
    PROVE  Inv'
<1>1. notes[n] \in [Kinds -> Note] /\ notes[n]["check"] \in Note
    BY DEF Inv, Base, Typed, Notices, Kinds
<1> DEFINE due == [notes[n]["check"] EXCEPT !.due = TRUE]
<1>2. /\ due \in Note /\ due.turn = notes[n]["check"].turn /\ due.open = notes[n]["check"].open
      /\ due.quiet = notes[n]["check"].quiet
    BY <1>1 DEF Note
<1>3. notes' = [notes EXCEPT ![n] = [notes[n] EXCEPT !["check"] = due]]
    BY DEF Ripen
<1> HIDE DEF due
<1>4. [notes[n] EXCEPT !["check"] = due] \in [Kinds -> Note]
    BY <1>1, <1>2 DEF Kinds
<1>5. notes' \in Notices
    BY <1>3, <1>4 DEF Inv, Base, Typed, Notices
<1>6. Tame
    <2>1. ASSUME NEW m \in Attempt, m # n PROVE notes'[m] = notes[m]
        BY <1>3, <2>1 DEF Inv, Base, Typed, Notices
    <2>2. notes'[n] = [notes[n] EXCEPT !["check"] = due]
        BY <1>3 DEF Inv, Base, Typed, Notices
    <2>3. notes'[n]["check"] = due /\ notes'[n]["done"] = notes[n]["done"]
        BY <1>1, <2>2 DEF Kinds
    <2>4. \A k \in Kinds : k = "done" \/ k = "check"
        BY DEF Kinds
    <2> QED BY <1>2, <2>1, <2>3, <2>4 DEF Tame
<1>7. Aside
    BY <1>5 DEF Ripen, Aside, Inv, Base, Typed
<1> QED BY <1>6, <1>7, TameStep DEF Ripen

LEMMA StopFailsStep ==
    ASSUME Inv, StopFails
    PROVE  Inv'
<1>1. NoStop \in Stops /\ NoStop.on = FALSE
    BY DEF NoStop, Stops
<1>2. Aside /\ Tame /\ ~Stopping'
    BY <1>1 DEF StopFails, Aside, Tame, Stopping, Inv, Base, Typed
<1> QED BY <1>2, TameStep DEF StopFails

LEMMA UserStartsStep ==
    ASSUME Inv, UserStarts
    PROVE  Inv'
<1>1. PICK t \in Turn : NextId(notes, t) /\ turns' = [turns EXCEPT ![t].status = "running"]
    BY DEF UserStarts
<1>2. turns[t].status = "absent" /\ t \notin Named(notes) /\ turns[t].told = {}
    BY <1>1 DEF NextId, Unused, Inv, Told
<1>3. turns[t] \in [status : {"absent"} \union Live \union Terminal, parent : 0..MaxTurns,
                    stopped : BOOLEAN, told : SUBSET (Attempt \X Kinds)]
    BY DEF Inv, Base, Typed, Turns
<1>4. /\ turns' \in Turns
      /\ \A s \in Turn : /\ turns'[s].told = turns[s].told
                         /\ turns'[s].status = (IF s = t THEN "running" ELSE turns[s].status)
    BY <1>1, <1>3 DEF Inv, Base, Typed, Turns, Live
<1>5. Aside
    BY <1>4 DEF UserStarts, Aside, Inv, Base, Typed
<1>6. Typed' /\ Settlement' /\ Len(board') = Len(board) /\ AtWork' = AtWork /\ Len(board) \in Nat
    BY <1>5, AsideStep, RowTypes DEF Inv, Base
<1>7. UNCHANGED <<board, notes, op, stop>>
    BY DEF UserStarts
<1>8. Heard
    BY <1>2, <1>4, <1>6, <1>7 DEF Heard
<1>9. Calm
    BY <1>2, <1>4, <1>6, <1>7 DEF Calm, Stopping, Inv, Halting, Running
<1> QED BY <1>6, <1>8, <1>9, HeardStep, CalmStep DEF Inv, Base

-----------------------------------------------------------------------------
(* Notices that are suppressed, claimed and tidied.                        *)

LEMMA SuppressedNotes ==
    ASSUME NEW ns \in Notices, NEW told
    PROVE  /\ Suppressed(ns, told) \in Notices
           /\ \A n \in Attempt, k \in Kinds :
                 /\ Suppressed(ns, told)[n][k].turn = ns[n][k].turn
                 /\ Suppressed(ns, told)[n][k].open = ns[n][k].open
                 /\ Suppressed(ns, told)[n][k].quiet = (ns[n][k].quiet \/ <<n, k>> \in told)
<1> DEFINE row(n, k) == IF <<n, k>> \in told THEN [ns[n][k] EXCEPT !.quiet = TRUE] ELSE ns[n][k]
<1>1. ASSUME NEW n \in Attempt, NEW k \in Kinds
      PROVE  /\ row(n, k) \in Note /\ row(n, k).turn = ns[n][k].turn /\ row(n, k).open = ns[n][k].open
             /\ row(n, k).quiet = (ns[n][k].quiet \/ <<n, k>> \in told)
    <2>1. ns[n][k] \in Note
        BY DEF Notices
    <2> QED BY <2>1 DEF Note
<1>2. Suppressed(ns, told) = [n \in Attempt |-> [k \in Kinds |-> row(n, k)]]
    BY DEF Suppressed
<1> HIDE DEF row
<1>3. Suppressed(ns, told) \in Notices
    BY <1>1, <1>2 DEF Notices
<1>4. \A n \in Attempt, k \in Kinds : Suppressed(ns, told)[n][k] = row(n, k)
    BY <1>2
<1> QED BY <1>1, <1>3, <1>4

LEMMA ClaimedNotes ==
    ASSUME NEW ns \in Notices, NEW told, NEW t \in 0..MaxTurns
    PROVE  /\ Claimed(ns, told, t) \in Notices
           /\ \A n \in Attempt, k \in Kinds :
                 /\ Claimed(ns, told, t)[n][k].turn = (IF <<n, k>> \in told THEN t ELSE ns[n][k].turn)
                 /\ Claimed(ns, told, t)[n][k].open = ns[n][k].open
                 /\ Claimed(ns, told, t)[n][k].quiet = ns[n][k].quiet
<1> DEFINE row(n, k) == IF <<n, k>> \in told THEN [ns[n][k] EXCEPT !.turn = t] ELSE ns[n][k]
<1>1. ASSUME NEW n \in Attempt, NEW k \in Kinds
      PROVE  /\ row(n, k) \in Note /\ row(n, k).turn = (IF <<n, k>> \in told THEN t ELSE ns[n][k].turn)
             /\ row(n, k).open = ns[n][k].open /\ row(n, k).quiet = ns[n][k].quiet
    <2>1. ns[n][k] \in Note
        BY DEF Notices
    <2> QED BY <2>1 DEF Note
<1>2. Claimed(ns, told, t) = [n \in Attempt |-> [k \in Kinds |-> row(n, k)]]
    BY DEF Claimed
<1> HIDE DEF row
<1>3. Claimed(ns, told, t) \in Notices
    BY <1>1, <1>2 DEF Notices
<1>4. \A n \in Attempt, k \in Kinds : Claimed(ns, told, t)[n][k] = row(n, k)
    BY <1>2
<1> QED BY <1>1, <1>3, <1>4

\* A pass first collects, and takes back claims of turns that were never admitted.
Tidies(d) ==
    /\ Ledger(d.board) /\ Len(d.board) = Len(board) /\ d.items \in Documents /\ d.notes \in Notices
    /\ d = [board |-> d.board, items |-> d.items, notes |-> d.notes]
    /\ \E c : Collects(c, board, work) /\ d.board = c.board
    /\ \A n \in 1..Len(board) :
          /\ \A k \in Kinds :
                /\ notes[n][k].open => d.notes[n][k].open
                /\ notes[n][k].quiet => d.notes[n][k].quiet
                /\ \/ d.notes[n][k].turn = notes[n][k].turn
                   \/ d.notes[n][k].turn = 0 /\ (notes[n][k].turn = 0 \/ turns[notes[n][k].turn].status = "absent")
          /\ d.notes[n]["check"].open => notes[n]["check"].open \/ ~notes[n]["done"].quiet

LEMMA TidiedNote ==
    ASSUME NEW c, NEW n, NEW k, c.notes[n][k] \in Note
    PROVE  LET old == c.notes[n][k]
               new == TidyNote(c, n, k)
           IN  /\ new \in Note /\ new.open = old.open /\ (old.quiet => new.quiet)
               /\ new.turn = old.turn \/ (new.turn = 0 /\ (old.turn = 0 \/ turns[old.turn].status = "absent"))
<1> DEFINE old == c.notes[n][k]
           freed == [old EXCEPT !.turn = NoTurn]
           muted == [freed EXCEPT !.quiet = TRUE]
<1>1. 0 \in 0..MaxTurns
    BY Positions
<1>2. freed \in Note /\ freed.open = old.open /\ freed.quiet = old.quiet /\ freed.turn = 0
    BY <1>1 DEF Note, NoTurn
<1>3. muted \in Note /\ muted.open = old.open /\ muted.quiet /\ muted.turn = 0
    BY <1>2 DEF Note
<1>4. \/ TidyNote(c, n, k) = old
      \/ /\ old.turn = 0 \/ turns[old.turn].status = "absent"
         /\ TidyNote(c, n, k) \in {freed, muted}
    BY DEF TidyNote, NoTurn
<1> HIDE DEF freed, muted
<1> QED BY <1>2, <1>3, <1>4

LEMMA PassCollects ==
    ASSUME Inv
    PROVE  Tidies(Tidied(Collected(board, work)))
<1> DEFINE c == Collected(board, work)
           d == Tidied(c)
<1>1. Collects(c, board, work)
    BY CollectRows DEF Inv, Base, Typed, Settlement
<1> HIDE DEF c
<1>2. /\ Len(board) \in Nat /\ 1..Len(board) \subseteq Attempt /\ DOMAIN c.board = 1..Len(board)
      /\ c = [board |-> c.board, items |-> c.items, notes |-> c.notes]
      /\ Ledger(c.board) /\ Len(c.board) = Len(board) /\ c.items \in Documents /\ c.notes \in Notices
    BY <1>1, RowTypes, LedgerRows DEF Inv, Base, Collects
<1> DEFINE tidy == [n \in Attempt |->
                IF n \in DOMAIN c.board THEN [k \in Kinds |-> TidyNote(c, n, k)] ELSE c.notes[n]]
<1>3. d.board = c.board /\ d.items = c.items /\ d.notes = tidy
      /\ d = [board |-> d.board, items |-> d.items, notes |-> d.notes]
    BY <1>2 DEF Tidied
<1>4. \A n \in Attempt, k \in Kinds : c.notes[n][k] \in Note
    BY <1>2 DEF Notices
<1>5. \A n \in 1..Len(board), k \in Kinds : TidyNote(c, n, k) \in Note
    BY <1>2, <1>4, TidiedNote
<1>6. tidy \in Notices
    BY <1>2, <1>4, <1>5 DEF Notices
<1>7. \A n \in 1..Len(board), k \in Kinds : tidy[n][k] = TidyNote(c, n, k)
    BY <1>2
<1> HIDE DEF tidy, d
<1>8. ASSUME NEW n \in 1..Len(board)
      PROVE  /\ \A k \in Kinds :
                    /\ notes[n][k].open => tidy[n][k].open
                    /\ notes[n][k].quiet => tidy[n][k].quiet
                    /\ \/ tidy[n][k].turn = notes[n][k].turn
                       \/ tidy[n][k].turn = 0 /\ (notes[n][k].turn = 0 \/ turns[notes[n][k].turn].status = "absent")
             /\ tidy[n]["check"].open => notes[n]["check"].open \/ ~notes[n]["done"].quiet
    <2>1. n \in Attempt /\ "check" \in Kinds
        BY <1>2 DEF Kinds
    <2>2. /\ \A k \in Kinds : /\ c.notes[n][k].turn = notes[n][k].turn
                              /\ c.notes[n][k].quiet = notes[n][k].quiet
                              /\ notes[n][k].open => c.notes[n][k].open
          /\ c.notes[n]["check"].open => notes[n]["check"].open \/ ~notes[n]["done"].quiet
        BY <1>1, <2>1, CollectedNotes DEF Inv, Base
    <2>3. \A k \in Kinds :
              /\ tidy[n][k].open = c.notes[n][k].open /\ (c.notes[n][k].quiet => tidy[n][k].quiet)
              /\ \/ tidy[n][k].turn = c.notes[n][k].turn
                 \/ tidy[n][k].turn = 0 /\ (c.notes[n][k].turn = 0 \/ turns[c.notes[n][k].turn].status = "absent")
        BY <1>4, <1>7, <2>1, TidiedNote
    <2> QED BY <2>1, <2>2, <2>3
<1>9. Tidies(d)
    BY <1>1, <1>2, <1>3, <1>6, <1>8 DEF Tidies
<1> QED BY <1>9 DEF d, c

LEMMA PassStep ==
    ASSUME Inv, Pass
    PROVE  Inv'
<1> DEFINE d == Tidied(Collected(board, work))
<1>1. Tidies(d)
    BY PassCollects
<1>2. /\ \/ PassTidies(d)
         \/ \E p \in Turn : turns[p].status = "succeeded" /\ (PassClaims(d, p) \/ PassGivesUp(d, p))
      /\ alive /\ op = Idle /\ UNCHANGED <<alive, made, work, turns, look, stop, stops, crashes>>
    BY DEF Pass, Free
<1> HIDE DEF d
<1>3. /\ Len(board) \in Nat /\ 1..Len(board) \subseteq Attempt /\ DOMAIN d.board = 1..Len(board)
      /\ \A t \in Turn : turns[t].told \subseteq Attempt \X Kinds
    BY <1>1, RowTypes, LedgerRows, TurnTypes DEF Inv, Base, Tidies
<1>4. \A t \in Turn : \A x \in turns[t].told :
          /\ x[1] \in 1..Len(board) /\ x[2] \in Kinds /\ turns[t].status # "absent"
          /\ notes[x[1]][x[2]].turn = t /\ d.notes[x[1]][x[2]].turn = t /\ t # 0
    <2> SUFFICES ASSUME NEW t \in Turn, NEW x \in turns[t].told
                 PROVE  /\ x[1] \in 1..Len(board) /\ x[2] \in Kinds /\ turns[t].status # "absent"
                        /\ notes[x[1]][x[2]].turn = t /\ d.notes[x[1]][x[2]].turn = t /\ t # 0
        OBVIOUS
    <2>1. /\ x[1] \in 1..Len(board) /\ x[2] \in Kinds /\ turns[t].status # "absent"
          /\ notes[x[1]][x[2]].turn = t /\ t # 0
        BY <1>3, Positions DEF Inv, Told
    <2> QED BY <1>1, <2>1 DEF Tidies
\* What every kind of pass has in common.
<1>5. ASSUME NEW ns, ns \in Notices, board' = d.board, items' = d.items, notes' = ns, op' \in Ops,
             op'.phase \in {"idle", "claimed"},
             \A n \in 1..Len(board) : d.notes[n]["done"].open => ns[n]["done"].open
      PROVE  Typed' /\ Settlement' /\ Opened' /\ Len(board') = Len(board) /\ AtWork' = AtWork
    <2>1. Tallied(board)
        BY <1>1, <1>2, <1>5, LiveIsKnown DEF Tidies, Tallied, Inv, Base, Typed, Settlement
    <2>2. Settlement' /\ Ledger(board') /\ Len(board') = Len(board)
        BY <2>1, TalliedStep DEF Inv
    <2>3. Typed'
        BY <1>1, <1>2, <1>5, <2>2 DEF Inv, Base, Typed, Tidies
    <2>4. Opened'
        BY <1>1, <1>5, <2>2 DEF Inv, Opened, Tidies, Kinds
    <2> QED BY <1>2, <2>2, <2>3, <2>4 DEF AtWork
<1>6. d = [board |-> d.board, items |-> d.items, notes |-> d.notes] /\ d.notes \in Notices /\ op \in Ops /\ op.phase = "idle"
    BY <1>1, <1>2 DEF Tidies, Inv, Base, Typed, Idle
<1>7. Stopping => \A p \in Turn : Ready(d, p) = {}
    <2> SUFFICES ASSUME Stopping, NEW p \in Turn, NEW x \in Ready(d, p) PROVE FALSE
        OBVIOUS
    <2>1. /\ x[1] \in 1..Len(board) /\ x[2] \in Kinds
          /\ d.notes[x[1]][x[2]].open /\ ~d.notes[x[1]][x[2]].quiet
        BY <1>3 DEF Ready
    <2>2. /\ notes[x[1]]["done"].quiet
          /\ notes[x[1]]["check"].open => notes[x[1]]["check"].quiet
        BY <2>1 DEF Inv, Halting
    <2>3. x[2] = "done" \/ x[2] = "check"
        BY <2>1 DEF Kinds
    <2> QED BY <1>1, <2>1, <2>2, <2>3 DEF Tidies
<1>8. CASE PassTidies(d)
    <2>1. board' = d.board /\ items' = d.items /\ notes' = d.notes /\ op' = op
        BY <1>8 DEF PassTidies, Save
    <2>2. Typed' /\ Settlement' /\ Opened' /\ Len(board') = Len(board) /\ AtWork' = AtWork
        BY <1>5, <1>6, <2>1
    <2>3. Told' /\ Claiming'
        BY <1>2, <1>4, <1>6, <2>1, <2>2 DEF Told, Claiming
    <2>4. Calm
        BY <1>1, <1>2, <2>1, <2>2 DEF Calm, Tidies, Stopping, Running, Kinds
    <2> QED BY <2>2, <2>3, <2>4, CalmStep DEF Inv, Base
<1>9. ASSUME NEW p \in Turn, PassClaims(d, p) PROVE Inv'
    <2>1. PICK told \in {Ready(d, p)}, t \in Turn :
              /\ told # {} /\ NextId(d.notes, t)
              /\ Save([d EXCEPT !.notes = Claimed(@, told, t)])
              /\ op' = [phase |-> "claimed", n |-> p, turn |-> t, told |-> told]
        BY <1>9 DEF PassClaims
    <2>2. board' = d.board /\ items' = d.items /\ notes' = Claimed(d.notes, told, t)
        BY <1>6, <2>1 DEF Save
    <2>3. t \in 0..MaxTurns /\ p \in Nat /\ turns[t].status = "absent"
        BY <2>1, Positions DEF Turn, NextId, Unused
    <2>4. told \subseteq Attempt \X Kinds
          /\ \A x \in told : x = <<x[1], x[2]>> /\ x[1] \in 1..Len(board) /\ x[2] \in Kinds /\ d.notes[x[1]][x[2]].turn = 0
        BY <1>3, <2>1 DEF Ready, NoTurn
    <2>5. /\ Claimed(d.notes, told, t) \in Notices
          /\ \A n \in Attempt, k \in Kinds :
                /\ notes'[n][k].turn = (IF <<n, k>> \in told THEN t ELSE d.notes[n][k].turn)
                /\ notes'[n][k].open = d.notes[n][k].open
                /\ notes'[n][k].quiet = d.notes[n][k].quiet
        BY <1>6, <2>2, <2>3, ClaimedNotes
    <2>6. op' \in Ops /\ op'.phase = "claimed" /\ op'.n = p /\ op'.turn = t /\ op'.told = told
        BY <2>1, <2>3, <2>4 DEF Ops
    <2>7. \A n \in 1..Len(board) : d.notes[n]["done"].open => notes'[n]["done"].open
        BY <1>3, <2>5 DEF Kinds
    <2>8. Typed' /\ Settlement' /\ Opened' /\ Len(board') = Len(board) /\ AtWork' = AtWork
        BY <1>5, <2>2, <2>5, <2>6, <2>7
    <2>9. Told'
        <3> SUFFICES ASSUME NEW s \in Turn, NEW x \in turns'[s].told
                     PROVE  /\ x[1] \in 1..Len(board') /\ notes'[x[1]][x[2]].turn = s
                            /\ turns'[s].status # "absent"
            BY DEF Told
        <3>1. /\ x[1] \in 1..Len(board) /\ x[2] \in Kinds /\ turns[s].status # "absent"
              /\ d.notes[x[1]][x[2]].turn = s /\ s # 0
            BY <1>2, <1>4
        <3>2. <<x[1], x[2]>> \notin told
            BY <2>4, <3>1
        <3> QED BY <1>2, <1>3, <2>5, <2>8, <3>1, <3>2
    <2>10. Claiming'
        <3>1. \A x \in told : x[1] \in 1..Len(board') /\ notes'[x[1]][x[2]].turn = t
            BY <1>3, <2>4, <2>5, <2>8
        <3> QED BY <1>2, <2>1, <2>3, <2>6, <3>1 DEF Claiming
    <2>11. ~Stopping /\ stop' = stop
        BY <1>2, <1>7, <2>1
    <2>12. Calm
        BY <2>11 DEF Calm, Stopping
    <2> QED BY <2>8, <2>9, <2>10, <2>12, CalmStep DEF Inv, Base
<1>10. ASSUME NEW p \in Turn, PassGivesUp(d, p) PROVE Inv'
    <2>1. PICK told \in {Ready(d, p)} : told # {} /\ Save([d EXCEPT !.notes = Suppressed(@, told)]) /\ op' = op
        BY <1>10 DEF PassGivesUp
    <2>2. board' = d.board /\ items' = d.items /\ notes' = Suppressed(d.notes, told)
        BY <1>6, <2>1 DEF Save
    <2>3. /\ notes' \in Notices
          /\ \A n \in Attempt, k \in Kinds :
                notes'[n][k].turn = d.notes[n][k].turn /\ notes'[n][k].open = d.notes[n][k].open
        <3>1. /\ Suppressed(d.notes, told) \in Notices
              /\ \A n \in Attempt, k \in Kinds :
                    /\ Suppressed(d.notes, told)[n][k].turn = d.notes[n][k].turn
                    /\ Suppressed(d.notes, told)[n][k].open = d.notes[n][k].open
                    /\ Suppressed(d.notes, told)[n][k].quiet = (d.notes[n][k].quiet \/ <<n, k>> \in told)
            BY <1>6, SuppressedNotes
        <3> QED BY <2>2, <3>1
    <2>4. \A n \in 1..Len(board) : d.notes[n]["done"].open => notes'[n]["done"].open
        BY <1>3, <2>3 DEF Kinds
    <2>5. Typed' /\ Settlement' /\ Opened' /\ Len(board') = Len(board) /\ AtWork' = AtWork
        BY <1>5, <1>6, <2>1, <2>2, <2>3, <2>4
    <2>6. Told' /\ Claiming'
        BY <1>2, <1>3, <1>4, <1>6, <2>1, <2>3, <2>5 DEF Told, Claiming
    <2>7. ~Stopping /\ stop' = stop
        BY <1>2, <1>7, <2>1
    <2>8. Calm
        BY <2>7 DEF Calm, Stopping
    <2> QED BY <2>5, <2>6, <2>8, CalmStep DEF Inv, Base
<1> QED BY <1>2, <1>8, <1>9, <1>10

-----------------------------------------------------------------------------
(* The beginning of a stop; the turn that a pass has claimed.              *)

LEMMA StopBeginsStep ==
    ASSUME Inv, StopBegins
    PROVE  Inv'
<1> DEFINE told == OpenOf(DOMAIN board)
<1>1. /\ alive /\ op = Idle /\ notes' = Suppressed(notes, told)
      /\ stop' = [on |-> TRUE, all |-> TRUE, who |-> {n \in DOMAIN board : board[n].known},
                  tell |-> {notes[n][k].turn : n \in DOMAIN board, k \in Kinds} \ {NoTurn}]
      /\ UNCHANGED <<alive, items, board, made, work, turns, op, look>>
    BY DEF StopBegins, Free
<1>2. /\ Len(board) \in Nat /\ 1..Len(board) \subseteq Attempt /\ DOMAIN board = 1..Len(board)
      /\ notes \in Notices /\ \A t \in Turn : turns[t].told \subseteq Attempt \X Kinds
    BY RowTypes, TurnTypes DEF Inv, Base, Typed
<1>3. \A n \in Attempt, k \in Kinds : notes[n][k].turn \in 0..MaxTurns
    BY <1>2 DEF Notices, Note
<1>4. stop' \in Stops
    <2>1. {notes[n][k].turn : n \in DOMAIN board, k \in Kinds} \ {NoTurn} \subseteq Turn
        BY <1>2, <1>3, Positions DEF NoTurn, Turn
    <2>2. {n \in DOMAIN board : board[n].known} \subseteq Attempt
        BY <1>2
    <2> QED BY <1>1, <2>1, <2>2 DEF Stops
<1> HIDE DEF told
<1>5. /\ Suppressed(notes, told) \in Notices
      /\ \A n \in Attempt, k \in Kinds :
            /\ Suppressed(notes, told)[n][k].turn = notes[n][k].turn
            /\ Suppressed(notes, told)[n][k].open = notes[n][k].open
            /\ Suppressed(notes, told)[n][k].quiet = (notes[n][k].quiet \/ <<n, k>> \in told)
    BY <1>2, SuppressedNotes
<1>6. Aside
    BY <1>1, <1>4, <1>5 DEF Aside, Inv, Base, Typed
<1>7. Typed' /\ Settlement' /\ Len(board') = Len(board) /\ AtWork' = AtWork
    BY <1>6, AsideStep
<1>8. Heard
    <2>1. \A n \in 1..Len(board), k \in Kinds :
             notes'[n][k].turn = notes[n][k].turn /\ notes'[n][k].open = notes[n][k].open
        BY <1>1, <1>2, <1>5
    <2>2. turns' = turns /\ op' = op /\ Len(board) <= Len(board')
        BY <1>1, <1>2, <1>7
    <2> QED BY <1>7, <2>1, <2>2 DEF Heard
<1>9. Halting'
    <2>1. AtWork' \subseteq stop'.who
        <3>1. \A n \in AtWork : n \in 1..Len(board) /\ board[n].known
            BY <1>1, LiveIsKnown DEF Inv, Base, Settlement, Parallel, Idle
        <3> QED BY <1>1, <1>2, <1>7, <3>1
    <2>2. ASSUME NEW n \in 1..Len(board)
          PROVE  notes'[n]["done"].quiet /\ (notes'[n]["check"].open => notes'[n]["check"].quiet)
        <3>1. n \in Attempt /\ "done" \in Kinds /\ "check" \in Kinds
            BY <1>2 DEF Kinds
        <3>2. \A k \in Kinds : notes[n][k].open => <<n, k>> \in told
            BY <1>2 DEF told, OpenOf
        <3>3. notes[n]["done"].open
            BY DEF Inv, Opened
        <3> QED BY <1>1, <1>5, <3>1, <3>2, <3>3
    <2>3. ASSUME NEW t \in Turn, turns'[t].told # {} PROVE t \in stop'.tell
        <3>1. PICK x : x \in turns[t].told
            BY <1>1, <2>3
        <3>2. x[1] \in DOMAIN board /\ x[2] \in Kinds /\ notes[x[1]][x[2]].turn = t
            BY <1>2, <3>1 DEF Inv, Told
        <3> QED BY <1>1, <3>2, Positions DEF NoTurn
    <2> QED BY <1>1, <1>7, <2>1, <2>2, <2>3 DEF Halting
<1> QED BY <1>7, <1>8, <1>9, HeardStep DEF Inv, Base

LEMMA InstanceStopStep ==
    ASSUME Inv, NEW m \in Attempt, InstanceStopBegins(m)
    PROVE  Inv'
<1> DEFINE told == Silenced(m)
<1>1. /\ notes' = Suppressed(notes, told)
      /\ stop' = [NoStop EXCEPT !.on = TRUE, !.who = {m} \ {n \in Attempt : work[n] = "absent"}]
      /\ UNCHANGED <<alive, items, board, made, work, turns, op, look>>
    BY DEF InstanceStopBegins
<1>2. stop' \in Stops /\ ~Stopping'
    <2>1. stop' = [on |-> TRUE, all |-> FALSE, who |-> {m} \ {n \in Attempt : work[n] = "absent"}, tell |-> {}]
        BY <1>1 DEF NoStop
    <2> QED BY <2>1 DEF Stops, Stopping
<1> HIDE DEF told
<1>3. /\ Suppressed(notes, told) \in Notices
      /\ \A n \in Attempt, k \in Kinds :
            /\ Suppressed(notes, told)[n][k].turn = notes[n][k].turn
            /\ Suppressed(notes, told)[n][k].open = notes[n][k].open
            /\ Suppressed(notes, told)[n][k].quiet = (notes[n][k].quiet \/ <<n, k>> \in told)
    BY SuppressedNotes DEF Inv, Base, Typed
<1>4. Aside /\ Tame
    BY <1>1, <1>2, <1>3 DEF Aside, Tame, Inv, Base, Typed
<1> QED BY <1>1, <1>2, <1>4, TameStep

LEMMA ContinuationStartsStep ==
    ASSUME Inv, ContinuationStarts
    PROVE  Inv'
<1>1. /\ op.phase = "claimed" /\ op # Idle /\ ~Dispatching
      /\ turns' = [turns EXCEPT ![op.turn] =
            [status |-> "running", parent |-> op.n, stopped |-> FALSE, told |-> op.told]]
      /\ op' = Idle /\ UNCHANGED <<alive, items, board, notes, made, work, look, stop>>
    BY DEF ContinuationStarts, Idle, Dispatching
<1>2. /\ op.n \in Turn /\ op.turn \in Turn /\ turns[op.turn].status = "absent"
      /\ \A x \in op.told : x[1] \in 1..Len(board) /\ notes[x[1]][x[2]].turn = op.turn
      /\ op.told \subseteq Attempt \X Kinds
    BY <1>1 DEF Inv, Claiming, Base, Typed, Ops
<1> DEFINE row == [status |-> "running", parent |-> op.n, stopped |-> FALSE, told |-> op.told]
<1>3. row \in [status : {"absent"} \union Live \union Terminal, parent : 0..MaxTurns,
               stopped : BOOLEAN, told : SUBSET (Attempt \X Kinds)]
    BY <1>2 DEF Live, Turn
<1>4. turns' \in Turns /\ turns'[op.turn] = row /\ \A t \in Turn : t # op.turn => turns'[t] = turns[t]
    BY <1>1, <1>2, <1>3 DEF Inv, Base, Typed, Turns
<1>5. Aside
    BY <1>1, <1>4 DEF Aside, Inv, Base, Typed
<1>6. Typed' /\ Settlement' /\ Len(board') = Len(board)
    BY <1>5, AsideStep
<1>7. Told'
    <2> SUFFICES ASSUME NEW t \in Turn, NEW x \in turns'[t].told
                 PROVE  /\ x[1] \in 1..Len(board) /\ notes[x[1]][x[2]].turn = t
                        /\ turns'[t].status # "absent"
        BY <1>1 DEF Told
    <2>1. CASE t = op.turn
        BY <1>2, <1>4, <2>1
    <2>2. CASE t # op.turn
        BY <1>4, <2>2 DEF Inv, Told
    <2> QED BY <2>1, <2>2
<1>8. Claiming' /\ Opened'
    BY <1>1, <1>6 DEF Claiming, Opened, Idle, Inv
<1>9. Calm
    BY <1>1, HolderIsAlone DEF Calm, Stopping
<1> QED BY <1>6, <1>7, <1>8, <1>9, CalmStep DEF Inv, Base

LEMMA ContinuationRefusedStep ==
    ASSUME Inv, ContinuationRefused
    PROVE  Inv'
<1>1. /\ op.phase = "claimed" /\ op # Idle /\ ~Dispatching
      /\ notes' = Claimed(notes, op.told, NoTurn)
      /\ op' = Idle /\ UNCHANGED <<alive, items, board, made, work, turns, look, stop>>
    BY DEF ContinuationRefused, Idle, Dispatching
<1>2. /\ turns[op.turn].status = "absent" /\ NoTurn \in 0..MaxTurns
      /\ \A x \in op.told : notes[x[1]][x[2]].turn = op.turn
    BY <1>1, Positions DEF Inv, Claiming, NoTurn
<1>3. /\ Claimed(notes, op.told, NoTurn) \in Notices
      /\ \A n \in Attempt, k \in Kinds :
            /\ Claimed(notes, op.told, NoTurn)[n][k].turn = (IF <<n, k>> \in op.told THEN NoTurn ELSE notes[n][k].turn)
            /\ Claimed(notes, op.told, NoTurn)[n][k].open = notes[n][k].open
            /\ Claimed(notes, op.told, NoTurn)[n][k].quiet = notes[n][k].quiet
    BY <1>2, ClaimedNotes DEF Inv, Base, Typed
<1>4. Aside
    BY <1>1, <1>3 DEF Aside, Inv, Base, Typed
<1>5. Typed' /\ Settlement' /\ Len(board') = Len(board)
    BY <1>4, AsideStep
<1>6. 1..Len(board) \subseteq Attempt /\ \A t \in Turn : turns[t].told \subseteq Attempt \X Kinds
    BY RowTypes, TurnTypes DEF Inv, Base
<1>7. Told'
    <2> SUFFICES ASSUME NEW t \in Turn, NEW x \in turns[t].told
                 PROVE  /\ x[1] \in 1..Len(board) /\ notes'[x[1]][x[2]].turn = t
                        /\ turns[t].status # "absent"
        BY <1>1 DEF Told
    <2>1. /\ x[1] \in 1..Len(board) /\ x[2] \in Kinds /\ notes[x[1]][x[2]].turn = t /\ turns[t].status # "absent"
        BY <1>6 DEF Inv, Told
    <2>2. <<x[1], x[2]>> \notin op.told
        BY <1>2, <2>1
    <2> QED BY <1>1, <1>3, <1>6, <2>1, <2>2
<1>8. Claiming' /\ Opened'
    BY <1>1, <1>3, <1>5, <1>6 DEF Claiming, Opened, Idle, Inv, Kinds
<1>9. Calm
    BY <1>1, HolderIsAlone DEF Calm, Stopping
<1> QED BY <1>5, <1>7, <1>8, <1>9, CalmStep DEF Inv, Base

-----------------------------------------------------------------------------
(* Crash and restart.                                                      *)

LEMMA CrashStep ==
    ASSUME Inv, Crash
    PROVE  Inv'
<1>1. /\ alive' = FALSE /\ op' = Idle /\ look' = NoLook /\ stop' = NoStop
      /\ UNCHANGED <<board, notes, made, work, turns>>
    BY DEF Crash
<1>2. items' \in Documents
    BY CollectedItems DEF Crash, Inv, Base
<1>3. /\ Idle \in Ops /\ NoStop \in Stops /\ NoLook \in [turn : 0..MaxTurns, set : SUBSET Attempt]
      /\ Idle.phase = "idle" /\ NoStop.on = FALSE
    BY Positions DEF Idle, Ops, NoTurn, NoStop, Stops, NoLook
<1>4. Typed'
    BY <1>1, <1>2, <1>3 DEF Inv, Base, Typed
<1>5. ~Dispatching' /\ AtWork' = AtWork /\ ~Stopping'
    BY <1>1, <1>3 DEF Dispatching, AtWork, Stopping
<1>6. Settlement'
    BY <1>1, <1>5 DEF Inv, Base, Settlement, Rows, Row, Dispatched, Ordered, Dispatcher, Parallel
<1>7. Heard
    BY <1>1, <1>3, RowTypes DEF Heard, Inv, Base
<1>8. Calm
    BY <1>5 DEF Calm
<1> QED BY <1>4, <1>6, <1>7, <1>8, HeardStep, CalmStep DEF Inv, Base

LEMMA RestartStep ==
    ASSUME Inv, Restart
    PROVE  Inv'
<1>1. PICK w : w = [n \in Attempt |-> IF work[n] \in Live THEN "interrupted" ELSE work[n]]
    OBVIOUS
<1>2. /\ work' = w /\ Save(Collected(board, w)) /\ alive' = TRUE
      /\ turns' = [t \in Turn |-> IF Running(t) THEN [turns[t] EXCEPT !.status = "interrupted"] ELSE turns[t]]
      /\ UNCHANGED <<made, op, look, stop>> /\ op = Idle
    BY <1>1 DEF Restart, Inv, Base, Settlement, Parallel
<1>3. w \in [Attempt -> Worked] /\ \A n \in Attempt : w[n] \notin Live /\ (w[n] = "absent" <=> work[n] = "absent")
                                                      /\ (work[n] \notin Live => w[n] = work[n])
    BY <1>1 DEF Inv, Base, Typed, Worked, Live, Terminal
<1>4. Rows(board, w)
    <2> SUFFICES ASSUME NEW n \in 1..Len(board) PROVE Row(board[n], w[n])
        BY DEF Rows
    <2>1. n \in Attempt /\ Row(board[n], work[n])
        BY RowTypes DEF Inv, Base, Settlement, Rows
    <2> QED BY <1>3, <2>1 DEF Row
<1>5. PICK c : Collects(c, board, w) /\ board' = c.board /\ items' = c.items /\ notes' = c.notes
    BY <1>2, <1>3, <1>4, SavesCollected DEF Inv, Base, Typed
<1>6. Rows(c.board, w) /\ Ordered(c.board)
    BY <1>3, <1>4, <1>5, CollectKeeps DEF Inv, Base, Typed, Settlement, Dispatched
<1>7. turns' \in Turns /\ \A t \in Turn : /\ turns'[t].told = turns[t].told /\ turns'[t].status # "running"
                                          /\ turns'[t].status = "absent" <=> turns[t].status = "absent"
    <2> DEFINE row(t) == IF Running(t) THEN [turns[t] EXCEPT !.status = "interrupted"] ELSE turns[t]
               TurnRow == [status : {"absent"} \union Live \union Terminal, parent : 0..MaxTurns,
                           stopped : BOOLEAN, told : SUBSET (Attempt \X Kinds)]
    <2>1. ASSUME NEW t \in Turn
          PROVE  /\ row(t) \in TurnRow /\ row(t).told = turns[t].told /\ row(t).status # "running"
                 /\ row(t).status = "absent" <=> turns[t].status = "absent"
        <3>1. turns[t] \in TurnRow
            BY DEF Inv, Base, Typed, Turns
        <3>2. [turns[t] EXCEPT !.status = "interrupted"] \in TurnRow
            BY <3>1 DEF Terminal
        <3> QED BY <3>1, <3>2 DEF Running
    <2>2. turns' = [t \in Turn |-> row(t)]
        BY <1>2
    <2> HIDE DEF row
    <2> QED BY <2>1, <2>2 DEF Turns
<1>8. /\ Ledger(c.board) /\ Len(c.board) = Len(board) /\ c.items \in Documents /\ c.notes \in Notices
      /\ Len(board) \in Nat /\ 1..Len(board) \subseteq Attempt
    BY <1>5, RowTypes DEF Collects, Inv, Base
<1>9. Typed'
    BY <1>2, <1>3, <1>5, <1>7, <1>8 DEF Inv, Base, Typed
<1>10. AtWork' = {} /\ ~Dispatching'
    BY <1>2, <1>3 DEF AtWork, Dispatching, Idle
<1>11. Parallel'
    BY <1>2, <1>10, FS_EmptySet, Positions DEF Parallel
<1>12. Settlement'
    BY <1>2, <1>3, <1>5, <1>6, <1>8, <1>10, <1>11 DEF Inv, Base, Settlement, Dispatched, Dispatcher
<1>13. Heard
    BY <1>2, <1>5, <1>7, <1>8, CollectedNotes DEF Inv, Base, Heard
<1>14. Calm
    BY <1>2, <1>5, <1>7, <1>8, <1>10, CollectedNotes DEF Inv, Base, Calm, Stopping, Kinds, Running
<1> QED BY <1>9, <1>12, <1>13, <1>14, HeardStep, CalmStep DEF Inv, Base

-----------------------------------------------------------------------------
(* The theorems.                                                           *)

LEMMA InvInit == Init => Inv
<1> SUFFICES ASSUME Init PROVE Inv
    OBVIOUS
<1>1. Silent \in Note /\ Idle \in Ops /\ NoStop \in Stops /\ NoLook \in [turn : 0..MaxTurns, set : SUBSET Attempt]
      /\ NoTurnRow.told = {} /\ NoTurnRow.status = "absent" /\ Idle.phase = "idle" /\ NoStop.on = FALSE
    BY Positions DEF Silent, Note, NoTurn, Idle, Ops, NoStop, Stops, NoLook, NoTurnRow
<1>2. turns \in Turns
    BY Positions DEF Init, Turns, NoTurnRow, NoTurn
<1>3. board \in Seq(Entry) /\ Len(board) = 0 /\ 1..Len(board) = {}
    BY DEF Init
<1>4. Typed
    BY <1>1, <1>2, <1>3, Positions DEF Init, Typed, Documents, Ledger, Notices, Worked
<1>5. AtWork = {} /\ ~Dispatching /\ ~Stopping
    BY <1>1 DEF Init, AtWork, Dispatching, Stopping, Live
<1>6. Settlement
    BY <1>3, <1>5, FS_EmptySet, Positions DEF Init, Settlement, Rows, Dispatched, Ordered, Dispatcher, Parallel
<1>7. Told /\ Claiming /\ Opened /\ Halting
    BY <1>1, <1>3, <1>5 DEF Init, Told, Claiming, Opened, Halting
<1> QED BY <1>4, <1>6, <1>7 DEF Inv, Base

LEMMA InvStep == Inv /\ [Next]_vars => Inv'
<1> SUFFICES ASSUME Inv, [Next]_vars PROVE Inv'
    OBVIOUS
<1>1. CASE UNCHANGED vars
    <2>1. Aside /\ Tame
        BY <1>1 DEF vars, Aside, Tame, Inv, Base, Typed
    <2> QED BY <1>1, <2>1, TameStep DEF vars
<1>2. ASSUME NEW q \in Request, NEW t \in Turn, DelegateReserves(q, t) PROVE Inv'
    BY <1>2, DelegateStep
<1>3. CASE Holder
    BY <1>3, DispatchStep, SavedStep, AbortsStep, ContinuationStartsStep, ContinuationRefusedStep DEF Holder
<1>4. CASE StopGoesOn
    BY <1>4, PollStep, StopFailsStep, StopCancelsStep, StopCancelsTurnStep DEF StopGoesOn
<1>5. CASE Progress
    BY <1>3, <1>4, <1>5, WorkerEndsStep, RipenStep, TurnEndsStep, RestartStep, MarksSeenStep, PassStep DEF Progress
<1>6. CASE Poll \/ UserStarts \/ StopBegins \/ Crash
    BY <1>6, PollStep, UserStartsStep, StopBeginsStep, CrashStep
<1>7. ASSUME NEW n \in Attempt, WorkerReports(n) \/ InstanceStopBegins(n) PROVE Inv'
    BY <1>7, ReportsStep, InstanceStopStep
<1>8. ASSUME NEW i \in Item, Edit(i) PROVE Inv'
    BY <1>8, EditStep
<1>9. ASSUME NEW t \in Turn, CollectReads(t) \/ UserCancels(t) PROVE Inv'
    BY <1>9, ReadsStep, UserCancelsStep
<1> QED BY <1>1, <1>2, <1>5, <1>6, <1>7, <1>8, <1>9 DEF Next

LEMMA Invariance == Spec => []Inv
BY InvInit, InvStep, PTL DEF Spec

\* node_delegation.py:85-177: the ledger is well formed; a request, however often it
\* is repeated and wherever the process dies, has one worker, and so has a task; and
\* no more than max_parallel work at a time.
THEOREM LedgerCorrect == Spec => []RowsSound
<1>1. Inv => RowsSound
    <2> SUFFICES ASSUME Inv PROVE RowsSound
        OBVIOUS
    <2>1. TypeOK
        BY RowTypes DEF Inv, Base, Typed, TypeOK, Documents, Notices, Turns, Stops, Ops, Worked, Entry
    <2>2. /\ Len(board) \in Nat /\ DOMAIN board = 1..Len(board) /\ 1..Len(board) \subseteq Attempt
          /\ work \in [Attempt -> Worked]
        BY RowTypes DEF Inv, Base, Typed
    <2>3. OneRunPerRequest
        BY <2>2 DEF Inv, Base, Settlement, Ordered, OneRunPerRequest
    <2>4. ASSUME NEW m \in 1..Len(board), board[m].applied PROVE work[m] \notin Live
        <3>1. Row(board[m], work[m])
            BY DEF Inv, Base, Settlement, Rows
        <3> QED BY <2>4, <3>1 DEF Row, Live
    <2>5. ASSUME NEW m \in 1..Len(board), NEW n \in 1..Len(board), m # n, board[m].item = board[n].item
          PROVE  ~({work[m], work[n]} \subseteq Live)
        <3>1. m < n \/ n < m
            BY <2>5
        <3> QED BY <2>4, <2>5, <3>1 DEF Inv, Base, Settlement, Ordered
    <2>6. OneWorkerPerTask
        BY <2>2, <2>5 DEF OneWorkerPerTask, Inv, Base, Settlement, Parallel, AtWork
    <2> QED BY <2>1, <2>3, <2>6 DEF RowsSound
<1> QED BY <1>1, Invariance, PTL

\* collect_delegations, and a restart between any two saves: what the ledger settled
\* is what became of the worker's Run.
THEOREM SettlesTruthfully == Spec => []SettledTruthfully
<1>1. Inv => SettledTruthfully
    BY RowTypes DEF Inv, Base, Settlement, Rows, Row, SettledTruthfully
<1> QED BY <1>1, Invariance, PTL

\* node_continuations.py: a notice wakes the coordinator in one turn at most.
THEOREM TellsOnce == Spec => []ToldOnce
<1>1. Inv => ToldOnce
    <2> SUFFICES ASSUME Inv, NEW s \in Turn, NEW t \in Turn, NEW x \in turns[s].told \intersect turns[t].told
                 PROVE  s = t
        BY DEF ToldOnce
    <2> QED BY DEF Inv, Told
<1> QED BY <1>1, Invariance, PTL

\* stop_delegations: when a stop of the board returns, nothing of it runs.
THEOREM StopsTruly == Spec => StopMeansStopped
<1>1. Inv /\ [Next]_vars => [StopEnds /\ stop.all =>
            /\ \A n \in Attempt : work'[n] \notin Live
            /\ \A t \in Turn : turns'[t].told # {} => turns'[t].status # "running"]_vars
    <2> SUFFICES ASSUME Inv, StopEnds, stop.all
                 PROVE  /\ \A n \in Attempt : work'[n] \notin Live
                        /\ \A t \in Turn : turns'[t].told # {} => turns'[t].status # "running"
        OBVIOUS
    <2>1. Stopping /\ stop.who = {} /\ stop.tell = {} /\ UNCHANGED <<work, turns>>
        BY DEF StopEnds, Stopping
    <2> QED BY <2>1 DEF Inv, Halting, AtWork, Running
<1> QED BY <1>1, Invariance, PTL DEF Spec, StopMeansStopped
=============================================================================
