----------------------------- MODULE ClientSync -----------------------------
(***************************************************************************)
(* How a browser keeps up with the world: the EventHub's bounded queues    *)
(* (events/hub.py), the WebSocket that drains one (api/websocket.py), and  *)
(* the store that applies events, notices gaps and reads snapshots         *)
(* (graphEvents.ts, worldStore.ts, RuntimeConnection.tsx).                 *)
(*                                                                         *)
(* One client is modelled, whose chunks cover the whole world, beside      *)
(* every other source of changes.  An epoch is only compared with the one  *)
(* a request began with, so each request carries "moved" instead.          *)
(***************************************************************************)
EXTENDS Naturals, Sequences, SequencesExt, FiniteSets

CONSTANTS
    Card, Edge,
    End,        \* edge -> the card it is attached to
    QueueSize,  \* queue_size of the hub
    WireSize,   \* messages the socket holds before a send blocks
    MaxMade, MaxRev, \* bounds on incarnations and revisions of an object
    MaxEvents,  \* bound on the events the hub publishes, over all streams
    MaxBreaks,  \* bound on lost connections and server restarts
    MaxFails,   \* bound on lost or failed requests of the client
    MaxOwn,     \* bound on the client's own edits
    Env         \* "chatter", "edit", "create", "delete", "restart"; "overtake": a
                \* refresh may be read while an earlier reply is on its way

ASSUME SyncConstants ==
    /\ QueueSize \in Nat \ {0} /\ WireSize \in Nat \ {0}
    /\ {MaxMade, MaxRev, MaxEvents, MaxBreaks, MaxFails, MaxOwn} \subseteq Nat
    /\ End \in [Edge -> Card]
    /\ Env \subseteq {"chatter", "overtake", "edit", "create", "delete", "restart"}

Entity == Card \union Edge

Absent == [made |-> 0, rev |-> 0]
Version == [made : 1..MaxMade, rev : 1..MaxRev]

VARIABLES
    world,   \* entity -> its version in the database, or Absent
    peak,    \* entity -> incarnation -> last revision committed (history)
    hub,     \* the hub: stream_id, sequence
    total,   \* events published so far, over all streams
    queue,   \* the client's subscriber queue
    wire,    \* what the socket has sent and the client has not ingested
    conn,    \* "closed", "open", or "dead": lost, and the client does not know
    sent,    \* last_sent_sequence of the connection
    seen,    \* the client's eventStream (0: undefined) and eventSequence
    shown,   \* entity -> the version on the canvas
    draft,   \* cards shown with an edit the server has not confirmed
    tomb,    \* cardTombstones and edgeTombstones
    load,    \* initialize(): its request
    refresh, \* the newest refreshWorld(): its request
    own,     \* the client's own mutation, one at a time
    owed,    \* a refresh ended without landing, and none has landed since (history)
    breaks, fails, owns \* counters of the bounds

vars == <<world, peak, hub, total, queue, wire, conn, sent, seen, shown, draft, tomb,
          load, refresh, own, owed, breaks, fails, owns>>
server == <<world, peak, hub, total, queue>>
client == <<seen, shown, draft, tomb, load, refresh, own, owed>>
counters == <<breaks, fails, owns>>

Empty == [e \in Entity |-> Absent]
NoRequest == [phase |-> "none", attempt |-> 0, moved |-> FALSE, snap |-> Empty]
Asked(n) == [NoRequest EXCEPT !.phase = "asked", !.attempt = n]
NoOwn == [phase |-> "none", kind |-> "edit", e |-> CHOOSE e \in Card : TRUE,
          before |-> Absent, result |-> Absent]

Init ==
    /\ \E v \in {Absent, [made |-> 1, rev |-> 1]} : world = [e \in Entity |-> v]
    /\ peak = [e \in Entity |-> [m \in 1..MaxMade |-> IF world[e].made = m THEN 1 ELSE 0]]
    /\ hub = [stream |-> 1, seq |-> 0]
    /\ total = 0
    /\ queue = <<>> /\ wire = <<>>
    /\ conn = "closed"
    /\ sent = 0
    /\ seen = [stream |-> 0, seq |-> 0]
    /\ shown = Empty
    /\ draft = {}
    /\ tomb = Empty
    /\ load = Asked(1)
    /\ refresh = NoRequest
    /\ own = NoOwn
    /\ owed = FALSE
    /\ breaks = 0 /\ fails = 0 /\ owns = 0

-----------------------------------------------------------------------------
(* The server.                                                             *)

\* mutant: the queue has no limit
KeepsAll(q, m) == Append(q, m)

\* publish_event_nowait: a full queue drops its oldest event for the new one.
Offer(q, m) == Append(IF Len(q) = QueueSize THEN Tail(q) ELSE q, m)

\* A transaction commits, and its buffered events are published in order.
Publish(events) ==
    LET number(i) == [events[i] EXCEPT !.seq = hub.seq + i, !.stream = hub.stream]
        numbered == [i \in DOMAIN events |-> number(i)]
    IN  /\ total + Len(events) <= MaxEvents
        /\ total' = total + Len(events)
        /\ hub' = [hub EXCEPT !.seq = @ + Len(events)]
        /\ queue' = IF conn = "open" THEN FoldLeft(Offer, queue, numbered) ELSE queue

Event(kind, e, v) == [kind |-> kind, e |-> e, v |-> v, stream |-> 0, seq |-> 0]
Mark(kind) == Event(kind, CHOOSE e \in Card : TRUE, Absent)

Put(e, v) ==
    /\ world' = [world EXCEPT ![e] = v]
    /\ peak' = [peak EXCEPT ![e][v.made] = v.rev]
    /\ Publish(<<Event("set", e, v)>>)

\* The incarnation the next creation of e gets: a later created_at.
NextMade(e) == 1 + Cardinality({m \in 1..MaxMade : peak[e][m] > 0})

Creates(e) ==
    /\ world[e] = Absent /\ NextMade(e) <= MaxMade
    /\ e \in Edge => world[End[e]] # Absent
    /\ Put(e, [made |-> NextMade(e), rev |-> 1])

Updates(e) ==
    /\ world[e] # Absent /\ world[e].rev < MaxRev
    /\ Put(e, [world[e] EXCEPT !.rev = @ + 1])

Attached(c) == {e \in Edge : End[e] = c /\ world[e] # Absent}

\* A card takes its edges with it; their events come first.
Deletes(e) ==
    /\ world[e] # Absent
    /\ LET lost == IF e \in Card THEN SetToSeq(Attached(e)) \o <<e>> ELSE <<e>>
       IN  /\ world' = [x \in Entity |-> IF Contains(lost, x) THEN Absent ELSE world[x]]
           /\ Publish([i \in DOMAIN lost |-> Event("del", lost[i], world[lost[i]])])
    /\ UNCHANGED peak

\* Anyone else changes the world.  A deleted card is restored by who deleted
\* it, so not while this client still waits for the reply to its own deletion.
Change ==
    /\ \E e \in Entity :
        \/ Creates(e) /\ ~(own.phase # "none" /\ own.kind \in {"create", "delete"} /\ own.e = e)
        \/ Updates(e)
        \/ Deletes(e)
    /\ UNCHANGED <<wire, conn, sent, client, counters>>

\* An event of a run, a sandbox or a conversation: no change of the graph.
Chatter ==
    /\ "chatter" \in Env
    /\ Publish(<<Mark("other")>>)
    /\ UNCHANGED <<world, peak, wire, conn, sent, client, counters>>

\* event_websocket: the subscription and the ready message that names where the
\* stream stood when it was made.
Subscribed ==
    /\ queue' = <<>>
    /\ wire' = <<[Mark("ready") EXCEPT !.stream = hub.stream, !.seq = hub.seq]>>
    /\ sent' = hub.seq

\* event_websocket: the next queued event goes out, unless the socket is full.
Send ==
    /\ conn = "open" /\ queue # <<>> /\ Len(wire) < WireSize
    /\ wire' = Append(wire, Head(queue))
    /\ queue' = Tail(queue)
    /\ sent' = Head(queue).seq
    /\ UNCHANGED <<world, peak, hub, total, conn, client, counters>>

\* event_websocket: a ping is answered with the last sequence that was sent.
PongSequence == sent

\* Only a pong that overtakes queued events is of interest: any other repeats
\* what the client has seen, and is dropped.
Pong ==
    /\ conn = "open" /\ wire = <<>> /\ queue # <<>>
    /\ wire' = <<[Mark("ready") EXCEPT !.stream = hub.stream, !.seq = PongSequence]>>
    /\ UNCHANGED <<server, conn, sent, client, counters>>

\* GET /api/world.
AnswerLoad ==
    /\ load.phase = "asked"
    /\ load' = [load EXCEPT !.phase = "answered", !.snap = world]
    /\ UNCHANGED <<server, wire, conn, sent, seen, shown, draft, tomb, refresh, own, owed, counters>>

\* A refresh is read after the replies that came before it have arrived: the
\* first load's, and the one that adds a card of the client's own.
InOrder ==
    \/ "overtake" \in Env
    \/ load.phase = "none" /\ ~(own.phase = "done" /\ own.kind = "create")

AnswerRefresh ==
    /\ refresh.phase = "asked"
    /\ InOrder
    /\ refresh' = [refresh EXCEPT !.phase = "answered", !.snap = world]
    /\ UNCHANGED <<server, wire, conn, sent, seen, shown, draft, tomb, load, own, owed, counters>>

-----------------------------------------------------------------------------
(* The client.                                                             *)

\* isOlder, of versions that both carry created_at and revision.
IsOlder(v, w) == IF v.made # w.made THEN v.made < w.made ELSE v.rev < w.rev

\* wasDeleted: a later incarnation with the same id is a new object.
WasDeleted(v, t) == t # Absent /\ v.made <= t.made

\* mutant: an event does not move the epoch
Unmoved(request) == request

\* markWorldMutation, seen from the requests that compare the epoch.
Moved(request) == [request EXCEPT !.moved = (request.phase # "none")]

\* The part of the store that events change; gap and graph are of one burst.
View == [seen |-> seen, shown |-> shown, draft |-> draft, tomb |-> tomb,
         gap |-> FALSE, graph |-> FALSE]

\* sequenceEvents: an event already seen in this stream is dropped.
Repeated(c, m) == m.stream = c.seen.stream /\ m.seq <= c.seen.seq

\* mutant: only another stream is a gap
OnlyNewStream(c, m) == c.seen.stream # 0 /\ m.stream # c.seen.stream

LeavesGap(c, m) ==
    /\ c.seen.stream # 0
    /\ \/ m.stream # c.seen.stream
       \/ m.seq > c.seen.seq + (IF m.kind = "ready" THEN 0 ELSE 1)

\* applyGraphEvents: a card or an edge at a newer version.
ApplySet(c, m) ==
    IF WasDeleted(m.v, c.tomb[m.e]) \/ (c.shown[m.e] # Absent /\ IsOlder(m.v, c.shown[m.e]))
    THEN c
    ELSE [c EXCEPT !.shown[m.e] = m.v, !.draft = @ \ {m.e}]

\* applyGraphEvents: a deletion, with the edges the canvas shows at the card.
ApplyDelete(c, m) ==
    IF c.shown[m.e] # Absent /\ IsOlder(m.v, c.shown[m.e])
    THEN c
    ELSE LET cut == {e \in Edge : m.e \in Card /\ End[e] = m.e /\ c.shown[e] # Absent}
         IN  [c EXCEPT !.shown = [e \in Entity |-> IF e \in cut \union {m.e}
                                                   THEN Absent ELSE c.shown[e]],
                       !.draft = @ \ {m.e},
                       !.tomb = [e \in Entity |-> IF e = m.e THEN m.v
                                                  ELSE IF e \in cut THEN c.shown[e]
                                                  ELSE c.tomb[e]]]

Apply(c, m) ==
    CASE m.kind = "set" -> ApplySet(c, m)
      [] m.kind = "del" -> ApplyDelete(c, m)
      [] OTHER -> c

TakeEvent(c, m) ==
    IF Repeated(c, m) THEN c
    ELSE [Apply(c, m) EXCEPT !.gap = @ \/ LeavesGap(c, m),
                             !.graph = @ \/ m.kind \in {"set", "del"},
                             !.seen = [stream |-> m.stream, seq |-> m.seq]]

\* refreshWorld: the newest one supersedes the one before it.
RefreshAfter(burst) ==
    IF burst.gap THEN Asked(1) ELSE IF burst.graph THEN Moved(refresh) ELSE refresh

\* ingestEvents: a burst of graph and ready events, or one other event.
Ingest ==
    /\ conn # "closed"
    /\ \E k \in 1..Len(wire) :
        /\ k = 1 \/ \A i \in 1..k : wire[i].kind # "other"
        /\ LET burst == FoldLeft(TakeEvent, View, SubSeq(wire, 1, k))
           IN  /\ seen' = burst.seen /\ shown' = burst.shown
               /\ draft' = burst.draft /\ tomb' = burst.tomb
               /\ load' = IF burst.gap \/ burst.graph THEN Moved(load) ELSE load
               /\ refresh' = RefreshAfter(burst)
        /\ wire' = SubSeq(wire, k + 1, Len(wire))
    /\ UNCHANGED <<server, conn, sent, own, owed, counters>>

\* initialize: the first load replaces the canvas, unless events came before it.
LoadLands ==
    /\ load.phase = "answered"
    /\ load' = NoRequest
    /\ IF load.moved
       THEN refresh' = Asked(1) /\ UNCHANGED <<shown, draft>>
       ELSE shown' = load.snap /\ draft' = {} /\ UNCHANGED refresh
    /\ UNCHANGED <<server, wire, conn, sent, seen, tomb, own, owed, counters>>

\* reconcileSnapshotCards and mergeCards for the cards; edges are replaced.
Reconciled(snap) ==
    [e \in Entity |->
        IF e \in Edge \/ snap[e] = Absent THEN snap[e]
        ELSE IF WasDeleted(snap[e], tomb[e]) \/ IsOlder(snap[e], shown[e]) THEN shown[e]
        ELSE snap[e]]

RefreshLands ==
    /\ refresh.phase = "answered" /\ ~refresh.moved
    /\ shown' = Reconciled(refresh.snap)
    /\ draft' = {c \in draft : shown'[c] # refresh.snap[c]}
    /\ refresh' = NoRequest
    /\ owed' = FALSE
    /\ UNCHANGED <<server, wire, conn, sent, seen, tomb, load, own, counters>>

\* The epoch moved while the request was under way: one more attempt, then none.
RefreshDiscarded ==
    /\ refresh.phase = "answered" /\ refresh.moved
    /\ IF refresh.attempt = 1
       THEN refresh' = Asked(2) /\ UNCHANGED owed
       ELSE refresh' = NoRequest /\ owed' = TRUE
    /\ UNCHANGED <<server, wire, conn, sent, seen, shown, draft, tomb, load, own, counters>>

RefreshFails ==
    /\ refresh.phase # "none" /\ fails < MaxFails
    /\ fails' = fails + 1
    /\ refresh' = NoRequest
    /\ owed' = TRUE
    /\ UNCHANGED <<server, wire, conn, sent, seen, shown, draft, tomb, load, own, breaks, owns>>

\* initialize, when one of its requests fails.
LoadFails ==
    /\ load.phase # "none" /\ fails < MaxFails
    /\ fails' = fails + 1
    /\ load' = NoRequest
    /\ owed' = TRUE
    /\ UNCHANGED <<server, wire, conn, sent, seen, shown, draft, tomb, refresh, own, breaks, owns>>

(* The client's own changes; withHistoryTransaction admits one at a time.  *)

Bump == load' = Moved(load) /\ refresh' = Moved(refresh)

\* updateCard shows the edit at once; a card being created has a fresh id.
OwnAsks(kind, e) ==
    /\ own.phase = "none" /\ kind \in Env /\ owns < MaxOwn
    /\ IF kind = "create" THEN world[e] = Absent /\ NextMade(e) = 1 ELSE shown[e] # Absent
    /\ owns' = owns + 1
    /\ own' = [phase |-> "asked", kind |-> kind, e |-> e, before |-> shown[e], result |-> Absent]
    /\ IF kind = "edit" THEN draft' = draft \union {e} /\ Bump
       ELSE UNCHANGED <<draft, load, refresh>>
    /\ UNCHANGED <<server, wire, conn, sent, seen, shown, tomb, owed, breaks, fails>>

\* The server carries the request out, or refuses it.
OwnServed ==
    /\ own.phase = "asked"
    /\ \/ /\ CASE own.kind = "edit" -> Updates(own.e)
               [] own.kind = "create" -> Creates(own.e)
               [] own.kind = "delete" -> Deletes(own.e)
          /\ own' = [own EXCEPT !.phase = "done", !.result = world'[own.e]]
       \/ /\ own' = [own EXCEPT !.phase = "failed"]
          /\ UNCHANGED server
    /\ UNCHANGED <<wire, conn, sent, seen, shown, draft, tomb, load, refresh, owed, counters>>

\* The reply is merged like an event, except that a deletion leaves no tombstone.
OwnLands ==
    LET e == own.e
        kept == [edit |-> shown[e] # Absent /\ ~IsOlder(own.result, shown[e]),
                 create |-> /\ ~WasDeleted(own.result, tomb[e])
                            /\ ~IsOlder(own.result, shown[e])]
        cut == {e} \union {x \in Edge : End[x] = e}
    IN  /\ own.phase = "done"
        /\ IF own.kind = "delete"
           THEN /\ shown' = [x \in Entity |-> IF x \in cut THEN Absent ELSE shown[x]]
                /\ draft' = draft \ {e}
           ELSE IF kept[own.kind]
           THEN shown' = [shown EXCEPT ![e] = own.result] /\ draft' = draft \ {e}
           ELSE UNCHANGED <<shown, draft>>
        /\ own' = NoOwn
        /\ Bump
        /\ UNCHANGED <<server, wire, conn, sent, seen, tomb, owed, counters>>

\* mutant: a refused edit stays on the canvas
NotTakenBack == UNCHANGED <<shown, draft>>

\* updateCard takes the edit back, unless a newer card has replaced it.
TakenBack ==
    IF own.kind = "edit" /\ shown[own.e] # Absent /\ ~IsOlder(own.before, shown[own.e])
    THEN shown' = [shown EXCEPT ![own.e] = own.before] /\ draft' = draft \ {own.e}
    ELSE UNCHANGED <<shown, draft>>

OwnRefused ==
    /\ own.phase = "failed"
    /\ TakenBack
    /\ IF own.kind = "edit" THEN Bump ELSE UNCHANGED <<load, refresh>>
    /\ own' = NoOwn
    /\ UNCHANGED <<server, wire, conn, sent, seen, tomb, owed, counters>>

\* The reply is lost, whatever the server has done.
OwnLost ==
    /\ own.phase \in {"asked", "done"} /\ fails < MaxFails
    /\ fails' = fails + 1
    /\ own' = [own EXCEPT !.phase = "failed"]
    /\ UNCHANGED <<server, wire, conn, sent, seen, shown, draft, tomb, load, refresh, owed, breaks, owns>>

-----------------------------------------------------------------------------
(* The connection.                                                         *)

\* connect and its "open": the canvas is read anew on every connection.
Connect ==
    /\ conn = "closed"
    /\ conn' = "open"
    /\ Subscribed
    /\ refresh' = Asked(1)
    /\ UNCHANGED <<world, peak, hub, total, seen, shown, draft, tomb, load, own, owed, counters>>

\* The connection is lost; some of what was sent still arrives.
Lost ==
    /\ conn' = "dead"
    /\ queue' = <<>>
    /\ \E k \in 0..Len(wire) : wire' = SubSeq(wire, 1, k)

Break ==
    /\ conn = "open" /\ breaks < MaxBreaks
    /\ breaks' = breaks + 1
    /\ Lost
    /\ UNCHANGED <<world, peak, hub, total, sent, client, fails, owns>>

\* A new process: a new stream_id, and the requests under way fail with the old.
Restart ==
    /\ "restart" \in Env /\ breaks < MaxBreaks
    /\ breaks' = breaks + 1
    /\ hub' = [stream |-> hub.stream + 1, seq |-> 0]
    /\ IF conn = "open" THEN Lost ELSE UNCHANGED <<conn, queue, wire>>
    /\ load' = IF load.phase = "asked" THEN NoRequest ELSE load
    /\ refresh' = IF refresh.phase = "asked" THEN NoRequest ELSE refresh
    /\ owed' = (owed \/ "asked" \in {load.phase, refresh.phase})
    /\ own' = IF own.phase = "asked" THEN [own EXCEPT !.phase = "failed"] ELSE own
    /\ UNCHANGED <<world, peak, total, sent, seen, shown, draft, tomb, fails, owns>>

\* The socket closes, or the heartbeat finds the connection silent and closes it.
Close ==
    /\ conn = "dead" /\ wire = <<>>
    /\ conn' = "closed"
    /\ UNCHANGED <<server, wire, sent, client, counters>>

-----------------------------------------------------------------------------
Server == Send \/ AnswerLoad \/ AnswerRefresh \/ OwnServed
Client ==
    \/ Ingest \/ LoadLands \/ RefreshLands \/ RefreshDiscarded
    \/ OwnLands \/ OwnRefused \/ Connect \/ Close
Environment ==
    \/ Change \/ Chatter \/ Pong \/ Break \/ Restart
    \/ RefreshFails \/ LoadFails \/ OwnLost
    \/ \E kind \in {"edit", "create", "delete"}, e \in Card : OwnAsks(kind, e)

Next == Server \/ Client \/ Environment

\* The loops of the socket and the browser go on; nobody has to change anything,
\* and nothing has to fail.
Fairness ==
    /\ SF_vars(Send) /\ WF_vars(AnswerLoad) /\ WF_vars(AnswerRefresh) /\ WF_vars(OwnServed)
    /\ WF_vars(Ingest) /\ WF_vars(LoadLands) /\ WF_vars(RefreshLands)
    /\ WF_vars(RefreshDiscarded) /\ WF_vars(OwnLands) /\ WF_vars(OwnRefused)
    /\ WF_vars(Connect) /\ WF_vars(Close)

Spec == Init /\ [][Next]_vars
FairSpec == Spec /\ Fairness

-----------------------------------------------------------------------------
Versions == {Absent} \union Version
Message == [kind : {"set", "del", "ready", "other"}, e : Entity, v : Versions,
            stream : Nat, seq : Nat]
Request == [phase : {"none", "asked", "answered"}, attempt : 0..2, moved : BOOLEAN,
            snap : [Entity -> Versions]]

TypeOK ==
    /\ world \in [Entity -> Versions] /\ shown \in [Entity -> Versions]
    /\ tomb \in [Entity -> Versions]
    /\ peak \in [Entity -> [1..MaxMade -> 0..MaxRev]]
    /\ hub \in [stream : 1..(MaxBreaks + 1), seq : 0..MaxEvents]
    /\ total \in 0..MaxEvents
    /\ \A i \in DOMAIN queue : queue[i] \in Message
    /\ \A i \in DOMAIN wire : wire[i] \in Message
    /\ Len(queue) <= QueueSize /\ Len(wire) <= WireSize
    /\ conn \in {"closed", "open", "dead"}
    /\ sent \in 0..MaxEvents
    /\ seen \in [stream : 0..(MaxBreaks + 1), seq : 0..MaxEvents]
    /\ draft \subseteq Card
    /\ load \in Request /\ refresh \in Request
    /\ own \in [phase : {"none", "asked", "done", "failed"}, e : Card, before : Versions,
                kind : {"edit", "create", "delete"}, result : Versions]
    /\ owed \in BOOLEAN
    /\ breaks \in 0..MaxBreaks /\ fails \in 0..MaxFails /\ owns \in 0..MaxOwn

\* Nothing is under way between the client and the server, and no refresh was
\* given up or failed since one last landed.
Quiet ==
    /\ conn = "open" /\ queue = <<>> /\ wire = <<>>
    /\ {load.phase, refresh.phase, own.phase} = {"none"}
    /\ ~owed

\* Whatever was dropped, lost, reordered between socket and requests, restored or
\* edited in between: when nothing is under way, the canvas is the world.
QuietIsCurrent == Quiet => shown = world /\ draft = {}

\* The client's state is well formed, and current when nothing is under way.
CanvasSound == TypeOK /\ QuietIsCurrent

\* The canvas catches up for good, unless a refresh failed or was given up.
CatchesUp == <>[](owed \/ (shown = world /\ draft = {}))

\* docs/architecture.md:95 says that a reconnect triggers a fresh world snapshot:
\* as long as no request fails, the canvas catches up with the world.
SnapshotArrives == [](fails = 0) => <>[](shown = world)

\* The canvas shows only versions the world had, never goes back to an older one
\* while an object stays on it, and never brings back a known deleted incarnation.
Replica == INSTANCE ReplicatedWorld
    WITH peak <- peak, shown <- shown, gone <- [e \in Entity |-> tomb[e].made],
         Entity <- Entity, MaxMade <- MaxMade
ShowsTheWorld == Replica!Spec
=============================================================================
