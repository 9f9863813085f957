---- MODULE LiveView ----
(***************************************************************************)
(* A session's transcript in a browser: the console's stream and what it   *)
(* draws (client/app.js), the events route of either edge (edge/sse,       *)
(* edge/ws, the backpressure guard of edge/http-common), and what they     *)
(* lean on, SessionCore's subscribe, whose own module is EventLog.         *)
(*                                                                         *)
(* The session is in one turn.  Its envelopes are messages of the agent    *)
(* and others (notes); the text of a message may be streamed before it, in *)
(* parts, to whoever is attached.  A row is the seq it shows, also when it *)
(* grew from parts, and GapRow where the console said history is missing.  *)
(***************************************************************************)
EXTENDS Integers, SequencesExt

CONSTANTS
  MaxSeq,        \* bound: envelopes
  Parts,         \* parts a streamed message is cut into
  RingCapacity,  \* envelopes the ring holds
  HighWaters,    \* what subscriberQueueHighWater may be
  Holes,         \* the seqs whose line the spill may lack; 0 for none
  MaxDrops,      \* bound: lost connections and missed deadlines
  MaxSelects     \* bound: times the operator selects a session again

ASSUME ViewAssumption ==
  /\ MaxSeq \in Nat /\ Parts \in Nat /\ RingCapacity \in Nat
  /\ HighWaters \subseteq Nat
  /\ Holes \subseteq 0..(MaxSeq - 1)

VARIABLES
  edge,          \* "sse" or "ws"
  highWater,     \* subscriberQueueHighWater, of the core and of either edge
  hole,          \* the seq whose line in the spill is torn
  kinds,         \* the envelopes so far
  streamed,      \* parts already sent of the message to come
  conn,          \* the edge's connection of the stream
  stream,        \* the console's EventSource or WebSocket
  inbox,         \* what its connection has for it
  stale,         \* envelopes that superseded streams still have queued
  lastId,        \* Last-Event-ID of an EventSource
  lastSeq, refetched, rows,
  bubble,        \* the parts drawn of the message to come
  cut,           \* history: the parts drawn of messages shown from parts alone
  drops, selects

coreVars == <<edge, highWater, hole, kinds, streamed>>
viewVars == <<lastSeq, refetched, rows, bubble, cut>>
countVars == <<drops, selects>>
allViewVars == <<coreVars, conn, stream, inbox, stale, lastId, viewVars, countVars>>

GapRow == 0
last == Len(kinds)

Item(kind, n) == [kind |-> kind, n |-> n]
Opened == Item("open", 0)
Lost(code) == Item("lost", code)
ReplayGap(seq) == Item("gap", seq)
Envelope(seq) == Item("envelope", seq)
IsEnvelope(item) == item.kind = "envelope"
Run(first, end) == [i \in 1..(end + 1 - first) |-> Envelope(first + i - 1)]

\* The edge's side: not there; "greeting" until a WebSocket's first frame;
\* "asked" when it is on its way; replaying from the spill; or live.
Closed == [mode |-> "closed", after |-> 0, through |-> 0, upto |-> 0, pending |-> 0, slow |-> FALSE]

\* A line is lost to a crash or a failed append, and either ends the session:
\* everything it says is said, and lines behind the lost one were written.
ViewInit ==
  /\ edge \in {"sse", "ws"} /\ highWater \in HighWaters /\ hole \in Holes
  /\ kinds \in IF hole = 0 THEN {<< >>} ELSE [1..MaxSeq -> {"message", "note"}]
  /\ streamed = 0
  /\ conn = Closed
  /\ stream = "dialling"
  /\ inbox = << >> /\ stale = << >>
  /\ lastId = 0 /\ lastSeq = 0
  /\ refetched = FALSE
  /\ rows = << >> /\ bubble = {} /\ cut = {}
  /\ drops = 0 /\ selects = 0

\* guardedWrite, once per item: the first write from `full` on, and each one
\* behind it until a drain, is refused; a refused one too many and the
\* subscriber is dropped, with a gap at the last seq written.
Overrun(c, full) == full + highWater - c.pending
Seen(c, items) ==
  Max({c.through} \cup {items[i].n : i \in {j \in DOMAIN items : IsEnvelope(items[j])}})
Write(c, queued, items) ==
  \E full \in IF c.slow THEN {1} ELSE 1..(Len(items) + 1) :
    IF Overrun(c, full) <= Len(items)
    THEN LET sent == SubSeq(items, 1, Overrun(c, full))
         IN /\ conn' = Closed
            /\ inbox' = queued \o sent \o <<ReplayGap(Seen(c, sent)), Lost(1000)>>
    ELSE /\ inbox' = queued \o items
         /\ conn' = [c EXCEPT !.through = Seen(c, items),
                              !.slow = c.slow \/ full <= Len(items),
                              !.pending = IF full > Len(items) THEN @ ELSE @ + Len(items) + 1 - full]
Drain ==
  /\ conn.slow
  /\ conn' = [conn EXCEPT !.slow = FALSE, !.pending = 0]
  /\ UNCHANGED <<coreVars, stream, inbox, stale, lastId, viewVars, countVars>>

\* The core's fan-out: to a live subscriber at once; one that replays has
\* envelopes buffered, within bounds, and gets no parts.
Swamped(seq) == conn.mode = "replaying" /\ seq - conn.upto > highWater
Fans(seq) ==
  \/ conn.mode = "live" /\ Write(conn, inbox, <<Envelope(seq)>>)
  \/ /\ Swamped(seq)
     /\ conn' = Closed
     /\ inbox' = inbox \o <<ReplayGap(conn.through), Lost(1000)>>
  \/ conn.mode # "live" /\ ~Swamped(seq) /\ UNCHANGED <<conn, inbox>>
Emit(kind) ==
  /\ last < MaxSeq
  /\ kind = "message" => streamed \in {0, Parts}
  /\ kinds' = Append(kinds, kind)
  /\ streamed' = IF kind = "message" THEN 0 ELSE streamed
  /\ Fans(last + 1)
  /\ UNCHANGED <<edge, highWater, hole, stream, stale, lastId, viewVars, countVars>>
Delta ==
  /\ last < MaxSeq
  /\ streamed < Parts
  /\ streamed' = streamed + 1
  /\ IF conn.mode = "live" THEN Write(conn, inbox, <<Item("part", streamed')>>)
     ELSE UNCHANGED <<conn, inbox>>
  /\ UNCHANGED <<edge, highWater, hole, kinds, stream, stale, lastId, viewVars, countVars>>

\* subscribe: the ring serves the position in this tick, and from here on the
\* connection is live; else the spill is read.
Subscribe(c, after, greeting) ==
  LET at == [c EXCEPT !.after = after, !.through = after]
  IN IF last - after <= RingCapacity
     THEN Write([at EXCEPT !.mode = "live"], inbox \o greeting, Run(after + 1, last))
     ELSE /\ conn' = [at EXCEPT !.mode = "replaying", !.upto = last]
          /\ inbox' = inbox \o greeting

\* The events route of edge/sse: headers, then subscribe, from Last-Event-ID.
ConnectSse ==
  /\ edge = "sse" /\ stream = "dialling"
  /\ stream' = "open"
  /\ Subscribe(Closed, lastId, <<Opened>>)
  /\ UNCHANGED <<coreVars, stale, lastId, viewVars, countVars>>
\* edge/ws: the handshake; the first frame names the position; without one in
\* time the socket is closed.
ConnectWs ==
  /\ edge = "ws" /\ stream = "dialling"
  /\ stream' = "open"
  /\ conn' = [Closed EXCEPT !.mode = "greeting"]
  /\ inbox' = Append(inbox, Opened)
  /\ UNCHANGED <<coreVars, stale, lastId, viewVars, countVars>>
FirstMessage ==
  /\ conn.mode = "asked"
  /\ Subscribe(conn, conn.after, << >>)
  /\ UNCHANGED <<coreVars, stream, stale, lastId, viewVars, countVars>>
FirstFrameDeadline ==
  /\ conn.mode = "greeting" /\ drops < MaxDrops
  /\ drops' = drops + 1
  /\ conn' = Closed
  /\ inbox' = Append(inbox, Lost(4408))
  /\ UNCHANGED <<coreVars, stream, stale, lastId, viewVars, selects>>

\* The spill is read, line by line; a torn line is a gap, and what was
\* buffered meanwhile still comes.
ReplayNext ==
  /\ conn.mode = "replaying"
  /\ conn.through < last /\ conn.through + 1 # hole
  /\ Write(conn, inbox, <<Envelope(conn.through + 1)>>)
  /\ UNCHANGED <<coreVars, stream, stale, lastId, viewVars, countVars>>
ReplayHole ==
  /\ conn.mode = "replaying"
  /\ conn.through + 1 = hole
  /\ LET from == IF conn.upto > conn.through THEN conn.upto ELSE conn.through
     IN Write([conn EXCEPT !.mode = "live"], inbox, <<ReplayGap(conn.through)>> \o Run(from + 1, last))
  /\ UNCHANGED <<coreVars, stream, stale, lastId, viewVars, countVars>>
GoLive ==
  /\ conn.mode = "replaying"
  /\ conn.through >= conn.upto
  /\ Write([conn EXCEPT !.mode = "live"], inbox, Run(conn.through + 1, last))
  /\ UNCHANGED <<coreVars, stream, stale, lastId, viewVars, countVars>>

\* The network loses a connection, and with it the end of what it carried.
Drop ==
  /\ conn.mode # "closed" /\ drops < MaxDrops
  /\ drops' = drops + 1
  /\ conn' = Closed
  /\ \E kept \in 0..Len(inbox) : inbox' = SubSeq(inbox, 1, kept) \o <<Lost(1006)>>
  /\ UNCHANGED <<coreVars, stream, stale, lastId, viewVars, selects>>

Next0 == Head(inbox)
Takes(kind) == inbox # << >> /\ Next0.kind = kind
Rest == inbox' = Tail(inbox)

\* openStream: a new transcript and a new stream.  The old one is closed,
\* which does not unqueue what it was about to dispatch.
OpenStream(queued) ==
  /\ stale' = SelectSeq(queued, IsEnvelope)
  /\ inbox' = << >>
  /\ conn' = Closed
  /\ stream' = "dialling"
  /\ lastId' = 0 /\ lastSeq' = 0
  /\ rows' = << >> /\ bubble' = {} /\ cut' = {}
\* selectSession.
Select ==
  /\ selects < MaxSelects
  /\ selects' = selects + 1
  /\ refetched' = FALSE
  /\ OpenStream(inbox)
  /\ UNCHANGED <<coreVars, drops>>

\* onopen.  Parts drawn before it can never be completed, and go.
BubbleAtOpen == {}
OnOpen ==
  /\ Takes("open") /\ Rest
  /\ bubble' = BubbleAtOpen
  /\ conn' = IF edge = "ws" /\ conn.mode = "greeting"
             THEN [conn EXCEPT !.mode = "asked", !.after = lastSeq] ELSE conn
  /\ UNCHANGED <<coreVars, stream, stale, lastId, lastSeq, refetched, rows, cut, countVars>>

\* handleEnvelope.  The message that follows a bubble is not drawn again.
Handle(seq) ==
  /\ refetched' = FALSE
  /\ lastSeq' = seq
  /\ rows' = Append(rows, seq)
  /\ IF kinds[seq] = "message" /\ bubble # {}
     THEN bubble' = {} /\ cut' = cut \cup {bubble}
     ELSE UNCHANGED <<bubble, cut>>
OnEnvelope ==
  /\ Takes("envelope") /\ Rest
  /\ lastId' = IF edge = "sse" THEN Next0.n ELSE lastId
  /\ Handle(Next0.n)
  /\ UNCHANGED <<coreVars, conn, stream, stale, countVars>>
\* An event of a stream that another has superseded.
HeededLate == TRUE
Heeded == FALSE
OnStaleEnvelope ==
  /\ stale # << >>
  /\ stale' = Tail(stale)
  /\ IF Heeded THEN Handle(Head(stale).n) ELSE UNCHANGED viewVars
  /\ UNCHANGED <<coreVars, conn, stream, inbox, lastId, countVars>>
\* message.delta.
OnPart ==
  /\ Takes("part") /\ Rest
  /\ bubble' = bubble \cup {Next0.n}
  /\ UNCHANGED <<coreVars, conn, stream, stale, lastId, lastSeq, refetched, rows, cut, countVars>>

\* handleReplayGap: the transcript is fetched again; if that gaps, it stays.
OnGap ==
  /\ Takes("gap")
  /\ IF refetched
     THEN /\ Rest
          /\ lastSeq' = Next0.n
          /\ rows' = Append(rows, GapRow)
          /\ UNCHANGED <<conn, stream, stale, lastId, refetched, bubble, cut>>
     ELSE refetched' = TRUE /\ OpenStream(Tail(inbox))
  /\ UNCHANGED <<coreVars, countVars>>

\* onclose, and the retry timer behind it; an EventSource retries by itself.
ReconnectsInTime(code) == code \notin {4401, 4404, 4408}
Reconnects(code) == code \notin {4401, 4404}
OnLost ==
  /\ Takes("lost") /\ Rest
  /\ stream' = IF edge = "sse" \/ Reconnects(Next0.n) THEN "dialling" ELSE "abandoned"
  /\ UNCHANGED <<coreVars, conn, stale, lastId, viewVars, countVars>>

Edge == ConnectSse \/ ConnectWs \/ FirstMessage \/ ReplayNext \/ ReplayHole \/ GoLive
Console == OnOpen \/ OnEnvelope \/ OnPart \/ OnGap \/ OnLost
ViewNext ==
  \/ \E kind \in {"message", "note"} : Emit(kind)
  \/ Delta \/ Drain \/ Edge \/ FirstFrameDeadline \/ Drop
  \/ Console \/ OnStaleEnvelope \/ Select

ViewSpec == ViewInit /\ [][ViewNext]_allViewVars
\* Connections are made, disks read, sockets drained and events dispatched.
FairViewSpec == ViewSpec /\ WF_allViewVars(Edge) /\ WF_allViewVars(Console) /\ WF_allViewVars(Drain)

ViewTypeOK ==
  /\ stream \in {"dialling", "open", "abandoned"}
  /\ conn.mode \in {"closed", "greeting", "asked", "replaying", "live"}
  /\ kinds \in Seq({"message", "note"}) /\ bubble \subseteq 1..Parts
  /\ lastId \in 0..MaxSeq /\ lastSeq \in 0..MaxSeq /\ refetched \in BOOLEAN

\* What is on screen is the session's history: from its beginning every
\* envelope once and in order, and only behind a row that says so may anything
\* be missing, through reconnects, refetches, reselections, streams that fire
\* after they were replaced, and a slow socket (app.js:658-715, app.js:879-886).
\* And a message shown from its parts alone lacks none behind the first it
\* shows: no bubble drawn before a lost connection stands in for the message
\* (D224, app.js:254-273).  That it has the first part is refuted, see
\* TextIsWhole.
Before(i) == Max({0} \cup {rows[j] : j \in 1..(i - 1)})
ViewIsHistory ==
  /\ \A i \in DOMAIN rows : rows[i] # GapRow =>
       IF i > 1 /\ GapRow \in {rows[j] : j \in 1..(i - 1)}
       THEN rows[i] > Before(i) ELSE rows[i] = Before(i) + 1
  /\ \A drawn \in cut : \A p \in drawn : p..Parts \subseteq drawn

\* A view whose history can be served, and fits a socket's budget, catches up:
\* whatever the session said is shown, though connections are lost, frames
\* come too late and sockets stall (app.js:937-989, http-common:72-91).
ViewCatchesUp ==
  \A n \in 1..MaxSeq :
    (hole = 0 /\ highWater >= MaxSeq /\ last >= n) ~> (\E i \in DOMAIN rows : rows[i] = n)

\* design/20-contract.md:588-591: after a reconnect the message "renders once,
\* in full".
TextIsWhole == \A drawn \in cut : drawn = 1..Parts

\* design/20-contract.md:2730: "The refetch happens once": a console that no
\* operator touches and no connection fails stops reloading.
ReloadsStop == <>[](stream # "dialling")
====
