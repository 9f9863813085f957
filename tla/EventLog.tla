---- MODULE EventLog ----
(***************************************************************************)
(* The event log of one session: emit (seq, ring, write queue, fan-out),   *)
(* the spill file and its failures, deliverDirect, subscribe with its      *)
(* replay from the ring or from the spill, and a restart of the server     *)
(* (agent-console/core/index.ts over agent-console/store/fs.ts).           *)
(*                                                                         *)
(* An envelope is its seq.  `spill` is the lines of events.ndjson, Torn    *)
(* one that does not parse; `fragment` says the file ends inside a line.   *)
(***************************************************************************)
EXTENDS Integers, Sequences, FiniteSets

CONSTANTS
  Subscribers,
  RingCapacity,     \* config.caps.ringCapacity
  HighWater,        \* config.caps.subscriberQueueHighWater
  MaxSeq            \* bound: envelopes of the session

ASSUME LogAssumption == RingCapacity \in Nat /\ HighWater \in Nat /\ MaxSeq \in Nat

Gap == 0
Torn == 0

VARIABLES
  server,    \* "up", "booting", or "booted"
  seq,       \* entry.seq, and record.lastSeq
  ring,      \* the store's ring
  queue,     \* seqs whose append has not settled
  failed,    \* entry.storageFailed: "no", while its branch runs, and "done"
  spill,     \* the complete lines of the file
  fragment,  \* the file ends with an incomplete line
  sub,       \* each subscriber's connection
  from,      \* history: the position it resumed at
  got,       \* history: what it was handed since, up to a gap
  sound      \* history: no append has failed and no line is torn

fileVars == <<spill, fragment>>
subVars == <<sub, from, got>>
vars == <<server, seq, ring, queue, failed, fileVars, subVars, sound>>

Modes == {"off", "awaiting", "reading", "live", "dropped"}

\* A connection: `upto` is the seq whose append it awaits and then the length
\* of the file it read, `buffered` what arrived during its replay, `line` the
\* last line it has read, and `through` is replayedThrough.
Connections == [mode : Modes, upto : Nat, buffered : Seq(Nat), line : Nat,
                through : Nat]
Off == [mode |-> "off", upto |-> 0, buffered |-> << >>, line |-> 0,
        through |-> 0]

TypeOK ==
  /\ server \in {"up", "booting", "booted"}
  /\ seq \in Nat
  /\ {ring, queue, spill} \subseteq Seq(Nat)
  /\ failed \in {"no", "branch", "done"}
  /\ {fragment, sound} \subseteq BOOLEAN
  /\ sub \in [Subscribers -> Connections]
  /\ from \in [Subscribers -> Nat]
  /\ got \in [Subscribers -> Seq(Nat)]

Init ==
  /\ server = "up"
  /\ seq = 0
  /\ ring = << >>
  /\ queue = << >>
  /\ failed = "no"
  /\ spill = << >>
  /\ fragment = FALSE
  /\ sub = [s \in Subscribers |-> Off]
  /\ from = [s \in Subscribers |-> 0]
  /\ got = [s \in Subscribers |-> << >>]
  /\ sound = TRUE

---------------------------------------------------------------------------
(* Fan-out. *)

\* What a subscriber has been handed once it is handed `items` more: nothing
\* is recorded after a gap, which makes the client start over.
Handed(items, more) ==
  IF items # << >> /\ items[Len(items)] = Gap THEN items ELSE items \o more

\* deliver, of the connection or of the proxy that buffers for it.
Delivered(c, n) ==
  CASE c.mode \in {"awaiting", "reading"} /\ Len(c.buffered) < HighWater ->
         [c EXCEPT !.buffered = Append(@, n)]
    [] c.mode \in {"awaiting", "reading"} /\ Len(c.buffered) >= HighWater ->
         [c EXCEPT !.mode = "dropped"]
    [] OTHER -> c

HandedLive(c, items, n) ==
  CASE c.mode = "live" -> Handed(items, <<n>>)
    [] c.mode \in {"awaiting", "reading"} /\ Len(c.buffered) >= HighWater ->
         Handed(items, <<Gap>>)
    [] OTHER -> items

FanOut(n) ==
  /\ sub' = [s \in Subscribers |-> Delivered(sub[s], n)]
  /\ got' = [s \in Subscribers |-> HandedLive(sub[s], got[s], n)]
  /\ UNCHANGED from

Pushed(n) ==
  LET grown == Append(ring, n)
  IN IF RingCapacity = 0 THEN ring
     ELSE IF Len(grown) > RingCapacity THEN Tail(grown) ELSE grown

---------------------------------------------------------------------------
(* emit and the write queue. *)

\* seq, ring, the queued append and the fan-out are one synchronous prefix.
Emit ==
  /\ server = "up"
  /\ failed = "no"
  /\ seq < MaxSeq
  /\ seq' = seq + 1
  /\ ring' = Pushed(seq + 1)
  /\ queue' = Append(queue, seq + 1)
  /\ FanOut(seq + 1)
  /\ UNCHANGED <<server, failed, fileVars, sound>>

\* A line written behind a fragment is glued to it, and neither parses.
Written(n) == Append(spill, IF fragment THEN Torn ELSE n)

\* A wrong emit: the appends are issued without being chained.
AppendSettlesVariant ==
  /\ server = "up"
  /\ failed # "branch"
  /\ \E i \in DOMAIN queue :
       /\ queue' = SubSeq(queue, 1, i - 1) \o SubSeq(queue, i + 1, Len(queue))
       /\ spill' = Written(queue[i])
  /\ fragment' = FALSE
  /\ UNCHANGED <<server, seq, ring, failed, subVars, sound>>

\* A queued append is attempted whether or not an earlier one has failed.
AppendSettles ==
  /\ server = "up"
  /\ failed # "branch"
  /\ queue # << >>
  /\ queue' = Tail(queue)
  /\ spill' = Written(Head(queue))
  /\ fragment' = FALSE
  /\ UNCHANGED <<server, seq, ring, failed, subVars, sound>>

\* The first failure ends the session and drops the ring; the queue waits.
AppendFails ==
  /\ server = "up"
  /\ failed # "branch"
  /\ queue # << >>
  /\ fragment' \in {fragment, TRUE}
  /\ sound' = FALSE
  /\ IF failed = "no"
     THEN failed' = "branch" /\ ring' = << >> /\ UNCHANGED queue
     ELSE queue' = Tail(queue) /\ UNCHANGED <<failed, ring>>
  /\ UNCHANGED <<server, seq, spill, subVars>>

\* The end of the session is delivered directly: the spill never holds its seq.
FailDelivers ==
  /\ failed = "branch"
  /\ failed' = "done"
  /\ queue' = Tail(queue)
  /\ seq' = seq + 1
  /\ FanOut(seq + 1)
  /\ UNCHANGED <<server, ring, fileVars, sound>>

---------------------------------------------------------------------------
(* subscribe. *)

Serving == server \in {"up", "booted"}

Set(s, connection, at, items) ==
  /\ sub' = [sub EXCEPT ![s] = connection]
  /\ from' = [from EXCEPT ![s] = at]
  /\ got' = [got EXCEPT ![s] = items]

Live == [Off EXCEPT !.mode = "live"]

\* What a filter leaves: the seqs above a position, in their order.
Later(items, n) ==
  LET kept == {i \in DOMAIN items : items[i] > n}
      Nth(i) == CHOOSE k \in kept : Cardinality({j \in kept : j < k}) = i - 1
  IN [i \in 1..Cardinality(kept) |-> items[Nth(i)]]

\* A wrong readRingAfter: one envelope too few before the ring's start.
RingServesVariant(after) == ring # << >> /\ after >= ring[1] - 2

RingServes(after) == ring # << >> /\ after >= ring[1] - 1

\* A resume point past the end is a gap; the ring answers in the same block;
\* else a proxy is registered and the captured write queue is awaited.
Subscribe(s, after) ==
  /\ Serving
  /\ sub[s].mode = "off"
  /\ CASE after > seq -> Set(s, Live, after, <<Gap>>)
       [] after <= seq /\ RingServes(after) ->
            Set(s, Live, after, Later(ring, after))
       [] OTHER ->
            Set(s, [Off EXCEPT !.mode = "awaiting", !.through = after,
                      !.upto = IF queue = << >> THEN 0 ELSE queue[Len(queue)]],
                after, << >>)
  /\ UNCHANGED <<server, seq, ring, queue, failed, fileVars, sound>>

\* A wrong subscribe: it reads the spill without awaiting the write queue.
ReplayStartsVariant(s) ==
  /\ sub[s].mode = "awaiting"
  /\ sub' = [sub EXCEPT ![s].mode = "reading", ![s].upto = Len(spill)]
  /\ UNCHANGED <<server, seq, ring, queue, failed, fileVars, from, got, sound>>

\* readEventsAfter opens the file: it will read the lines it has now, and may
\* or may not see those appended later.
ReplayStarts(s) ==
  /\ sub[s].mode = "awaiting"
  /\ \A i \in DOMAIN queue : queue[i] > sub[s].upto
  /\ sub' = [sub EXCEPT ![s].mode = "reading", ![s].upto = Len(spill)]
  /\ UNCHANGED <<server, seq, ring, queue, failed, fileVars, from, got, sound>>

\* A wrong subscribe: the proxy stays in its buffering mode.
GoesLiveVariant(s, items) ==
  /\ sub' = [sub EXCEPT ![s].buffered = << >>]
  /\ got' = [got EXCEPT ![s] =
               Handed(Handed(@, items), Later(sub[s].buffered, sub[s].through))]

\* The replay is over: what was buffered behind its watermark is flushed.
GoesLive(s, items) ==
  /\ sub' = [sub EXCEPT ![s] = Live]
  /\ got' = [got EXCEPT ![s] =
               Handed(Handed(@, items), Later(sub[s].buffered, sub[s].through))]

ReplayReads(s) ==
  /\ sub[s].mode = "reading"
  /\ sub[s].line < Len(spill)
  /\ LET n == spill[sub[s].line + 1] IN
       IF n = Torn \/ n <= from[s]
       THEN /\ sub' = [sub EXCEPT ![s].line = @ + 1]
            /\ UNCHANGED got
       ELSE IF n = sub[s].through + 1
       THEN /\ sub' = [sub EXCEPT ![s].line = @ + 1, ![s].through = n]
            /\ got' = [got EXCEPT ![s] = Handed(@, <<n>>)]
       ELSE GoesLive(s, <<Gap>>)
  /\ UNCHANGED <<server, seq, ring, queue, failed, fileVars, from, sound>>

\* The file cannot be read any further.
ReplayFails(s) ==
  /\ sub[s].mode = "reading"
  /\ GoesLive(s, <<Gap>>)
  /\ UNCHANGED <<server, seq, ring, queue, failed, fileVars, from, sound>>

ReplayEnds(s) ==
  /\ sub[s].mode = "reading"
  /\ sub[s].line >= sub[s].upto
  /\ GoesLive(s, << >>)
  /\ UNCHANGED <<server, seq, ring, queue, failed, fileVars, from, sound>>

Disconnect(s) ==
  /\ sub[s].mode \in {"live", "dropped"}
  /\ Set(s, Off, 0, << >>)
  /\ UNCHANGED <<server, seq, ring, queue, failed, fileVars, sound>>

---------------------------------------------------------------------------
(* A restart. *)

\* A wrong readLastSeq: it looks at no line but the last.
LastSeqTailVariant(lines) == IF lines = << >> THEN 0 ELSE lines[Len(lines)]

\* readLastSeq: the last line that parses.
LastSeq(lines) ==
  LET whole == {i \in DOMAIN lines : lines[i] # Torn}
  IN IF whole = {} THEN 0 ELSE lines[CHOOSE i \in whole : \A j \in whole : j <= i]

\* Of the queue only the append in flight can have reached the file, and it
\* may have reached it in part.
Crash ==
  /\ Len(spill) < MaxSeq
  /\ \/ UNCHANGED fileVars
     \/ queue # << >> /\ spill' = Written(Head(queue)) /\ fragment' = FALSE
     \/ queue # << >> /\ fragment' = TRUE /\ UNCHANGED spill
  /\ sound' = (sound /\ fragment' = fragment)
  /\ server' = "booting"
  /\ seq' = LastSeq(spill')
  /\ ring' = << >>
  /\ queue' = << >>
  /\ failed' = "no"
  /\ sub' = [s \in Subscribers |-> Off]
  /\ from' = [s \in Subscribers |-> 0]
  /\ got' = [s \in Subscribers |-> << >>]

\* Boot emits what closes the session, one awaited envelope after the other.
BootEmits ==
  /\ server = "booting"
  /\ failed = "no"
  /\ Len(spill) < MaxSeq
  /\ seq' = seq + 1
  /\ \/ /\ ring' = Pushed(seq + 1)
        /\ spill' = Written(seq + 1)
        /\ fragment' = FALSE
        /\ UNCHANGED <<queue, failed, sound>>
     \/ /\ ring' = << >>
        /\ queue' = <<seq + 1>>
        /\ fragment' \in {fragment, TRUE}
        /\ failed' = "branch"
        /\ sound' = FALSE
        /\ UNCHANGED spill
  /\ UNCHANGED <<server, subVars>>

Serve ==
  /\ server = "booting"
  /\ failed # "branch"
  /\ server' = "booted"
  /\ UNCHANGED <<seq, ring, queue, failed, fileVars, subVars, sound>>

---------------------------------------------------------------------------
Replay(s) == ReplayStarts(s) \/ ReplayReads(s) \/ ReplayFails(s) \/ ReplayEnds(s)

WriteQueue == AppendSettles \/ AppendFails \/ FailDelivers

Next ==
  \/ Emit \/ WriteQueue \/ Crash \/ BootEmits \/ Serve
  \/ \E s \in Subscribers :
       \/ \E after \in 0..(seq + 1) : Subscribe(s, after)
       \/ Replay(s)
       \/ Disconnect(s)

Spec == Init /\ [][Next]_vars

\* Awaited I/O settles, and a replay reads on.
Fairness == WF_vars(WriteQueue) /\ \A s \in Subscribers : WF_vars(Replay(s))

FairSpec == Spec /\ Fairness

---------------------------------------------------------------------------
(* Properties. *)

Mark(s) == IF got[s] = << >> THEN from[s] ELSE got[s][Len(got[s])]
Told(s) == got[s] # << >> /\ Mark(s) = Gap
Run(first, last) == [i \in 1..(last + 1 - first) |-> first + i - 1]

\* I1, I17, I27: while storage keeps its lines, the spill and what is queued
\* behind it are the session's seqs from 1, none missing and none twice.
SpillIsHistory == sound => spill \o queue = Run(1, seq)

\* Even after a failure no seq is written twice, or behind a later one.
SpillRises ==
  \A i, j \in DOMAIN spill :
    i < j /\ spill[i] # Torn /\ spill[j] # Torn => spill[i] < spill[j]

\* A subscriber that is live and was told of no gap holds everything up to the
\* last seq, however its replay and the live stream were interleaved.
LiveIsComplete ==
  \A s \in Subscribers : sound /\ sub[s].mode = "live" /\ ~Told(s) => Mark(s) = seq

\* The stream of every subscriber is the one EventStream promises.
Stream == INSTANCE EventStream WITH published <- seq
StreamKept == Stream!StreamSpec

\* A replay ends: the subscriber goes live, or was dropped with a gap.
ReplayEnded ==
  \A s \in Subscribers :
    sub[s].mode \in {"awaiting", "reading"} ~> sub[s].mode \in {"live", "dropped", "off"}

\* Refuted: awaiting the captured write queue keeps a replay from missing an
\* envelope that was fanned out before the subscriber was there.
NoSilentGap ==
  server = "up" =>
    \A s \in Subscribers : \A i \in DOMAIN got[s] :
      \/ got[s][i] = Gap
      \/ got[s][i] = 1 + IF i = 1 THEN from[s] ELSE got[s][i - 1]

\* Refuted: a torn trailing line costs the transcript one event and no more:
\* what boot writes after it can be read.
TornLineCostsOne == server = "booted" /\ failed = "no" => LastSeq(spill) = seq
====
