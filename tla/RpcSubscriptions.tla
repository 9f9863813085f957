---- MODULE RpcSubscriptions ----
(***************************************************************************)
(* A session's events over the runtime's stdio link: credit, replay from   *)
(* storage, the live queue and the gap of every subscription               *)
(* (runtime/protocol/subscriptions.ts), and the writer all of them and all *)
(* replies share (runtime/protocol/writer.ts), with its wake-ups, its      *)
(* round robin, its burst limit and a pipe that fills up.                  *)
(*                                                                         *)
(* Subscriptions are numbered in the order of the writer's map.  All lines *)
(* have one size, so that the budgets in bytes are those in lines; frames, *)
(* which are dropped during replay and carry no seq, are left out.         *)
(***************************************************************************)
EXTENDS Naturals, Sequences, FiniteSets

CONSTANTS
  Subs,          \* subscriptions, 1..n
  MaxSeq,        \* bound: envelopes of the session
  MaxCredit,     \* bound: credit a host holds out at a time
  QueueBudget,   \* subscriberQueueHighWater
  ControlLimit,  \* 256 in the code
  Burst          \* controls written in a row beside sources: 8 in the code

ASSUME SubsAssumption == IsFiniteSet(Subs) /\ Subs = 1..Cardinality(Subs) /\ MaxSeq \in Nat

VARIABLES
  last,       \* entry.record.lastSeq of the core
  durable,    \* the seqs in the spill
  failed,     \* an append failed: the session emits no more
  sub,        \* the subscription's entry and closure
  from,       \* fromSeq
  wire,       \* what the host was sent on it
  controls,   \* how many replies and gaps wait to be written
  gap,        \* the seq each gap names, or none
  burst, cursor,
  scheduled, blocked,
  link        \* "up" or "down"

coreVars == <<last, durable, failed>>
writerVars == <<burst, cursor, blocked>>
rpcVars == <<coreVars, sub, from, wire, controls, gap, writerVars, scheduled, link>>

NoSeq == MaxSeq + 2
NoGap == [seq |-> NoSeq, by |-> "nobody"]
NoItem == 0

Off == [open |-> FALSE, credit |-> 0, queue |-> << >>, item |-> NoItem, reading |-> FALSE,
        through |-> 0, replaying |-> FALSE, upto |-> 0, coming |-> << >>]

RpcInit ==
  /\ last = 0 /\ durable = 0 /\ failed = FALSE
  /\ sub = [s \in Subs |-> Off]
  /\ from = [s \in Subs |-> NoSeq]
  /\ wire = [s \in Subs |-> << >>]
  /\ controls = 0
  /\ gap = [s \in Subs |-> NoGap]
  /\ burst = 0 /\ cursor = 1
  /\ scheduled = FALSE /\ blocked = FALSE
  /\ link = "up"

Up == link = "up"
Wake == scheduled' = (scheduled \/ ~blocked)
ControlRoom == controls < ControlLimit
Control == controls' = controls + 1 /\ Wake /\ UNCHANGED link

\* The writer gives up: the link ends, and every subscription with it.
Fault ==
  /\ link' = "down"
  /\ sub' = [s \in Subs |-> Off]
  /\ controls' = 0
  /\ UNCHANGED <<gap, scheduled>>

\* gap: the subscription ends and the host is told through where it is
\* complete; on a link that does not drain, the link ends instead.
GapAt(s, seq, by) ==
  IF ~ControlRoom THEN Fault
  ELSE /\ Control
       /\ gap' = [gap EXCEPT ![s] = [seq |-> seq, by |-> by]]
       /\ sub' = [sub EXCEPT ![s] = Off]
Gap(s) == IF blocked THEN Fault ELSE GapAt(s, sub[s].through, "link")

\* emit: every subscription the core knows of has it coming, in order.
Emit ==
  /\ Up /\ ~failed /\ last < MaxSeq
  /\ last' = last + 1
  /\ sub' = [s \in Subs |-> IF sub[s].open THEN [sub[s] EXCEPT !.coming = Append(@, last')]
                            ELSE sub[s]]
  /\ UNCHANGED <<durable, failed, from, wire, controls, gap, writerVars, scheduled, link>>

\* encode and deliver for one live envelope, at once or when the core is
\* through with its own replay: too many of them, and it is a gap.
Fits(entry) == Len(entry.queue) + (IF entry.item = NoItem THEN 0 ELSE 1) < QueueBudget
Deliver(s) ==
  /\ sub[s].open /\ sub[s].coming # << >>
  /\ IF Fits(sub[s])
     THEN /\ sub' = [sub EXCEPT ![s].queue = Append(@, Head(sub[s].coming)), ![s].coming = Tail(@)]
          /\ Wake
          /\ UNCHANGED <<controls, gap, link>>
     ELSE Gap(s)
  /\ UNCHANGED <<coreVars, from, wire, writerVars>>
\* The core drops it, with a gap at a watermark of its own.
CoreDrops(s) ==
  /\ sub[s].open
  /\ GapAt(s, sub[s].upto, "core")
  /\ UNCHANGED <<coreVars, from, wire, writerVars>>

\* The spill catches up, or fails for good.
SpillGrows ==
  /\ durable < last /\ ~failed
  /\ durable' = durable + 1
  /\ UNCHANGED <<last, failed, sub, from, wire, controls, gap, writerVars, scheduled, link>>
SpillFails ==
  /\ durable < last /\ ~failed
  /\ failed' = TRUE
  /\ UNCHANGED <<last, durable, sub, from, wire, controls, gap, writerVars, scheduled, link>>

\* subscribe: snapshot and live registration in one tick.
\* Variant: live delivery starts at the host's position, beside the replay.
RegisteredBeside(seq) == seq
RegisteredAt(seq) == IF seq > last THEN seq ELSE last
Subscribe(s, seq) ==
  /\ Up /\ from[s] = NoSeq
  /\ seq <= last
  /\ from' = [from EXCEPT ![s] = seq]
  /\ sub' = [sub EXCEPT ![s] =
       [Off EXCEPT !.open = TRUE, !.through = seq, !.replaying = seq < last, !.upto = last,
                   !.coming = [i \in 1..(last - RegisteredAt(seq)) |-> RegisteredAt(seq) + i]]]
  /\ Wake
  /\ UNCHANGED <<coreVars, wire, controls, gap, writerVars, link>>
\* A position past the end is a gap at the end.
SubscribePast(s) ==
  /\ Up /\ from[s] = NoSeq
  /\ from' = IF ControlRoom THEN [from EXCEPT ![s] = last + 1] ELSE from
  /\ GapAt(s, last, "core")
  /\ UNCHANGED <<coreVars, wire, writerVars>>

\* events.credit and events.unsubscribe.
Credit(s) ==
  /\ Up /\ sub[s].open /\ sub[s].credit < MaxCredit
  /\ sub' = [sub EXCEPT ![s].credit = @ + 1]
  /\ Wake
  /\ UNCHANGED <<coreVars, from, wire, controls, gap, writerVars, link>>
Unsubscribe(s) ==
  /\ Up /\ sub[s].open
  /\ IF ControlRoom
     THEN Control /\ sub' = [sub EXCEPT ![s] = Off] /\ UNCHANGED gap
     ELSE Fault
  /\ UNCHANGED <<coreVars, from, wire, writerVars>>

\* readReplay, behind the flush of what the snapshot holds: the next record,
\* the end of the history or a hole in it.
ReadReturns(s) ==
  /\ sub[s].reading
  /\ failed \/ durable >= sub[s].upto
  /\ \/ /\ sub[s].through < durable
        /\ IF Fits(sub[s])
           THEN /\ sub' = [sub EXCEPT ![s].reading = FALSE, ![s].item = sub[s].through + 1]
                /\ Wake
                /\ UNCHANGED <<controls, gap, link>>
           ELSE Gap(s)
     \/ Gap(s)
  /\ UNCHANGED <<coreVars, from, wire, writerVars>>

\* next of a source: history first, one record at a time, then live events.
Ready(s) ==
  /\ sub[s].open /\ sub[s].credit > 0
  /\ IF sub[s].replaying THEN sub[s].item # NoItem ELSE sub[s].queue # << >>
Wants(s) ==
  /\ sub[s].open /\ sub[s].credit > 0
  /\ sub[s].replaying /\ sub[s].item = NoItem /\ ~sub[s].reading
Taken(entry) ==
  IF entry.replaying
  THEN [entry EXCEPT !.credit = @ - 1, !.item = NoItem, !.through = entry.item,
                     !.replaying = entry.item # entry.upto]
  ELSE [entry EXCEPT !.credit = @ - 1, !.queue = Tail(@), !.through = Head(entry.queue)]

\* Round robin: the first ready source at or behind the cursor.  Those asked
\* before it that need a record begin to read one.
Distance(s) == IF s >= cursor THEN s - cursor ELSE s + Cardinality(Subs) - cursor
Chosen == CHOOSE s \in Subs : Ready(s) /\ \A t \in Subs : Ready(t) => Distance(s) <= Distance(t)
SomeReady == \E s \in Subs : Ready(s)
Asked(s) == Wants(s) /\ (SomeReady => Distance(s) < Distance(Chosen))

\* Variant: no burst limit, replies always go first.
ControlAlwaysFirst == controls > 0
ControlFirst == controls > 0 /\ burst < Burst

\* A write the pipe does not take all of blocks the writer until it drains.
Accepted ==
  \/ UNCHANGED <<blocked, scheduled>>
  \/ blocked' = TRUE /\ scheduled' = FALSE
WriteControl ==
  /\ Up /\ scheduled /\ ~blocked
  /\ ControlFirst \/ (controls > 0 /\ ~SomeReady)
  /\ controls' = controls - 1
  /\ burst' = IF burst < Burst THEN burst + 1 ELSE burst
  /\ sub' = IF ControlFirst THEN sub
            ELSE [s \in Subs |-> [sub[s] EXCEPT !.reading = @ \/ Asked(s)]]
  /\ Accepted
  /\ UNCHANGED <<coreVars, from, wire, gap, cursor, link>>
WriteEvent ==
  /\ Up /\ scheduled /\ ~blocked
  /\ ~ControlFirst /\ SomeReady
  /\ sub' = [s \in Subs |-> IF s = Chosen THEN Taken(sub[s])
                            ELSE [sub[s] EXCEPT !.reading = @ \/ Asked(s)]]
  /\ wire' = [wire EXCEPT ![Chosen] = Append(@, sub'[Chosen].through)]
  /\ cursor' = 1 + (Chosen % Cardinality(Subs))
  /\ burst' = 0
  /\ Accepted
  /\ UNCHANGED <<coreVars, from, controls, gap, link>>
\* Nothing to write: the pump stops until it is woken.
Idle ==
  /\ Up /\ scheduled /\ ~blocked
  /\ controls = 0 /\ ~SomeReady
  /\ sub' = [s \in Subs |-> [sub[s] EXCEPT !.reading = @ \/ Asked(s)]]
  /\ scheduled' = FALSE
  /\ UNCHANGED <<coreVars, from, wire, controls, gap, writerVars, link>>
Pump == WriteControl \/ WriteEvent \/ Idle

Drain ==
  /\ Up /\ blocked
  /\ blocked' = FALSE /\ scheduled' = TRUE
  /\ UNCHANGED <<coreVars, sub, from, wire, controls, gap, burst, cursor, link>>

\* The runtime answers requests on the same link, as many as it is asked.
Reply ==
  /\ Up
  /\ IF ControlRoom THEN Control /\ UNCHANGED <<sub, gap>> ELSE Fault
  /\ UNCHANGED <<coreVars, from, wire, writerVars>>

RpcNext ==
  \/ Emit \/ SpillGrows \/ SpillFails \/ Pump \/ Drain \/ Reply
  \/ \E s \in Subs :
       \/ \E seq \in 0..last : Subscribe(s, seq)
       \/ SubscribePast(s) \/ Deliver(s) \/ CoreDrops(s) \/ Credit(s) \/ Unsubscribe(s) \/ ReadReturns(s)

RpcSpec == RpcInit /\ [][RpcNext]_rpcVars

\* The event loop runs what is scheduled, disk reads and writes settle, and a
\* host keeps reading its pipe.
RpcFairness ==
  /\ WF_rpcVars(Pump) /\ WF_rpcVars(Drain) /\ WF_rpcVars(SpillGrows)
  /\ \A s \in Subs : WF_rpcVars(ReadReturns(s)) /\ WF_rpcVars(Deliver(s))
FairRpcSpec == RpcSpec /\ RpcFairness

\* What a host reads on a subscription is the stream the core promises its
\* subscribers: from its position every envelope once and in order, and a gap
\* at most, at its end, however replay, live events, credit and a full pipe
\* interleave; and a gap of the subscription itself names the last seq the host
\* was sent, so that resuming there loses nothing (subscriptions.ts:45-76).
Received(s) == wire[s] \o (IF gap[s] # NoGap THEN <<0>> ELSE << >>)
Stream == INSTANCE EventStream
          WITH Subscribers <- Subs, published <- last, sound <- TRUE,
               from <- [s \in Subs |-> IF from[s] = NoSeq THEN 0 ELSE from[s]],
               got <- [s \in Subs |-> Received(s)]
LastSent(s) == IF wire[s] = << >> THEN from[s] ELSE wire[s][Len(wire[s])]
StreamKept ==
  /\ Stream!StreamSpec
  /\ [](\A s \in Subs : gap[s].by = "link" => gap[s].seq = LastSent(s))

\* Refuted for a gap of the core, which is passed on as it is: "the watermark
\* never advances" past what the host was sent (subscriptions.ts:53).
WatermarkNeverAdvances ==
  \A s \in Subs : gap[s] # NoGap /\ from[s] <= gap[s].seq => gap[s].seq = LastSent(s)

\* A subscription with credit goes on while there is something to send, though
\* replies flood the link and others hold credit too: the next envelope is
\* sent, or the host is told why not (writer.ts:46-56, subscriptions.ts:34).
CreditedMovesOn ==
  \A s \in Subs, n \in 0..(MaxSeq - 1) :
    (sub[s].open /\ sub[s].credit > 0 /\ sub[s].through = n /\ n < last)
      ~> (~sub[s].open \/ sub[s].through > n)
====
