---- MODULE EventStream ----
(***************************************************************************)
(* What a session's event stream promises its subscribers: from the        *)
(* position one resumed at, every envelope once and in seq order, until it *)
(* is told of a gap.  Once storage has failed the session, or lost a line, *)
(* only the order is left of the promise.                                  *)
(***************************************************************************)
EXTENDS Naturals, Sequences

CONSTANT Subscribers

Gap == 0                       \* a replay_gap, among seqs counted from 1

VARIABLES
  published,                   \* the last seq of the session
  from,                        \* the position each subscriber resumed at
  got,                         \* what it has been handed since, up to a gap
  sound                        \* storage has kept every line so far

streamVars == <<published, from, got, sound>>

StreamInit ==
  /\ published = 0
  /\ from = [s \in Subscribers |-> 0]
  /\ got = [s \in Subscribers |-> << >>]
  /\ sound = TRUE

Mark(s) == IF got[s] = << >> THEN from[s] ELSE got[s][Len(got[s])]
Told(s) == got[s] # << >> /\ got[s][Len(got[s])] = Gap

Run(first, last) == [i \in 1..(last + 1 - first) |-> first + i - 1]

Rising(items) ==
  \A i, j \in DOMAIN items :
    i < j /\ items[i] # Gap /\ items[j] # Gap => items[i] < items[j]

\* A subscriber is handed nothing, or what follows its watermark, or a gap.
Hand(s) ==
  \/ UNCHANGED got[s]
  \/ /\ ~Told(s)
     /\ \E last \in Mark(s)..published', lost \in BOOLEAN :
          got'[s] = got[s] \o Run(Mark(s) + 1, last)
                           \o (IF lost THEN <<Gap>> ELSE << >>)

HandInOrder(s) ==
  /\ Len(got[s]) <= Len(got'[s])
  /\ SubSeq(got'[s], 1, Len(got[s])) = got[s]
  /\ Rising(got'[s])

Publish ==
  /\ published' \in {published, published + 1}
  /\ UNCHANGED from
  /\ sound' => sound
  /\ \A s \in Subscribers : IF sound' THEN Hand(s) ELSE HandInOrder(s)

\* A subscriber connects, at a position of its choice, and may be handed at
\* once what it missed or told of a gap; or it leaves, and holds nothing.
Resume(s) ==
  /\ UNCHANGED <<published, sound>>
  /\ \A r \in Subscribers \ {s} : UNCHANGED <<from[r], got[r]>>
  /\ from'[s] \in Nat
  /\ \/ got'[s] = <<Gap>>
     \/ \E last \in from'[s]..published : got'[s] = Run(from'[s] + 1, last)

\* The server restarts with what storage kept; every connection is gone.
Restart ==
  /\ published' \in 0..published
  /\ from' = [s \in Subscribers |-> 0]
  /\ got' = [s \in Subscribers |-> << >>]
  /\ sound' \in BOOLEAN

StreamNext == Publish \/ Restart \/ \E s \in Subscribers : Resume(s)

StreamSpec == StreamInit /\ [][StreamNext]_streamVars
====
