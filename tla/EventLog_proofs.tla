---- MODULE EventLog_proofs ----
(***************************************************************************)
(* What storage keeps of a session, for every capacity of the ring, every  *)
(* bound on the replay buffers and every length of the history; then what  *)
(* its subscribers are handed, and that EventLog implements EventStream.   *)
(* The connections do not matter to the first part, which is LogInv; the   *)
(* second rests on it: RingInv for the ring, ConnInv for each connection.  *)
(***************************************************************************)
EXTENDS EventLog, FiniteSetTheorems, SequenceTheorems, WellFoundedInduction, TLAPS

\* The types of what is on disk and on the way there.
LogTypes ==
  /\ server \in {"up", "booting", "booted"}
  /\ failed \in {"no", "branch", "done"}
  /\ seq \in Nat
  /\ queue \in Seq(Nat)
  /\ spill \in Seq(Nat)
  /\ fragment \in BOOLEAN
  /\ sound \in BOOLEAN

\* The branch runs on behalf of an unsettled append, and boot awaits each of
\* its own before the next.
QueueFits ==
  /\ failed = "branch" => queue # << >>
  /\ server = "booting" /\ failed = "no" => queue = << >>

\* The file and the queue behind it hold the seqs from 1, line by line, and a
\* run without a failure has left neither a fragment nor a failed session.
History ==
  sound => /\ ~fragment
           /\ failed = "no"
           /\ Len(spill) + Len(queue) = seq
           /\ \A i \in 1..Len(spill) : spill[i] = i
           /\ \A i \in 1..Len(queue) : queue[i] = Len(spill) + i

\* Even with failures: what is queued is above every line, in order, and the
\* next seq above both.
Above ==
  /\ \A i \in 1..Len(spill) : spill[i] <= seq
  /\ \A j \in 1..Len(queue) : 0 < queue[j] /\ queue[j] <= seq
  /\ \A i \in 1..Len(spill), j \in 1..Len(queue) : spill[i] < queue[j]
  /\ \A i, j \in 1..Len(queue) : i < j => queue[i] < queue[j]

Rises(lines) ==
  \A i, j \in 1..Len(lines) :
    i < j /\ lines[i] # Torn /\ lines[j] # Torn => lines[i] < lines[j]

LogInv == LogTypes /\ QueueFits /\ History /\ Above /\ Rises(spill)

---------------------------------------------------------------------------
(* readLastSeq. *)

\* A nonempty set of line numbers has a last one.
LEMMA LastIndex ==
  ASSUME NEW n \in Nat, NEW whole \in SUBSET (1..n), whole # {}
  PROVE  \E i \in whole : \A j \in whole : j <= i
<1> DEFINE Back == {b \in 0..n : n - b \in whole}
<1>1. PICK w \in whole : TRUE
  OBVIOUS
<1>2. n - w \in Back
  OBVIOUS
<1>3. Back # {} /\ Back \subseteq Nat
  <2>1. Back \subseteq Nat
    OBVIOUS
  <2> QED
    BY <1>2, <2>1
<1>4. PICK b \in Back : \A c \in Back : ~(<<c, b>> \in OpToRel(<, Nat))
  <2> HIDE DEF Back
  <2> QED
    BY <1>3, NatLessThanWellFounded, WFMin
<1>5. \A c \in Back : ~(c < b)
  BY <1>3, <1>4 DEF OpToRel
<1>6. \A j \in whole : n - j \in Back
  OBVIOUS
<1> QED
  <2>1. b \in 0..n /\ n - b \in whole
    OBVIOUS
  <2>2. ASSUME NEW j \in whole PROVE j <= n - b
    <3>1. j \in 1..n /\ ~(n - j < b)
      BY <1>5, <1>6
    <3> QED
      BY <2>1, <3>1
  <2> QED
    BY <2>1, <2>2

\* It reads the last line that parses, which in a rising file is the highest.
LEMMA LastSeqIsHighest ==
  ASSUME NEW lines \in Seq(Nat), Rises(lines)
  PROVE  /\ LastSeq(lines) \in Nat
         /\ \A i \in 1..Len(lines) : lines[i] <= LastSeq(lines)
         /\ LastSeq(lines) # 0 => \E i \in 1..Len(lines) : lines[i] = LastSeq(lines)
<1> DEFINE whole == {i \in DOMAIN lines : lines[i] # Torn}
<1> DEFINE last == CHOOSE i \in whole : \A j \in whole : j <= i
<1>1. DOMAIN lines = 1..Len(lines) /\ Len(lines) \in Nat
  OBVIOUS
<1>2. \A i \in 1..Len(lines) : lines[i] \in Nat
  BY ElementOfSeq
<1>3. CASE whole = {}
  <2>1. LastSeq(lines) = 0
    BY <1>3 DEF LastSeq
  <2>2. \A i \in 1..Len(lines) : lines[i] = 0
    BY <1>1, <1>3 DEF Torn
  <2> QED
    BY <2>1, <2>2
<1>4. CASE whole # {}
  <2>1. \E i \in whole : \A j \in whole : j <= i
    BY <1>1, <1>4, LastIndex
  <2>2. last \in whole /\ \A j \in whole : j <= last
    BY <2>1
  <2>3. LastSeq(lines) = lines[last]
    BY <1>4 DEF LastSeq
  <2> HIDE DEF last
  <2>4. \A i \in 1..Len(lines) : lines[i] <= lines[last]
    <3> SUFFICES ASSUME NEW i \in 1..Len(lines) PROVE lines[i] <= lines[last]
      OBVIOUS
    <3>1. CASE lines[i] = Torn
      BY <1>1, <1>2, <2>2, <3>1 DEF Torn
    <3>2. CASE lines[i] # Torn
      BY <1>1, <1>2, <2>2, <3>2 DEF Rises
    <3> QED
      BY <3>1, <3>2
  <2> QED
    BY <1>1, <1>2, <2>2, <2>3, <2>4
<1> QED
  BY <1>3, <1>4

---------------------------------------------------------------------------
(* The invariant. *)

\* Init starts from an empty file, an empty queue and seq 0.
LEMMA LogInit == Init => LogInv
<1> SUFFICES ASSUME Init PROVE LogInv
  OBVIOUS
<1>1. Len(queue) = 0 /\ Len(spill) = 0 /\ queue \in Seq(Nat) /\ spill \in Seq(Nat)
  BY DEF Init
<1>2. LogTypes /\ QueueFits
  BY <1>1 DEF Init, LogTypes, QueueFits
<1>3. 1..0 = {}
  OBVIOUS
<1> QED
  BY <1>1, <1>2, <1>3 DEF Init, LogInv, History, Above, Rises

\* A queued seq becomes a line, or, behind a fragment, a torn one.
LEMMA LineAppended ==
  ASSUME LogInv, NEW n \in Nat, 0 < n,
         \A i \in 1..Len(spill) : spill[i] < n
  PROVE  /\ Written(n) \in Seq(Nat)
         /\ Len(Written(n)) = Len(spill) + 1
         /\ \A i \in 1..Len(spill) : Written(n)[i] = spill[i]
         /\ Written(n)[Len(spill) + 1] \in {n, Torn}
         /\ ~fragment => Written(n)[Len(spill) + 1] = n
         /\ Rises(Written(n))
<1> DEFINE line == IF fragment THEN Torn ELSE n
<1>1. spill \in Seq(Nat) /\ line \in Nat
  BY DEF LogInv, LogTypes, Torn
<1>2. Written(n) = Append(spill, line)
  BY DEF Written
<1> HIDE DEF line
<1>3. /\ Written(n) \in Seq(Nat)
      /\ Len(Written(n)) = Len(spill) + 1
      /\ \A i \in 1..Len(spill) : Written(n)[i] = spill[i]
      /\ Written(n)[Len(spill) + 1] = line
  BY <1>1, <1>2
<1>4. line \in {n, Torn} /\ (~fragment => line = n)
  BY DEF line
<1>5. Rises(Written(n))
  <2> SUFFICES ASSUME NEW i \in 1..Len(Written(n)), NEW j \in 1..Len(Written(n)), i < j,
                      Written(n)[i] # Torn, Written(n)[j] # Torn
               PROVE  Written(n)[i] < Written(n)[j]
    BY DEF Rises
  <2>1. Len(spill) \in Nat
    BY <1>1
  <2>2. CASE j <= Len(spill)
    <3>1. i \in 1..Len(spill) /\ j \in 1..Len(spill)
      BY <1>3, <2>1, <2>2
    <3>2. Written(n)[i] = spill[i] /\ Written(n)[j] = spill[j]
      BY <1>3, <3>1
    <3> QED
      BY <3>1, <3>2 DEF LogInv, Rises
  <2>3. CASE j = Len(spill) + 1
    <3>1. i \in 1..Len(spill) /\ Written(n)[i] = spill[i]
      BY <1>3, <2>1, <2>3
    <3>2. Written(n)[j] = n
      BY <1>3, <1>4, <2>3
    <3> QED
      BY <3>1, <3>2
  <2> QED
    BY <1>3, <2>1, <2>2, <2>3
<1> QED
  BY <1>3, <1>4, <1>5

\* What is left of the queue behind its head.
LEMMA QueueShifted ==
  ASSUME LogInv, queue # << >>
  PROVE  /\ Head(queue) = queue[1] /\ Head(queue) \in Nat /\ 0 < Head(queue)
         /\ Head(queue) <= seq
         /\ \A i \in 1..Len(spill) : spill[i] < Head(queue)
         /\ Tail(queue) \in Seq(Nat)
         /\ Len(Tail(queue)) = Len(queue) - 1
         /\ Len(queue) \in Nat \ {0}
         /\ \A i \in 1..Len(Tail(queue)) : Tail(queue)[i] = queue[i + 1]
<1>1. queue \in Seq(Nat) /\ Len(queue) \in Nat \ {0}
  BY EmptySeq DEF LogInv, LogTypes
<1>2. Head(queue) = queue[1] /\ 1 \in 1..Len(queue)
  BY <1>1
<1> QED
  BY <1>1, <1>2, HeadTailProperties DEF LogInv, Above

\* A step that leaves the log alone.
LEMMA LogUnchanged ==
  ASSUME LogInv, UNCHANGED <<server, seq, queue, failed, fileVars, sound>>
  PROVE  LogInv'
<1>1. LogTypes' /\ QueueFits'
  BY DEF LogInv, LogTypes, QueueFits, fileVars
<1>2. History' /\ Above'
  BY DEF LogInv, History, Above, fileVars
<1>3. Rises(spill)'
  BY DEF LogInv, Rises, fileVars
<1> QED
  BY <1>1, <1>2, <1>3 DEF LogInv

\* emit puts the next seq at the end of the queue.
LEMMA EmitKeeps ==
  ASSUME LogInv, Emit
  PROVE  LogInv'
<1>1. queue \in Seq(Nat) /\ spill \in Seq(Nat) /\ seq \in Nat
  BY DEF LogInv, LogTypes
<1>2. /\ queue' \in Seq(Nat) /\ queue' # << >>
      /\ Len(queue') = Len(queue) + 1 /\ Len(queue) \in Nat
      /\ \A i \in 1..Len(queue) : queue'[i] = queue[i] /\ queue[i] \in Nat
      /\ queue'[Len(queue) + 1] = seq + 1
  BY <1>1, ElementOfSeq DEF Emit
<1>3. LogTypes' /\ QueueFits'
  BY <1>1, <1>2 DEF Emit, LogInv, LogTypes, QueueFits, fileVars
<1>4. Len(spill) \in Nat /\ \A i \in 1..Len(spill) : spill[i] \in Nat
  BY <1>1, ElementOfSeq
<1>5. spill' = spill /\ fragment' = fragment /\ seq' = seq + 1 /\ sound' = sound /\ failed' = failed
  BY DEF Emit, fileVars
<1>6. \A i \in 1..Len(queue') : i \in 1..Len(queue) \/ i = Len(queue) + 1
  BY <1>2
<1>7. History'
  <2> SUFFICES ASSUME sound PROVE History'
    BY <1>5 DEF History
  <2>1. ~fragment /\ failed = "no" /\ Len(spill) + Len(queue) = seq
    BY DEF LogInv, History
  <2>2. \A i \in 1..Len(spill) : spill[i] = i
    BY DEF LogInv, History
  <2>3. ASSUME NEW i \in 1..Len(queue') PROVE queue'[i] = Len(spill) + i
    <3>1. CASE i \in 1..Len(queue)
      BY <1>2, <3>1 DEF LogInv, History
    <3>2. CASE i = Len(queue) + 1
      BY <1>1, <1>2, <1>4, <2>1, <3>2
    <3> QED
      BY <1>6, <3>1, <3>2
  <2>4. Len(spill) + Len(queue') = seq + 1
    <3>1. Len(queue') = Len(queue) + 1 /\ Len(queue) \in Nat /\ Len(spill) \in Nat
      BY <1>2, <1>4
    <3> QED
      BY <2>1, <3>1
  <2> QED
    BY <1>5, <2>1, <2>2, <2>3, <2>4 DEF History
<1>8. Above'
  <2>1. \A i \in 1..Len(spill) : spill[i] <= seq'
    BY <1>1, <1>4, <1>5 DEF LogInv, Above
  <2>2. ASSUME NEW j \in 1..Len(queue') PROVE 0 < queue'[j] /\ queue'[j] <= seq'
    <3>1. CASE j \in 1..Len(queue)
      <4>1. 0 < queue[j] /\ queue[j] <= seq /\ queue[j] \in Nat
        BY <1>2, <3>1 DEF LogInv, Above
      <4> QED
        BY <1>1, <1>2, <1>5, <3>1, <4>1
    <3>2. CASE j = Len(queue) + 1
      BY <1>1, <1>2, <1>5, <3>2
    <3> QED
      BY <1>6, <3>1, <3>2
  <2>3. ASSUME NEW i \in 1..Len(spill), NEW j \in 1..Len(queue') PROVE spill[i] < queue'[j]
    <3>1. CASE j \in 1..Len(queue)
      BY <1>2, <3>1 DEF LogInv, Above
    <3>2. CASE j = Len(queue) + 1
      <4>1. spill[i] <= seq /\ spill[i] \in Nat
        BY <1>4 DEF LogInv, Above
      <4> QED
        BY <1>1, <1>2, <3>2, <4>1
    <3> QED
      BY <1>6, <3>1, <3>2
  <2>4. ASSUME NEW i \in 1..Len(queue'), NEW j \in 1..Len(queue'), i < j
        PROVE  queue'[i] < queue'[j]
    <3>1. i \in 1..Len(queue)
      BY <1>2, <2>4
    <3>2. CASE j \in 1..Len(queue)
      <4>1. queue[i] < queue[j]
        BY <2>4, <3>1, <3>2 DEF LogInv, Above
      <4> QED
        BY <1>2, <3>1, <3>2, <4>1
    <3>3. CASE j = Len(queue) + 1
      <4>1. queue[i] <= seq /\ queue[i] \in Nat
        BY <1>2, <3>1 DEF LogInv, Above
      <4> QED
        BY <1>1, <1>2, <3>1, <3>3, <4>1
    <3> QED
      BY <1>6, <3>2, <3>3
  <2> QED
    BY <1>5, <2>1, <2>2, <2>3, <2>4 DEF Above
<1>9. Rises(spill)'
  BY <1>5 DEF LogInv, Rises
<1> QED
  BY <1>3, <1>7, <1>8, <1>9 DEF LogInv

\* The head of the queue leaves it, as a line or as a failure.
LEMMA HeadLeaves ==
  ASSUME LogInv, queue # << >>, queue' = Tail(queue), seq' \in {seq, seq + 1},
         \/ spill' = spill
         \/ spill' = Written(Head(queue))
  PROVE  Above' /\ Rises(spill)' /\ queue' \in Seq(Nat) /\ spill' \in Seq(Nat)
<1> DEFINE n == Head(queue)
<1>1. seq \in Nat /\ spill \in Seq(Nat) /\ queue \in Seq(Nat)
  BY DEF LogInv, LogTypes
<1>2. /\ n = queue[1] /\ n \in Nat /\ 0 < n /\ n <= seq
      /\ \A i \in 1..Len(spill) : spill[i] < n
      /\ queue' \in Seq(Nat)
      /\ Len(queue') = Len(queue) - 1 /\ Len(queue) \in Nat \ {0}
      /\ \A i \in 1..Len(queue') : queue'[i] = queue[i + 1]
  BY QueueShifted
<1>3. Len(spill) \in Nat /\ \A i \in 1..Len(spill) : spill[i] \in Nat
  BY <1>1, ElementOfSeq
<1>4. \A j \in 1..Len(queue') : j + 1 \in 1..Len(queue) /\ queue[j + 1] \in Nat /\ n < queue[j + 1]
  <2> SUFFICES ASSUME NEW j \in 1..Len(queue')
               PROVE  j + 1 \in 1..Len(queue) /\ queue[j + 1] \in Nat /\ n < queue[j + 1]
    OBVIOUS
  <2>1. j + 1 \in 1..Len(queue) /\ 1 \in 1..Len(queue) /\ 1 < j + 1
    BY <1>2
  <2>2. queue[j + 1] \in Nat
    BY <1>1, <2>1, ElementOfSeq
  <2>3. queue[1] < queue[j + 1]
    BY <2>1 DEF LogInv, Above
  <2> QED
    BY <1>2, <2>1, <2>2, <2>3
<1>5. /\ spill' \in Seq(Nat)
      /\ Len(spill') \in Nat
      /\ \A i \in 1..Len(spill') : spill'[i] \in Nat /\ spill'[i] <= n
      /\ Rises(spill')
  <2>1. CASE spill' = spill
    BY <1>1, <1>2, <1>3, <2>1 DEF LogInv
  <2>2. CASE spill' = Written(n)
    <3>1. /\ Written(n) \in Seq(Nat)
          /\ Len(Written(n)) = Len(spill) + 1
          /\ \A i \in 1..Len(spill) : Written(n)[i] = spill[i]
          /\ Written(n)[Len(spill) + 1] \in {n, Torn}
          /\ Rises(Written(n))
      <4> HIDE DEF n
      <4> QED
        BY <1>2, LineAppended
    <3>2. \A i \in 1..Len(spill') : i \in 1..Len(spill) \/ i = Len(spill) + 1
      BY <1>3, <2>2, <3>1
    <3> HIDE DEF n
    <3>3. ASSUME NEW i \in 1..Len(spill')
          PROVE  spill'[i] \in Nat /\ spill'[i] <= n
      <4>1. CASE i \in 1..Len(spill)
        BY <1>2, <1>3, <2>2, <3>1, <4>1
      <4>2. CASE i = Len(spill) + 1
        BY <1>2, <2>2, <3>1, <4>2 DEF Torn
      <4> QED
        BY <3>2, <4>1, <4>2
    <3> QED
      BY <1>3, <2>2, <3>1, <3>3
  <2> QED
    BY <2>1, <2>2
<1> HIDE DEF n
<1>6. Above'
  <2>1. \A i \in 1..Len(spill') : spill'[i] <= seq'
    BY <1>1, <1>2, <1>5
  <2>2. \A j \in 1..Len(queue') : 0 < queue'[j] /\ queue'[j] <= seq'
    BY <1>1, <1>2, <1>4 DEF LogInv, Above
  <2>3. \A i \in 1..Len(spill'), j \in 1..Len(queue') : spill'[i] < queue'[j]
    BY <1>2, <1>4, <1>5
  <2>4. \A i, j \in 1..Len(queue') : i < j => queue'[i] < queue'[j]
    <3> SUFFICES ASSUME NEW i \in 1..Len(queue'), NEW j \in 1..Len(queue'), i < j
                 PROVE  queue'[i] < queue'[j]
      OBVIOUS
    <3>1. i + 1 < j + 1
      BY <1>2
    <3> QED
      BY <1>2, <1>4, <3>1 DEF LogInv, Above
  <2> QED
    BY <2>1, <2>2, <2>3, <2>4 DEF Above
<1>7. Rises(spill)'
  BY <1>5 DEF Rises
<1> QED
  BY <1>2, <1>5, <1>6, <1>7

\* A settled append moves the head of the queue to the end of the file.
LEMMA AppendSettlesKeeps ==
  ASSUME LogInv, AppendSettles
  PROVE  LogInv'
<1>1. queue # << >> /\ queue' = Tail(queue) /\ spill' = Written(Head(queue))
  BY DEF AppendSettles
<1>2. /\ fragment' = FALSE /\ seq' = seq /\ sound' = sound /\ failed' = failed
      /\ server' = server /\ server = "up" /\ failed # "branch"
  BY DEF AppendSettles
<1>3. Above' /\ Rises(spill)' /\ queue' \in Seq(Nat) /\ spill' \in Seq(Nat)
  BY <1>1, <1>2, HeadLeaves
<1>4. LogTypes' /\ QueueFits'
  BY <1>2, <1>3 DEF LogInv, LogTypes, QueueFits
<1>5. History'
  <2> SUFFICES ASSUME sound PROVE History'
    BY <1>2 DEF History
  <2>1. /\ ~fragment /\ failed = "no" /\ Len(spill) + Len(queue) = seq
        /\ \A i \in 1..Len(spill) : spill[i] = i
        /\ \A i \in 1..Len(queue) : queue[i] = Len(spill) + i
    BY DEF LogInv, History
  <2>2. /\ Head(queue) = queue[1] /\ Head(queue) \in Nat /\ 0 < Head(queue)
        /\ \A i \in 1..Len(spill) : spill[i] < Head(queue)
        /\ Len(queue') = Len(queue) - 1 /\ Len(queue) \in Nat \ {0}
        /\ \A i \in 1..Len(queue') : queue'[i] = queue[i + 1]
    BY <1>1, QueueShifted
  <2>3. /\ Len(spill') = Len(spill) + 1
        /\ \A i \in 1..Len(spill) : spill'[i] = spill[i]
        /\ spill'[Len(spill) + 1] = Head(queue)
    BY <1>1, <2>1, <2>2, LineAppended
  <2>4. Len(spill) \in Nat /\ seq \in Nat
    BY DEF LogInv, LogTypes
  <2>5. Len(spill') + Len(queue') = seq
    <3>1. /\ Len(spill') = Len(spill) + 1 /\ Len(queue') = Len(queue) - 1
          /\ Len(queue) \in Nat \ {0} /\ Len(spill) + Len(queue) = seq
      BY <2>1, <2>2, <2>3
    <3> QED
      BY <2>4, <3>1
  <2>6. ASSUME NEW i \in 1..Len(spill') PROVE spill'[i] = i
    <3>1. Head(queue) = Len(spill) + 1
      BY <2>1, <2>2
    <3>2. i \in 1..Len(spill) \/ i = Len(spill) + 1
      BY <2>3, <2>4
    <3> QED
      BY <2>1, <2>3, <3>1, <3>2
  <2>7. ASSUME NEW i \in 1..Len(queue') PROVE queue'[i] = Len(spill') + i
    <3>1. i + 1 \in 1..Len(queue)
      BY <2>2
    <3>2. queue'[i] = Len(spill) + (i + 1)
      BY <2>1, <2>2, <3>1
    <3> QED
      BY <2>3, <2>4, <3>2
  <2> QED
    BY <1>2, <2>1, <2>5, <2>6, <2>7 DEF History
<1> QED
  BY <1>3, <1>4, <1>5 DEF LogInv

\* A failed append leaves the file to the branch, or, behind it, loses a seq.
LEMMA AppendFailsKeeps ==
  ASSUME LogInv, AppendFails
  PROVE  LogInv'
<1>1. /\ sound' = FALSE /\ spill' = spill /\ seq' = seq /\ server' = server
      /\ server = "up" /\ queue # << >> /\ fragment' \in BOOLEAN
  BY DEF AppendFails, LogInv, LogTypes
<1>2. History'
  BY <1>1 DEF History
<1>3. CASE failed = "no"
  <2>1. failed' = "branch" /\ queue' = queue
    BY <1>3 DEF AppendFails
  <2>2. LogTypes' /\ QueueFits'
    BY <1>1, <2>1 DEF LogInv, LogTypes, QueueFits
  <2>3. Above' /\ Rises(spill)'
    BY <1>1, <2>1 DEF LogInv, Above, Rises
  <2> QED
    BY <1>2, <2>2, <2>3 DEF LogInv
<1>4. CASE failed # "no"
  <2>1. failed' = failed /\ queue' = Tail(queue) /\ failed # "branch"
    BY <1>4 DEF AppendFails
  <2>2. Above' /\ Rises(spill)' /\ queue' \in Seq(Nat) /\ spill' \in Seq(Nat)
    BY <1>1, <2>1, HeadLeaves
  <2>3. LogTypes' /\ QueueFits'
    BY <1>1, <2>1, <2>2 DEF LogInv, LogTypes, QueueFits
  <2> QED
    BY <1>2, <2>2, <2>3 DEF LogInv
<1> QED
  BY <1>3, <1>4

\* The branch takes one seq that neither the queue nor the file ever holds.
LEMMA FailDeliversKeeps ==
  ASSUME LogInv, FailDelivers
  PROVE  LogInv'
<1>1. /\ failed = "branch" /\ failed' = "done" /\ queue' = Tail(queue)
      /\ seq' = seq + 1 /\ spill' = spill /\ fragment' = fragment
      /\ sound' = sound /\ server' = server
  BY DEF FailDelivers, fileVars
<1>2. queue # << >> /\ ~sound
  BY <1>1 DEF LogInv, QueueFits, History
<1>3. Above' /\ Rises(spill)' /\ queue' \in Seq(Nat) /\ spill' \in Seq(Nat)
  BY <1>1, <1>2, HeadLeaves
<1>4. LogTypes' /\ QueueFits' /\ History'
  BY <1>1, <1>2, <1>3 DEF LogInv, LogTypes, QueueFits, History
<1> QED
  BY <1>3, <1>4 DEF LogInv

\* What a restart reads back: its seq is the last line, and above every line.
LEMMA RestartKeeps ==
  ASSUME seq' = LastSeq(spill'), queue' = << >>, failed' = "no", server' = "booting",
         spill' \in Seq(Nat), Rises(spill'), fragment' \in BOOLEAN, sound' \in BOOLEAN,
         sound' => fragment' = FALSE /\ \A i \in 1..Len(spill') : spill'[i] = i
  PROVE  LogInv'
<1>1. /\ LastSeq(spill') \in Nat
      /\ \A i \in 1..Len(spill') : spill'[i] <= LastSeq(spill')
      /\ LastSeq(spill') # 0 => \E i \in 1..Len(spill') : spill'[i] = LastSeq(spill')
  BY LastSeqIsHighest
<1>2. Len(queue') = 0 /\ queue' \in Seq(Nat) /\ Len(spill') \in Nat /\ 1..0 = {}
  OBVIOUS
<1>3. LogTypes' /\ QueueFits'
  BY <1>1, <1>2 DEF LogTypes, QueueFits
<1>4. Above'
  BY <1>1, <1>2 DEF Above
<1>5. History'
  <2> SUFFICES ASSUME sound' PROVE History'
    BY DEF History
  <2>1. \A i \in 1..Len(spill') : spill'[i] = i
    OBVIOUS
  <2>2. LastSeq(spill') = Len(spill')
    <3>1. CASE Len(spill') = 0
      BY <1>1, <1>2, <3>1
    <3>2. CASE Len(spill') # 0
      <4>1. Len(spill') \in 1..Len(spill')
        BY <1>2, <3>2
      <4>2. Len(spill') <= LastSeq(spill') /\ LastSeq(spill') # 0
        BY <1>1, <1>2, <2>1, <3>2, <4>1
      <4>3. PICK i \in 1..Len(spill') : spill'[i] = LastSeq(spill')
        BY <1>1, <4>2
      <4> QED
        BY <1>1, <1>2, <2>1, <4>2, <4>3
    <3> QED
      BY <3>1, <3>2
  <2> QED
    BY <1>2, <2>1, <2>2 DEF History
<1>6. Rises(spill)'
  BY DEF Rises
<1> QED
  BY <1>3, <1>4, <1>5, <1>6 DEF LogInv

\* A crash: the append in flight reached the file, in part, or not at all.
LEMMA CrashKeeps ==
  ASSUME LogInv, Crash
  PROVE  LogInv'
<1>1. /\ seq' = LastSeq(spill') /\ queue' = << >> /\ failed' = "no"
      /\ server' = "booting" /\ sound' = (sound /\ fragment' = fragment)
  BY DEF Crash
<1>2. /\ spill \in Seq(Nat) /\ queue \in Seq(Nat) /\ Len(spill) \in Nat
      /\ fragment \in BOOLEAN /\ sound \in BOOLEAN
  BY DEF LogInv, LogTypes
<1>3. CASE UNCHANGED fileVars \/ (fragment' = TRUE /\ UNCHANGED spill)
  <2>1. spill' = spill /\ fragment' \in BOOLEAN
    BY <1>2, <1>3 DEF fileVars
  <2>2. Rises(spill) /\ (sound => \A i \in 1..Len(spill) : spill[i] = i)
    BY DEF LogInv, History
  <2>3. sound' => sound /\ fragment' = FALSE
    <3>1. sound => fragment = FALSE
      BY <1>2 DEF LogInv, History
    <3> QED
      BY <1>1, <3>1
  <2> QED
    BY <1>1, <1>2, <2>1, <2>2, <2>3, RestartKeeps
<1>4. CASE queue # << >> /\ spill' = Written(Head(queue)) /\ fragment' = FALSE
  <2>1. /\ Head(queue) = queue[1] /\ Head(queue) \in Nat /\ 0 < Head(queue)
        /\ \A i \in 1..Len(spill) : spill[i] < Head(queue)
        /\ Len(queue) \in Nat \ {0}
    BY <1>4, QueueShifted
  <2>2. /\ spill' \in Seq(Nat) /\ Rises(spill')
        /\ Len(spill') = Len(spill) + 1
        /\ \A i \in 1..Len(spill) : spill'[i] = spill[i]
        /\ ~fragment => spill'[Len(spill) + 1] = Head(queue)
    BY <1>4, <2>1, LineAppended
  <2>3. ASSUME sound, NEW i \in 1..Len(spill') PROVE spill'[i] = i
    <3>1. /\ ~fragment
          /\ \A j \in 1..Len(spill) : spill[j] = j
          /\ \A j \in 1..Len(queue) : queue[j] = Len(spill) + j
      BY <2>3 DEF LogInv, History
    <3>2. Head(queue) = Len(spill) + 1
      BY <2>1, <3>1
    <3>3. i \in 1..Len(spill) \/ i = Len(spill) + 1
      BY <1>2, <2>2
    <3> QED
      BY <2>2, <3>1, <3>2, <3>3
  <2>4. sound' => sound /\ fragment' = FALSE
    BY <1>1, <1>4
  <2> QED
    BY <1>1, <1>2, <1>4, <2>2, <2>3, <2>4, RestartKeeps
<1> QED
  BY <1>3, <1>4 DEF Crash

\* Each envelope of boot is a line before the next, or fails the session.
LEMMA BootEmitsKeeps ==
  ASSUME LogInv, BootEmits
  PROVE  LogInv'
<1>1. /\ server = "booting" /\ server' = server /\ failed = "no" /\ seq' = seq + 1
      /\ queue = << >> /\ Len(queue) = 0
  BY DEF BootEmits, LogInv, QueueFits
<1>2. /\ seq \in Nat /\ spill \in Seq(Nat) /\ Len(spill) \in Nat
      /\ \A i \in 1..Len(spill) : spill[i] \in Nat /\ spill[i] <= seq
  <2>1. seq \in Nat /\ spill \in Seq(Nat)
    BY DEF LogInv, LogTypes
  <2> QED
    BY <2>1, ElementOfSeq DEF LogInv, Above
<1>3. \A i \in 1..Len(spill) : spill[i] < seq + 1
  BY <1>2
<1>4. CASE /\ spill' = Written(seq + 1) /\ fragment' = FALSE
           /\ UNCHANGED <<queue, failed, sound>>
  <2>1. /\ spill' \in Seq(Nat) /\ Rises(spill')
        /\ Len(spill') = Len(spill) + 1
        /\ \A i \in 1..Len(spill) : spill'[i] = spill[i]
        /\ spill'[Len(spill) + 1] \in {seq + 1, Torn}
        /\ ~fragment => spill'[Len(spill) + 1] = seq + 1
    <3>1. seq + 1 \in Nat /\ 0 < seq + 1
      BY <1>2
    <3> QED
      BY <1>3, <1>4, <3>1, LineAppended
  <2>2. \A i \in 1..Len(spill') : i \in 1..Len(spill) \/ i = Len(spill) + 1
    BY <1>2, <2>1
  <2>3. LogTypes' /\ QueueFits'
    <3>1. seq' \in Nat
      BY <1>1, <1>2
    <3>2. queue' = queue /\ failed' = failed /\ sound' = sound /\ fragment' \in BOOLEAN
      BY <1>4
    <3> QED
      BY <1>1, <2>1, <3>1, <3>2 DEF LogInv, LogTypes, QueueFits
  <2>4. ASSUME NEW i \in 1..Len(spill') PROVE spill'[i] <= seq'
    <3>1. CASE i \in 1..Len(spill)
      <4>1. spill'[i] = spill[i] /\ spill[i] \in Nat /\ spill[i] <= seq
        BY <1>2, <2>1, <3>1
      <4> QED
        BY <1>1, <1>2, <4>1
    <3>2. CASE i = Len(spill) + 1
      <4>1. spill'[i] = seq + 1 \/ spill'[i] = 0
        BY <2>1, <3>2 DEF Torn
      <4> QED
        BY <1>1, <1>2, <4>1
    <3> QED
      BY <2>2, <3>1, <3>2
  <2>5. Above'
    BY <1>1, <1>4, <2>4 DEF Above
  <2>6. History'
    <3> SUFFICES ASSUME sound PROVE History'
      BY <1>4 DEF History
    <3>1. ~fragment /\ Len(spill) = seq /\ \A i \in 1..Len(spill) : spill[i] = i
      BY <1>1, <1>2 DEF LogInv, History
    <3>2. \A i \in 1..Len(spill') : spill'[i] = i
      BY <2>1, <2>2, <3>1
    <3>3. Len(spill') + Len(queue') = seq'
      BY <1>1, <1>2, <1>4, <2>1, <3>1
    <3> QED
      BY <1>1, <1>4, <3>2, <3>3 DEF History
  <2> QED
    BY <2>1, <2>3, <2>5, <2>6, <1>4 DEF LogInv, Rises
<1>5. CASE /\ queue' = <<seq + 1>> /\ fragment' \in {fragment, TRUE}
           /\ failed' = "branch" /\ sound' = FALSE /\ UNCHANGED spill
  <2>1. /\ queue' \in Seq(Nat) /\ queue' # << >> /\ Len(queue') = 1
        /\ queue'[1] = seq + 1
    BY <1>2, <1>5
  <2>2. LogTypes' /\ QueueFits' /\ History'
    <3>1. seq' \in Nat /\ fragment' \in BOOLEAN /\ spill' \in Seq(Nat)
      <4>1. fragment \in BOOLEAN
        BY DEF LogInv, LogTypes
      <4>2. fragment' \in {fragment, TRUE} /\ spill' = spill
        BY <1>5
      <4>3. seq' \in Nat
        BY <1>1, <1>2
      <4> QED
        BY <1>2, <4>1, <4>2, <4>3
    <3> QED
      BY <1>1, <1>5, <2>1, <3>1 DEF LogInv, LogTypes, QueueFits, History
  <2>3. \A j \in 1..Len(queue') : j = 1
    BY <2>1
  <2>4. Above'
    BY <1>1, <1>2, <1>3, <1>5, <2>1, <2>3 DEF Above
  <2>5. Rises(spill)'
    BY <1>5 DEF LogInv, Rises
  <2> QED
    BY <2>2, <2>4, <2>5 DEF LogInv
<1> QED
  BY <1>4, <1>5 DEF BootEmits

\* The end of boot changes no part of the log.
LEMMA ServeKeeps ==
  ASSUME LogInv, Serve
  PROVE  LogInv'
<1>1. UNCHANGED <<seq, queue, failed, fileVars, sound>> /\ server' = "booted"
  BY DEF Serve
<1>2. LogTypes' /\ QueueFits'
  BY <1>1 DEF Serve, LogInv, LogTypes, QueueFits, fileVars
<1>3. History' /\ Above'
  BY <1>1 DEF LogInv, History, Above, fileVars
<1>4. Rises(spill)'
  BY <1>1 DEF LogInv, Rises, fileVars
<1> QED
  BY <1>2, <1>3, <1>4 DEF LogInv

\* A subscriber connects, is served or leaves, and the log stays as it was.
LEMMA SubscriberKeeps ==
  ASSUME NEW s \in Subscribers,
         \/ \E after \in 0..(seq + 1) : Subscribe(s, after)
         \/ Replay(s)
         \/ Disconnect(s)
  PROVE  UNCHANGED <<server, seq, queue, failed, fileVars, sound>>
BY DEF Subscribe, Replay, ReplayStarts, ReplayReads, ReplayFails, ReplayEnds,
       Disconnect, fileVars

---------------------------------------------------------------------------
(* The theorems. *)

\* LogInv is inductive: one case for each action, the subscribers' in one.
THEOREM LogInvariant == Spec => []LogInv
<1>1. Init => LogInv
  BY LogInit
<1>2. LogInv /\ [Next]_vars => LogInv'
  <2> SUFFICES ASSUME LogInv, [Next]_vars PROVE LogInv'
    OBVIOUS
  <2>1. CASE Emit
    BY <2>1, EmitKeeps
  <2>2. CASE WriteQueue
    BY <2>2, AppendSettlesKeeps, AppendFailsKeeps, FailDeliversKeeps DEF WriteQueue
  <2>3. CASE Crash
    BY <2>3, CrashKeeps
  <2>4. CASE BootEmits
    BY <2>4, BootEmitsKeeps
  <2>5. CASE Serve
    BY <2>5, ServeKeeps
  <2>6. ASSUME NEW s \in Subscribers,
               \/ \E after \in 0..(seq + 1) : Subscribe(s, after)
               \/ Replay(s)
               \/ Disconnect(s)
        PROVE  LogInv'
    BY <2>6, SubscriberKeeps, LogUnchanged
  <2>7. CASE UNCHANGED vars
    BY <2>7, LogUnchanged DEF vars
  <2> QED
    BY <2>1, <2>2, <2>3, <2>4, <2>5, <2>6, <2>7 DEF Next
<1> QED
  BY <1>1, <1>2, PTL DEF Spec

\* I1, I17, I27: whatever is emitted, replayed, crashed and restarted, and for
\* every capacity, a run whose appends have all succeeded has on disk and in
\* its write queue each seq of the session once, in order.
THEOREM HistoryKept == Spec => []SpillIsHistory
<1>1. LogInv => SpillIsHistory
  <2> SUFFICES ASSUME LogInv, sound PROVE spill \o queue = Run(1, seq)
    BY DEF SpillIsHistory
  <2>1. /\ Len(spill) + Len(queue) = seq
        /\ \A i \in 1..Len(spill) : spill[i] = i
        /\ \A i \in 1..Len(queue) : queue[i] = Len(spill) + i
    BY DEF LogInv, History
  <2>2. /\ spill \in Seq(Nat) /\ queue \in Seq(Nat) /\ seq \in Nat
        /\ Len(spill) \in Nat /\ Len(queue) \in Nat
    BY DEF LogInv, LogTypes
  <2>3. /\ spill \o queue \in Seq(Nat)
        /\ Len(spill \o queue) = seq
        /\ \A i \in 1..seq : (spill \o queue)[i] =
              IF i <= Len(spill) THEN spill[i] ELSE queue[i - Len(spill)]
    BY <2>1, <2>2, ConcatProperties
  <2>4. ASSUME NEW i \in 1..seq PROVE (spill \o queue)[i] = i
    <3>1. CASE i <= Len(spill)
      BY <2>1, <2>2, <2>3, <3>1
    <3>2. CASE ~(i <= Len(spill))
      <4>1. i - Len(spill) \in 1..Len(queue)
        BY <2>1, <2>2, <3>2
      <4>2. queue[i - Len(spill)] = Len(spill) + (i - Len(spill))
        BY <2>1, <4>1
      <4> QED
        BY <2>2, <2>3, <3>2, <4>2
    <3> QED
      BY <3>1, <3>2
  <2>5. Run(1, seq) = [i \in 1..seq |-> i]
    BY <2>2 DEF Run
  <2>6. spill \o queue = [i \in 1..seq |-> (spill \o queue)[i]]
    BY <2>3, LenProperties
  <2> QED
    BY <2>4, <2>5, <2>6
<1> QED
  BY <1>1, LogInvariant, PTL

\* Nor does a failure, a torn line or a restart ever put a seq on disk twice,
\* or behind a later one.
THEOREM NoSeqTwice == Spec => []SpillRises
<1>1. LogInv => SpillRises
  <2> SUFFICES ASSUME LogInv PROVE SpillRises
    OBVIOUS
  <2>1. DOMAIN spill = 1..Len(spill)
    BY DEF LogInv, LogTypes
  <2> QED
    BY <2>1 DEF LogInv, Rises, SpillRises
<1> QED
  BY <1>1, LogInvariant, PTL

---------------------------------------------------------------------------
(* What a subscriber is handed. *)

Climbs(items) == \A i, j \in 1..Len(items) : i < j => items[i] < items[j]
Within(items, low, high) == \A i \in 1..Len(items) : low < items[i] /\ items[i] <= high
\* The seqs from low + 1 on.
Follows(items, low) == \A i \in 1..Len(items) : items[i] = low + i

\* It rises, and a gap is the last of it.
Orderly(items, high) ==
  /\ \A i \in 1..Len(items) : items[i] <= high /\ (items[i] = Gap => i = Len(items))
  /\ \A i, j \in 1..Len(items) : i < j /\ items[j] # Gap => items[i] < items[j]
NoGap(items) == \A i \in 1..Len(items) : items[i] # Gap
\* What was handed since `at`, with no gap, brings its holder to `last`.
EndsAt(items, at, last) ==
  IF items = << >> THEN last = at ELSE 0 < last /\ items[Len(items)] = last

\* What a step may make of what a subscriber was handed, as EventStream has it:
\* in any run, and in one that has lost no line.
Extended(items, more) == Len(items) <= Len(more) /\ SubSeq(more, 1, Len(items)) = items
Grown(items, at, more, high) ==
  LET mark == IF items = << >> THEN at ELSE items[Len(items)] IN
    \/ more = items
    \/ /\ ~(items # << >> /\ items[Len(items)] = Gap)
       /\ \E last \in mark..high, lost \in BOOLEAN :
            more = items \o Run(mark + 1, last) \o (IF lost THEN <<Gap>> ELSE << >>)

Joins(items, more, both) == items \in Seq(Nat) /\ more \in Seq(Nat) /\ both = items \o more

\* What is where in a sequence made of two.
LEMMA JoinFacts ==
  ASSUME NEW g, NEW more, NEW h, Joins(g, more, h)
  PROVE  /\ g \in Seq(Nat) /\ more \in Seq(Nat) /\ h \in Seq(Nat)
         /\ Len(g) \in Nat /\ Len(more) \in Nat /\ Len(h) = Len(g) + Len(more)
         /\ \A i \in 1..Len(g) : h[i] = g[i] /\ g[i] \in Nat
         /\ \A i \in 1..Len(more) : h[Len(g) + i] = more[i] /\ more[i] \in Nat
         /\ \A i \in (Len(g) + 1)..Len(h) :
              i - Len(g) \in 1..Len(more) /\ h[i] = more[i - Len(g)]
<1>1. /\ g \in Seq(Nat) /\ more \in Seq(Nat) /\ h \in Seq(Nat)
      /\ Len(g) \in Nat /\ Len(more) \in Nat /\ Len(h) = Len(g) + Len(more)
      /\ \A i \in 1..(Len(g) + Len(more)) :
           h[i] = IF i <= Len(g) THEN g[i] ELSE more[i - Len(g)]
  BY ConcatProperties, LenProperties DEF Joins
<1>2. /\ \A i \in 1..Len(g) : g[i] \in Nat
      /\ \A i \in 1..Len(more) : more[i] \in Nat
  BY <1>1, ElementOfSeq
<1>3. \A i \in 1..Len(g) : h[i] = g[i]
  BY <1>1
<1>4. ASSUME NEW i \in 1..Len(more) PROVE h[Len(g) + i] = more[i]
  <2>1. Len(g) + i \in 1..(Len(g) + Len(more)) /\ ~(Len(g) + i <= Len(g))
    BY <1>1
  <2>2. (Len(g) + i) - Len(g) = i
    BY <1>1
  <2> QED
    BY <1>1, <2>1, <2>2
<1>5. ASSUME NEW i \in (Len(g) + 1)..Len(h)
      PROVE  i - Len(g) \in 1..Len(more) /\ h[i] = more[i - Len(g)]
  <2>1. /\ i \in 1..(Len(g) + Len(more)) /\ ~(i <= Len(g))
        /\ i - Len(g) \in 1..Len(more)
    BY <1>1
  <2> QED
    BY <1>1, <2>1
<1> QED
  BY <1>1, <1>2, <1>3, <1>4, <1>5

\* What is handed behind the last seq keeps the order.
LEMMA HandedInOrder ==
  ASSUME NEW g, NEW more, NEW h, NEW m \in Nat, NEW high \in Nat, Joins(g, more, h), m <= high,
         Orderly(g, m), NoGap(g), Climbs(more), Within(more, m, high)
  PROVE  Orderly(h, high) /\ NoGap(h) /\ Extended(g, h)
<1>1. /\ g \in Seq(Nat) /\ more \in Seq(Nat) /\ h \in Seq(Nat)
      /\ Len(g) \in Nat /\ Len(more) \in Nat /\ Len(h) = Len(g) + Len(more)
      /\ \A i \in 1..Len(g) : h[i] = g[i] /\ g[i] \in Nat
      /\ \A i \in 1..Len(more) : h[Len(g) + i] = more[i] /\ more[i] \in Nat
      /\ \A i \in (Len(g) + 1)..Len(h) : i - Len(g) \in 1..Len(more) /\ h[i] = more[i - Len(g)]
  BY JoinFacts
<1>2. \A i \in 1..Len(g) : g[i] <= m /\ g[i] # Gap
  BY DEF Orderly, NoGap
<1>3. \A i \in 1..Len(h) : i \in 1..Len(g) \/ i \in (Len(g) + 1)..Len(h)
  BY <1>1
<1>4. \A i \in (Len(g) + 1)..Len(h) : m < h[i] /\ h[i] <= high /\ h[i] \in Nat
  BY <1>1 DEF Within
<1>5. \A i \in 1..Len(h) : h[i] # Gap /\ h[i] <= high
  <2> SUFFICES ASSUME NEW i \in 1..Len(h) PROVE h[i] # Gap /\ h[i] <= high
    OBVIOUS
  <2>1. CASE i \in 1..Len(g)
    <3>1. h[i] \in Nat /\ h[i] <= m /\ h[i] # Gap
      BY <1>1, <1>2, <2>1
    <3> QED
      BY <3>1
  <2>2. CASE i \in (Len(g) + 1)..Len(h)
    BY <1>4, <2>2 DEF Gap
  <2> QED
    BY <1>3, <2>1, <2>2
<1>6. ASSUME NEW i \in 1..Len(h), NEW j \in 1..Len(h), i < j PROVE h[i] < h[j]
  <2>1. CASE j \in 1..Len(g)
    <3>1. i \in 1..Len(g)
      BY <1>6, <2>1
    <3> QED
      BY <1>1, <1>2, <1>6, <2>1, <3>1 DEF Orderly
  <2>2. CASE j \in (Len(g) + 1)..Len(h) /\ i \in 1..Len(g)
    <3>1. h[i] = g[i] /\ g[i] <= m /\ g[i] \in Nat /\ m < h[j] /\ h[j] \in Nat
      BY <1>1, <1>2, <1>4, <2>2
    <3> QED
      BY <3>1
  <2>3. CASE j \in (Len(g) + 1)..Len(h) /\ i \in (Len(g) + 1)..Len(h)
    <3>1. /\ i - Len(g) \in 1..Len(more) /\ h[i] = more[i - Len(g)]
          /\ j - Len(g) \in 1..Len(more) /\ h[j] = more[j - Len(g)]
      BY <1>1, <2>3
    <3>2. i - Len(g) < j - Len(g)
      BY <1>1, <1>6
    <3> QED
      BY <3>1, <3>2 DEF Climbs
  <2> QED
    BY <1>3, <2>1, <2>2, <2>3
<1>7. Extended(g, h)
  <2>1. \A i \in 1..Len(g) : h[i] \in Nat
    BY <1>1
  <2>2. PICK p : p = SubSeq(h, 1, Len(g))
    OBVIOUS
  <2>3. p \in Seq(Nat) /\ Len(p) = Len(g) /\ \A i \in 1..Len(g) : p[i] = h[i]
    BY <1>1, <2>1, <2>2, SubSeqProperties
  <2>4. p = g
    BY <1>1, <2>3, SeqEqual
  <2> QED
    BY <1>1, <2>2, <2>4 DEF Extended
<1> QED
  BY <1>5, <1>6, <1>7 DEF Orderly, NoGap

\* So does a gap, and it is the last.
LEMMA HandedGap ==
  ASSUME NEW g, NEW h, NEW m \in Nat, NEW high \in Nat, Joins(g, <<Gap>>, h), m <= high,
         Orderly(g, m), NoGap(g)
  PROVE  /\ Orderly(h, high) /\ Extended(g, h)
         /\ h # << >> /\ h[Len(h)] = Gap
<1>1. PICK more : more = <<Gap>>
  OBVIOUS
<1>2. Len(more) = 1 /\ more[1] = Gap
  BY <1>1
<1>3. Joins(g, more, h)
  BY <1>1
<1>4. /\ g \in Seq(Nat) /\ h \in Seq(Nat)
      /\ Len(g) \in Nat /\ Len(h) = Len(g) + Len(more)
      /\ \A i \in 1..Len(g) : h[i] = g[i] /\ g[i] \in Nat
      /\ \A i \in 1..Len(more) : h[Len(g) + i] = more[i]
  BY <1>3, JoinFacts
<1>5. h[Len(g) + 1] = Gap /\ Len(h) = Len(g) + 1
  BY <1>2, <1>4
<1>6. \A i \in 1..Len(h) : i \in 1..Len(g) \/ i = Len(h)
  BY <1>4, <1>5
<1>7. Orderly(h, high)
  <2>1. \A i \in 1..Len(h) : h[i] <= high /\ (h[i] = Gap => i = Len(h))
    <3> SUFFICES ASSUME NEW i \in 1..Len(h)
          PROVE  h[i] <= high /\ (h[i] = Gap => i = Len(h))
      OBVIOUS
    <3>1. CASE i \in 1..Len(g)
      <4>1. h[i] \in Nat /\ h[i] <= m /\ h[i] # Gap
        BY <1>4, <3>1 DEF Orderly, NoGap
      <4> QED
        BY <4>1
    <3>2. CASE i = Len(h)
      BY <1>4, <1>5, <3>2 DEF Gap
    <3> QED
      BY <1>6, <3>1, <3>2
  <2>2. ASSUME NEW i \in 1..Len(h), NEW j \in 1..Len(h), i < j, h[j] # Gap
        PROVE  h[i] < h[j]
    <3>1. j \in 1..Len(g)
      BY <1>5, <1>6, <2>2
    <3>2. i \in 1..Len(g)
      BY <1>4, <2>2, <3>1
    <3> QED
      BY <1>4, <2>2, <3>1, <3>2 DEF Orderly
  <2> QED
    BY <2>1, <2>2 DEF Orderly
<1>8. Extended(g, h)
  <2>1. PICK p : p = SubSeq(h, 1, Len(g))
    OBVIOUS
  <2>2. p \in Seq(Nat) /\ Len(p) = Len(g) /\ \A i \in 1..Len(g) : p[i] = h[i]
    BY <1>4, <2>1, SubSeqProperties
  <2>3. p = g
    BY <1>4, <2>2, SeqEqual
  <2> QED
    BY <1>4, <1>5, <2>1, <2>3 DEF Extended
<1>9. h # << >>
  BY <1>4, <1>5, EmptySeq
<1> QED
  BY <1>4, <1>5, <1>7, <1>8, <1>9

\* A run of seqs, item by item.
LEMMA RunFacts ==
  ASSUME NEW m \in Nat, NEW last \in Nat, m <= last
  PROVE  /\ Run(m + 1, last) \in Seq(Nat) /\ Len(Run(m + 1, last)) = last - m
         /\ Follows(Run(m + 1, last), m)
<1>1. (last + 1) - (m + 1) = last - m /\ last - m \in Nat
  OBVIOUS
<1>2. PICK n \in Nat : n = last - m
  BY <1>1
<1>3. \A i \in 1..n : (m + 1) + i - 1 = m + i /\ m + i \in Nat
  BY <1>2
<1>4. Run(m + 1, last) = [i \in 1..n |-> (m + 1) + i - 1]
  BY <1>1, <1>2 DEF Run
<1>5. PICK r : r = Run(m + 1, last)
  OBVIOUS
<1>6. r = [i \in 1..n |-> m + i]
  BY <1>3, <1>4, <1>5
<1>7. r \in Seq(Nat) /\ Len(r) = n /\ \A i \in 1..n : r[i] = m + i
  BY <1>3, <1>6
<1> QED
  BY <1>2, <1>5, <1>7 DEF Follows

\* Two lists of the seqs after the same one are equal if they are as long.
LEMMA FollowsIsRun ==
  ASSUME NEW items \in Seq(Nat), NEW m \in Nat, NEW last \in Nat, m <= last,
         Len(items) = last - m, Follows(items, m)
  PROVE  items = Run(m + 1, last)
<1>1. PICK r : r = Run(m + 1, last)
  OBVIOUS
<1>2. r \in Seq(Nat) /\ Len(r) = last - m /\ Follows(r, m)
  BY <1>1, RunFacts
<1>3. \A i \in 1..Len(items) : items[i] = r[i]
  BY <1>2 DEF Follows
<1> QED
  BY <1>1, <1>2, <1>3, SeqEqual

\* With no line lost, what is handed is what follows the last seq handed.
LEMMA HandedExactly ==
  ASSUME NEW g, NEW more, NEW h, NEW at \in Nat, NEW m \in Nat, NEW last \in Nat, NEW high \in Nat,
         Joins(g, more, h), EndsAt(g, at, m), m <= last, last <= high,
         Len(more) = last - m, Follows(more, m)
  PROVE  Grown(g, at, h, high) /\ EndsAt(h, at, last)
<1>1. /\ g \in Seq(Nat) /\ more \in Seq(Nat) /\ h \in Seq(Nat)
      /\ Len(g) \in Nat /\ Len(more) \in Nat /\ Len(h) = Len(g) + Len(more)
      /\ \A i \in 1..Len(g) : h[i] = g[i] /\ g[i] \in Nat
      /\ \A i \in 1..Len(more) : h[Len(g) + i] = more[i] /\ more[i] \in Nat
  BY JoinFacts
<1>2. /\ (IF g = << >> THEN at ELSE g[Len(g)]) = m
      /\ ~(g # << >> /\ g[Len(g)] = Gap)
  BY DEF EndsAt, Gap
<1>3. h = g \o Run(m + 1, last) \o << >>
  <2>1. more = Run(m + 1, last)
    BY <1>1, FollowsIsRun
  <2>2. h = g \o more
    BY DEF Joins
  <2>3. h \o << >> = h
    BY <1>1, ConcatEmptySeq
  <2> QED
    BY <2>1, <2>2, <2>3
<1>4. Grown(g, at, h, high)
  <2>1. last \in m..high
    OBVIOUS
  <2> QED
    BY <1>2, <1>3, <2>1 DEF Grown
<1>5. EndsAt(h, at, last)
  <2>1. CASE Len(more) = 0
    <3>1. h = g
      <4>1. more = << >>
        BY <1>1, <2>1, EmptySeq
      <4> QED
        BY <1>1, <4>1, ConcatEmptySeq DEF Joins
    <3>2. last = m
      BY <1>1, <2>1
    <3> QED
      BY <3>1, <3>2
  <2>2. CASE Len(more) # 0
    <3>1. h # << >> /\ Len(more) \in 1..Len(more)
      BY <1>1, <2>2, EmptySeq
    <3>2. h[Len(h)] = more[Len(more)] /\ more[Len(more)] = last
      <4>1. PICK k \in 1..Len(more) : k = Len(more)
        BY <3>1
      <4>2. h[Len(g) + k] = more[k] /\ more[k] = m + k
        BY <1>1 DEF Follows
      <4>3. Len(h) = Len(g) + k /\ m + k = last
        BY <1>1, <4>1
      <4> QED
        BY <4>1, <4>2, <4>3
    <3>3. 0 < last
      BY <1>1, <2>2
    <3> QED
      BY <3>1, <3>2, <3>3 DEF EndsAt
  <2> QED
    BY <2>1, <2>2
<1> QED
  BY <1>4, <1>5

\* Or a gap.
LEMMA HandedGapExactly ==
  ASSUME NEW g, NEW h, NEW at \in Nat, NEW m \in Nat, NEW high \in Nat,
         Joins(g, <<Gap>>, h), EndsAt(g, at, m), m <= high
  PROVE  Grown(g, at, h, high)
<1>1. /\ (IF g = << >> THEN at ELSE g[Len(g)]) = m
      /\ ~(g # << >> /\ g[Len(g)] = Gap)
  BY DEF EndsAt, Gap
<1>2. h = g \o Run(m + 1, m) \o <<Gap>>
  <2>1. PICK last, r : last = m /\ r = Run(m + 1, last)
    OBVIOUS
  <2>2. last \in Nat /\ m <= last
    BY <2>1
  <2>3. r \in Seq(Nat) /\ Len(r) = last - m
    BY <2>1, <2>2, RunFacts
  <2>4. Len(r) = 0
    BY <2>1, <2>3
  <2>5. r = << >>
    BY <2>3, <2>4, EmptySeq
  <2>6. g \o << >> = g
    BY ConcatEmptySeq DEF Joins
  <2> QED
    BY <2>1, <2>5, <2>6 DEF Joins
<1>3. m \in m..high
  OBVIOUS
<1> QED
  BY <1>1, <1>2, <1>3 DEF Grown

\* Nothing is handed.
LEMMA HandedNothing ==
  ASSUME NEW g, g \in Seq(Nat)
  PROVE  Extended(g, g) /\ \A at, high : Grown(g, at, g, high)
<1>1. Len(g) \in Nat /\ \A i \in 1..Len(g) : g[i] \in Nat
  BY LenProperties, ElementOfSeq
<1>2. PICK p : p = SubSeq(g, 1, Len(g))
  OBVIOUS
<1>3. p \in Seq(Nat) /\ Len(p) = Len(g) /\ \A i \in 1..Len(g) : p[i] = g[i]
  BY <1>1, <1>2, SubSeqProperties
<1>4. p = g
  BY <1>3, SeqEqual
<1> QED
  BY <1>1, <1>2, <1>4 DEF Extended, Grown

Kept(items, n) == {i \in DOMAIN items : items[i] > n}
Below(set, k) == Cardinality({j \in set : j < k})
NthOf(set, i) == CHOOSE k \in set : Below(set, k) = i - 1

\* The k-th member of an interval.
LEMMA NthOfInterval ==
  ASSUME NEW lo \in Int, NEW hi \in Int, lo <= hi + 1
  PROVE  /\ Cardinality(lo..hi) = hi + 1 - lo
         /\ \A i \in 1..(hi + 1 - lo) : NthOf(lo..hi, i) = lo + i - 1
<1>1. Cardinality(lo..hi) = hi + 1 - lo
  <2>1. Cardinality(lo..hi) = IF lo > hi THEN 0 ELSE hi - lo + 1
    BY FS_Interval
  <2> QED
    BY <2>1
<1>2. ASSUME NEW k \in lo..hi PROVE Below(lo..hi, k) = k - lo
  <2>1. {j \in lo..hi : j < k} = lo..(k - 1)
    OBVIOUS
  <2>2. PICK top : top = k - 1
    OBVIOUS
  <2>3. top \in Int /\ top + 1 - lo = k - lo
    BY <2>2
  <2>4. Cardinality(lo..top) = IF lo > top THEN 0 ELSE top - lo + 1
    BY <2>3, FS_Interval
  <2>5. Cardinality(lo..top) = k - lo
    BY <2>2, <2>3, <2>4
  <2> QED
    BY <2>1, <2>2, <2>5 DEF Below
<1>3. ASSUME NEW i \in 1..(hi + 1 - lo) PROVE NthOf(lo..hi, i) = lo + i - 1
  <2>1. PICK set : set = lo..hi
    OBVIOUS
  <2>2. PICK n : n = lo + i - 1
    OBVIOUS
  <2>3. n \in set /\ n - lo = i - 1 /\ n \in Int
    BY <2>1, <2>2
  <2>4. Below(set, n) = i - 1
    BY <1>2, <2>1, <2>3
  <2>5. ASSUME NEW k \in set, Below(set, k) = i - 1 PROVE k = n
    <3>1. k - lo = i - 1 /\ k \in Int
      BY <1>2, <2>1, <2>5
    <3> QED
      BY <2>2, <3>1
  <2>6. NthOf(set, i) = n
    BY <2>3, <2>4, <2>5 DEF NthOf
  <2> QED
    BY <2>1, <2>2, <2>6
<1> QED
  BY <1>1, <1>3

\* What a filter leaves of a rising list is the end of it.
LEMMA LaterIsEnd ==
  ASSUME NEW b \in Seq(Nat), NEW n \in Nat, Climbs(b)
  PROVE  \E m \in 1..(Len(b) + 1) :
           /\ Later(b, n) = [i \in 1..(Len(b) + 1 - m) |-> b[m + i - 1]]
           /\ \A i \in 1..(m - 1) : b[i] <= n
           /\ \A i \in m..Len(b) : n < b[i]
<1> DEFINE kept == Kept(b, n)
<1>1. Len(b) \in Nat /\ DOMAIN b = 1..Len(b) /\ \A i \in 1..Len(b) : b[i] \in Nat
  BY LenProperties, ElementOfSeq
<1>2. \E m \in 1..(Len(b) + 1) : kept = m..Len(b)
  <2>1. CASE kept = {}
    <3>1. kept = (Len(b) + 1)..Len(b) /\ Len(b) + 1 \in 1..(Len(b) + 1)
      BY <1>1, <2>1
    <3> QED
      BY <3>1
  <2>2. CASE kept # {}
    <3>1. kept \subseteq Nat
      BY <1>1 DEF Kept
    <3>2. PICK m \in kept : \A c \in kept : ~(<<c, m>> \in OpToRel(<, Nat))
      <4> HIDE DEF kept
      <4> QED
        BY <2>2, <3>1, NatLessThanWellFounded, WFMin
    <3>3. \A c \in kept : ~(c < m)
      BY <3>1, <3>2 DEF OpToRel
    <3>4. m \in 1..Len(b) /\ n < b[m]
      BY <1>1 DEF Kept
    <3>5. \A i \in m..Len(b) : i \in kept
      <4> SUFFICES ASSUME NEW i \in m..Len(b) PROVE n < b[i]
        BY <1>1, <3>4 DEF Kept
      <4>1. i = m \/ b[m] < b[i]
        BY <1>1, <3>4 DEF Climbs
      <4>2. i \in 1..Len(b) /\ b[i] \in Nat /\ b[m] \in Nat
        BY <1>1, <3>4
      <4> QED
        BY <3>4, <4>1, <4>2
    <3>6. \A i \in kept : i \in m..Len(b)
      BY <1>1, <3>3, <3>4 DEF Kept
    <3>7. kept = m..Len(b)
      BY <3>5, <3>6
    <3> QED
      BY <1>1, <3>4, <3>7
  <2> QED
    BY <2>1, <2>2
<1>3. PICK m \in 1..(Len(b) + 1) : kept = m..Len(b)
  BY <1>2
<1>4. PICK hi : hi = Len(b)
  OBVIOUS
<1>5. PICK set : set = kept
  OBVIOUS
<1>6. hi \in Int /\ m \in Int /\ m <= hi + 1
  BY <1>1, <1>4
<1>7. Later(b, n) = [i \in 1..Cardinality(set) |-> b[NthOf(set, i)]]
  BY <1>5 DEF Later, Kept, NthOf, Below
<1> HIDE DEF kept
<1>8. set = m..hi
  BY <1>3, <1>4, <1>5
<1>9. /\ Cardinality(set) = hi + 1 - m
      /\ \A i \in 1..(hi + 1 - m) : NthOf(set, i) = m + i - 1
  BY <1>6, <1>8, NthOfInterval
<1>10. Later(b, n) = [i \in 1..(hi + 1 - m) |-> b[m + i - 1]]
  BY <1>7, <1>9
<1>11. Later(b, n) = [i \in 1..(Len(b) + 1 - m) |-> b[m + i - 1]]
  BY <1>4, <1>10
<1>12. \A i \in 1..Len(b) : i \in kept <=> n < b[i]
  BY <1>1 DEF kept, Kept
<1>13. \A i \in 1..(m - 1) : b[i] <= n
  BY <1>1, <1>3, <1>12
<1>14. \A i \in m..Len(b) : n < b[i]
  BY <1>1, <1>3, <1>12
<1> QED
  BY <1>11, <1>13, <1>14

\* So it rises, and is what follows the position.
LEMMA LaterClimbs ==
  ASSUME NEW b \in Seq(Nat), NEW n \in Nat, NEW high \in Nat, Climbs(b), Within(b, 0, high)
  PROVE  /\ Later(b, n) \in Seq(Nat) /\ Climbs(Later(b, n)) /\ Within(Later(b, n), n, high)
<1>1. PICK m \in 1..(Len(b) + 1) :
        /\ Later(b, n) = [i \in 1..(Len(b) + 1 - m) |-> b[m + i - 1]]
        /\ \A i \in 1..(m - 1) : b[i] <= n
        /\ \A i \in m..Len(b) : n < b[i]
  BY LaterIsEnd
<1>2. Len(b) \in Nat /\ \A i \in 1..Len(b) : b[i] \in Nat /\ b[i] <= high
  BY LenProperties, ElementOfSeq DEF Within
<1>3. PICK r, w : r = Later(b, n) /\ w = Len(b) + 1 - m
  OBVIOUS
<1>4. \A i \in 1..w : m + i - 1 \in m..Len(b) /\ m + i - 1 \in 1..Len(b) /\ w \in Nat
  BY <1>2, <1>3
<1>5. r \in Seq(Nat) /\ Len(r) = w /\ \A i \in 1..w : r[i] = b[m + i - 1]
  <2>1. w \in Nat
    BY <1>2, <1>3
  <2> QED
    BY <1>1, <1>2, <1>3, <1>4, <2>1
<1>6. Climbs(r)
  <2> SUFFICES ASSUME NEW i \in 1..w, NEW j \in 1..w, i < j PROVE r[i] < r[j]
    BY <1>5 DEF Climbs
  <2>1. m + i - 1 < m + j - 1
    BY <1>4
  <2> QED
    BY <1>4, <1>5, <2>1 DEF Climbs
<1>7. Within(r, n, high)
  BY <1>1, <1>2, <1>4, <1>5 DEF Within
<1> QED
  BY <1>3, <1>5, <1>6, <1>7

\* And of a list that ends with the last seq it leaves every seq after the
\* position.
LEMMA LaterFollows ==
  ASSUME NEW b \in Seq(Nat), NEW n \in Nat, NEW low \in Nat, NEW high \in Nat, Follows(b, low),
         high = low + Len(b), low <= n, n <= high
  PROVE  /\ Later(b, n) \in Seq(Nat) /\ Len(Later(b, n)) = high - n
         /\ Follows(Later(b, n), n)
<1>1. Len(b) \in Nat /\ \A i \in 1..Len(b) : b[i] = low + i
  BY LenProperties DEF Follows
<1>2. Climbs(b)
  BY <1>1 DEF Climbs
<1>3. PICK m \in 1..(Len(b) + 1) :
        /\ Later(b, n) = [i \in 1..(Len(b) + 1 - m) |-> b[m + i - 1]]
        /\ \A i \in 1..(m - 1) : b[i] <= n
        /\ \A i \in m..Len(b) : n < b[i]
  BY <1>2, LaterIsEnd
<1>4. m = n - low + 1
  <2>1. CASE m < n - low + 1
    <3>1. m \in m..Len(b) /\ m \in 1..Len(b)
      BY <1>1, <2>1
    <3> QED
      BY SMTT(30), <1>1, <1>3, <2>1, <3>1
  <2>2. CASE m > n - low + 1
    <3>1. n - low + 1 \in 1..(m - 1) /\ n - low + 1 \in 1..Len(b)
      BY <1>1, <2>2
    <3>2. b[n - low + 1] = low + (n - low + 1)
      BY <1>1, <3>1
    <3> QED
      BY <1>3, <3>1, <3>2
  <2> QED
    BY <1>1, <2>1, <2>2
<1>5. PICK r, w : r = Later(b, n) /\ w = high - n
  OBVIOUS
<1>6. w \in Nat /\ Len(b) + 1 - m = w
  BY <1>1, <1>4, <1>5
<1>7. \A i \in 1..w : m + i - 1 \in 1..Len(b) /\ low + (m + i - 1) = n + i
  BY <1>1, <1>4, <1>6
<1>8. r = [i \in 1..w |-> n + i]
  BY <1>1, <1>3, <1>5, <1>6, <1>7
<1>9. r \in Seq(Nat) /\ Len(r) = w /\ \A i \in 1..w : r[i] = n + i
  BY <1>6, <1>8
<1> QED
  BY <1>5, <1>9 DEF Follows

---------------------------------------------------------------------------
(* One connection. *)

Replays(c) == c.mode \in {"awaiting", "reading"}
IsTold(items) == items # << >> /\ items[Len(items)] = Gap

\* In any run: what it was handed is in order, and a replay has handed what
\* its watermark says and keeps what it buffers in order.
Holds(c, items, at, last) ==
  /\ Orderly(items, last)
  /\ Replays(c) => /\ EndsAt(items, at, c.through)
                   /\ c.through <= last
                   /\ Climbs(c.buffered)
                   /\ Within(c.buffered, 0, last)

\* With no line lost, of a file of `lines` lines: a replay has buffered all that
\* the lines it awaits, or will read, do not have; it has read the lines up to
\* its watermark; and who is live has everything, or was told of a gap.
CaughtUp(c, items, at, last, lines) ==
  LET missed == last - Len(c.buffered) IN
    /\ Replays(c) => 0 <= missed /\ Follows(c.buffered, missed)
    /\ c.mode = "awaiting" => /\ c.line = 0 /\ c.through = at
                              /\ missed = c.upto \/ missed <= lines
    /\ c.mode = "reading" => /\ missed <= c.upto /\ c.upto <= lines /\ c.line <= lines
                             /\ c.through = IF c.line > at THEN c.line ELSE at
    /\ c.mode = "live" => EndsAt(items, at, last) \/ IsTold(items)

\* What was handed has no seq beyond the last of it.
LEMMA EndIsHighest ==
  ASSUME NEW g \in Seq(Nat), NEW at, NEW m \in Nat, NEW high, Orderly(g, high), EndsAt(g, at, m)
  PROVE  Orderly(g, m) /\ NoGap(g)
<1>1. Len(g) \in Nat /\ \A i \in 1..Len(g) : g[i] \in Nat
  BY LenProperties, ElementOfSeq
<1>2. CASE g = << >>
  <2>1. Len(g) = 0
    BY <1>2
  <2> QED
    BY <2>1 DEF Orderly, NoGap
<1>3. CASE g # << >>
  <2>1. Len(g) \in 1..Len(g) /\ g[Len(g)] = m /\ 0 < m
    <3>1. Len(g) # 0
      BY <1>3, EmptySeq
    <3> QED
      BY <1>1, <1>3, <3>1 DEF EndsAt
  <2>2. ASSUME NEW i \in 1..Len(g) PROVE g[i] <= m /\ g[i] # Gap
    <3>1. CASE i = Len(g)
      BY <1>1, <2>1, <3>1 DEF Gap
    <3>2. CASE i # Len(g)
      <4>1. i < Len(g) /\ g[i] # Gap
        BY <1>1, <3>2 DEF Orderly
      <4>2. g[Len(g)] # Gap
        BY <2>1 DEF Gap
      <4>3. g[i] < g[Len(g)]
        BY <2>1, <4>1, <4>2 DEF Orderly
      <4> QED
        BY <1>1, <2>1, <4>1, <4>3
    <3> QED
      BY <3>1, <3>2
  <2> QED
    BY <2>2 DEF Orderly, NoGap
<1> QED
  BY <1>2, <1>3

\* Nor has what was handed to one who was told of no gap a gap.
LEMMA NotTold ==
  ASSUME NEW g \in Seq(Nat), NEW high, Orderly(g, high), ~IsTold(g)
  PROVE  NoGap(g)
<1>1. Len(g) \in Nat
  BY LenProperties
<1>2. ASSUME NEW i \in 1..Len(g), g[i] = Gap PROVE FALSE
  <2>1. i = Len(g)
    BY <1>2 DEF Orderly
  <2>2. g # << >>
    BY <1>1, <1>2, EmptySeq
  <2> QED
    BY <1>2, <2>1, <2>2 DEF IsTold
<1> QED
  BY <1>2 DEF NoGap

\* Handed adds to the end, or, after a gap, nothing.
LEMMA HandedJoins ==
  ASSUME NEW g \in Seq(Nat), NEW more \in Seq(Nat)
  PROVE  /\ Handed(g, more) \in Seq(Nat)
         /\ IsTold(g) => Handed(g, more) = g
         /\ ~IsTold(g) => Joins(g, more, Handed(g, more))
<1>1. g \o more \in Seq(Nat)
  BY ConcatProperties
<1> QED
  BY <1>1 DEF Handed, IsTold, Joins

\* Later seqs of the session leave the order as it is.
LEMMA OrderlyStays ==
  ASSUME NEW g \in Seq(Nat), NEW n \in Nat, NEW high \in Nat, n <= high, Orderly(g, n)
  PROVE  Orderly(g, high)
<1>1. Len(g) \in Nat /\ \A i \in 1..Len(g) : g[i] \in Nat
  BY LenProperties, ElementOfSeq
<1>2. \A i \in 1..Len(g) : g[i] <= high
  BY <1>1 DEF Orderly
<1> QED
  BY <1>2 DEF Orderly

\* A gap after what was handed, and nothing behind it.
LEMMA GapHanded ==
  ASSUME NEW g \in Seq(Nat), NEW more \in Seq(Nat), NEW h, NEW at \in Nat, NEW m \in Nat,
         NEW high \in Nat,
         h = Handed(Handed(g, <<Gap>>), more), m <= high, Orderly(g, high), EndsAt(g, at, m)
  PROVE  /\ h = Handed(g, <<Gap>>) /\ h \in Seq(Nat) /\ IsTold(h)
         /\ Orderly(h, high) /\ Extended(g, h) /\ Grown(g, at, h, high)
<1>1. Orderly(g, m) /\ NoGap(g)
  BY EndIsHighest
<1>2. ~IsTold(g)
  BY DEF EndsAt, IsTold, Gap
<1>3. PICK gap : gap = <<Gap>>
  OBVIOUS
<1>4. gap \in Seq(Nat)
  BY <1>3 DEF Gap
<1>5. PICK k : k = Handed(g, gap)
  OBVIOUS
<1>6. k \in Seq(Nat) /\ Joins(g, gap, k)
  BY <1>2, <1>4, <1>5, HandedJoins
<1>7. Joins(g, <<Gap>>, k)
  BY <1>3, <1>6
<1>8. Orderly(k, high) /\ Extended(g, k) /\ k # << >> /\ k[Len(k)] = Gap
  BY <1>1, <1>7, HandedGap
<1>9. Grown(g, at, k, high)
  BY <1>7, HandedGapExactly
<1>10. IsTold(k)
  BY <1>8 DEF IsTold
<1>11. Handed(k, more) = k
  BY <1>6, <1>10, HandedJoins
<1>12. h = k
  BY <1>3, <1>5, <1>11
<1> QED
  BY <1>3, <1>5, <1>6, <1>8, <1>9, <1>10, <1>12

\* A connection's fields, and those of a closed or a live one.
LEMMA ConnectionFields ==
  /\ \A c \in Connections :
       /\ c.mode \in Modes /\ c.upto \in Nat /\ c.line \in Nat /\ c.through \in Nat
       /\ c.buffered \in Seq(Nat) /\ Len(c.buffered) \in Nat
  /\ Off \in Connections /\ Live \in Connections
  /\ Off.mode = "off" /\ Live.mode = "live"
  /\ ~Replays(Off) /\ ~Replays(Live)
<1>1. \A c \in Connections :
       /\ c.mode \in Modes /\ c.upto \in Nat /\ c.line \in Nat /\ c.through \in Nat
       /\ c.buffered \in Seq(Nat)
  BY DEF Connections
<1>2. << >> \in Seq(Nat) /\ "off" \in Modes /\ "live" \in Modes /\ 0 \in Nat
  BY DEF Modes
<1>3. Off \in Connections /\ Off.mode = "off"
  BY <1>2 DEF Connections, Off
<1>4. Live = [mode |-> "live", upto |-> 0, buffered |-> << >>, line |-> 0, through |-> 0]
  BY DEF Live, Off
<1>5. Live \in Connections /\ Live.mode = "live"
  BY <1>2, <1>4 DEF Connections
<1>6. \A c \in Connections : Len(c.buffered) \in Nat
  BY <1>1, LenProperties
<1> QED
  BY <1>1, <1>3, <1>5, <1>6 DEF Replays

Grows(items, n, more) == more = Append(items, n + 1)

\* One seq more than a rising list that ends where the session does.
LEMMA BufferedMore ==
  ASSUME NEW b \in Seq(Nat), NEW n \in Nat, NEW more, Grows(b, n, more)
  PROVE  /\ more \in Seq(Nat) /\ Len(more) = Len(b) + 1
         /\ Climbs(b) /\ Within(b, 0, n) => Climbs(more) /\ Within(more, 0, n + 1)
         /\ \A low \in Nat : Follows(b, low) /\ low + Len(b) = n => Follows(more, low)
<1>1. Len(b) \in Nat /\ \A i \in 1..Len(b) : b[i] \in Nat
  BY LenProperties, ElementOfSeq
<1>2. /\ more \in Seq(Nat) /\ Len(more) = Len(b) + 1
      /\ \A i \in 1..Len(b) : more[i] = b[i]
      /\ more[Len(b) + 1] = n + 1
  BY <1>1, AppendProperties DEF Grows
<1>3. \A i \in 1..Len(more) : i \in 1..Len(b) \/ i = Len(b) + 1
  BY <1>1, <1>2
<1>4. ASSUME Climbs(b), Within(b, 0, n) PROVE Climbs(more) /\ Within(more, 0, n + 1)
  <2>1. \A i \in 1..Len(b) : 0 < b[i] /\ b[i] <= n
    BY <1>4 DEF Within
  <2>2. \A i \in 1..Len(more) : 0 < more[i] /\ more[i] <= n + 1
    <3> SUFFICES ASSUME NEW i \in 1..Len(more) PROVE 0 < more[i] /\ more[i] <= n + 1
      OBVIOUS
    <3>1. CASE i \in 1..Len(b)
      <4>1. more[i] = b[i] /\ b[i] \in Nat /\ 0 < b[i] /\ b[i] <= n
        BY <1>1, <1>2, <2>1, <3>1
      <4> QED
        BY <4>1
    <3>2. CASE i = Len(b) + 1
      BY <1>2, <3>2
    <3> QED
      BY <1>3, <3>1, <3>2
  <2>3. ASSUME NEW i \in 1..Len(more), NEW j \in 1..Len(more), i < j PROVE more[i] < more[j]
    <3>1. i \in 1..Len(b)
      BY <1>1, <1>2, <2>3
    <3>2. CASE j \in 1..Len(b)
      BY <1>2, <1>4, <2>3, <3>1, <3>2 DEF Climbs
    <3>3. CASE j = Len(b) + 1
      BY SMTT(30), <1>1, <1>2, <2>1, <3>1, <3>3
    <3> QED
      BY <1>3, <3>2, <3>3
  <2> QED
    BY <2>2, <2>3 DEF Climbs, Within
<1>5. ASSUME NEW low \in Nat, Follows(b, low), low + Len(b) = n PROVE Follows(more, low)
  <2> SUFFICES ASSUME NEW i \in 1..Len(more) PROVE more[i] = low + i
    BY DEF Follows
  <2>1. CASE i \in 1..Len(b)
    BY <1>2, <1>5, <2>1 DEF Follows
  <2>2. CASE i = Len(b) + 1
    <3>1. low + i = n + 1
      BY <1>1, <1>5, <2>2
    <3> QED
      BY <1>2, <2>2, <3>1
  <2> QED
    BY <1>3, <2>1, <2>2
<1> QED
  BY <1>2, <1>4, <1>5

\* One live envelope is handed to who has the one before it.
LEMMA NextHanded ==
  ASSUME NEW g \in Seq(Nat), NEW at \in Nat, NEW m \in Nat, NEW n \in Nat, NEW high \in Nat,
         NEW h, h = Handed(g, <<n>>), m < n, n <= high, Orderly(g, m), NoGap(g), ~IsTold(g)
  PROVE  /\ h \in Seq(Nat) /\ Orderly(h, high) /\ Extended(g, h)
         /\ EndsAt(g, at, m) /\ n = m + 1 => Grown(g, at, h, high) /\ EndsAt(h, at, n)
         /\ EndsAt(h, at, n)
<1>1. PICK more : more = <<n>>
  OBVIOUS
<1>2. more \in Seq(Nat) /\ Len(more) = 1 /\ more[1] = n
  BY <1>1
<1>3. h \in Seq(Nat) /\ Joins(g, more, h)
  <2>1. h = Handed(g, more)
    BY <1>1
  <2> QED
    BY <1>2, <2>1, HandedJoins
<1>4. Climbs(more) /\ Within(more, m, high)
  BY <1>2 DEF Climbs, Within
<1>5. Orderly(h, high) /\ Extended(g, h)
  <2>1. m <= high
    OBVIOUS
  <2> QED
    BY <1>3, <1>4, <2>1, HandedInOrder
<1>6. ASSUME EndsAt(g, at, m), n = m + 1 PROVE Grown(g, at, h, high)
  <2>1. Follows(more, m) /\ Len(more) = n - m /\ m <= n
    BY <1>2, <1>6 DEF Follows
  <2> QED
    BY <1>3, <1>6, <2>1, HandedExactly
<1>7. EndsAt(h, at, n)
  <2>1. Len(g) \in Nat /\ Len(h) = Len(g) + 1 /\ h[Len(g) + 1] = n
    <3>1. Joins(g, more, h)
      BY <1>3
    <3>2. Len(g) \in Nat /\ Len(h) = Len(g) + Len(more)
      BY <3>1, JoinFacts
    <3>3. \A i \in 1..Len(more) : h[Len(g) + i] = more[i]
      BY SMTT(30), <3>1, JoinFacts
    <3>4. 1 \in 1..Len(more)
      BY <1>2
    <3>5. h[Len(g) + 1] = more[1]
      BY <3>3, <3>4
    <3> QED
      BY <1>2, <3>2, <3>5
  <2>2. h # << >>
    BY <1>3, <2>1, EmptySeq
  <2> QED
    BY <2>1, <2>2 DEF EndsAt
<1> QED
  BY <1>3, <1>5, <1>6, <1>7

\* deliver: a live subscriber is handed the envelope, a replay buffers it, and
\* one whose buffer is full is handed a gap and dropped.
LEMMA OneMore ==
  ASSUME NEW c \in Connections, NEW g \in Seq(Nat), NEW at \in Nat, NEW n \in Nat,
         NEW d, NEW h, d = Delivered(c, n + 1), h = HandedLive(c, g, n + 1),
         Holds(c, g, at, n)
  PROVE  /\ d \in Connections /\ h \in Seq(Nat) /\ Holds(d, h, at, n + 1) /\ Extended(g, h)
         /\ c.mode = "off" => d.mode = "off" /\ h = g
         /\ \A lines \in Nat : CaughtUp(c, g, at, n, lines) =>
              CaughtUp(d, h, at, n + 1, lines) /\ Grown(g, at, h, n + 1)
<1>1. /\ c.mode \in Modes /\ c.upto \in Nat /\ c.line \in Nat /\ c.through \in Nat
      /\ c.buffered \in Seq(Nat) /\ Len(c.buffered) \in Nat
  BY ConnectionFields
<1>2. n <= n + 1 /\ n + 1 \in Nat /\ n < n + 1
  OBVIOUS
<1>3. Orderly(g, n) /\ Orderly(g, n + 1)
  BY <1>2, OrderlyStays DEF Holds
<1>4. Extended(g, g) /\ Grown(g, at, g, n + 1)
  BY HandedNothing
<1>5. CASE c.mode \in {"off", "dropped"}
  <2>1. d = c /\ h = g
    BY <1>5 DEF Delivered, HandedLive
  <2>2. Holds(d, h, at, n + 1)
    BY <1>3, <1>5, <2>1 DEF Holds, Replays
  <2>3. \A lines \in Nat : CaughtUp(d, h, at, n + 1, lines)
    BY <1>5, <2>1 DEF CaughtUp, Replays
  <2> QED
    BY <1>4, <2>1, <2>2, <2>3
<1>6. CASE c.mode = "live"
  <2>1. d = c /\ h = Handed(g, <<n + 1>>)
    BY <1>6 DEF Delivered, HandedLive
  <2>2. CASE IsTold(g)
    <3>1. h = g
      BY <2>1, <2>2 DEF Handed, IsTold
    <3>2. Holds(d, h, at, n + 1)
      BY <1>3, <1>6, <2>1, <3>1 DEF Holds, Replays
    <3>3. \A lines \in Nat : CaughtUp(d, h, at, n + 1, lines)
      BY <1>6, <2>1, <2>2, <3>1 DEF CaughtUp, Replays
    <3> QED
      BY <1>4, <1>6, <2>1, <3>1, <3>2, <3>3
  <2>3. CASE ~IsTold(g)
    <3>1. NoGap(g)
      BY <1>3, <2>3, NotTold
    <3>2. PICK e : e = n + 1
      OBVIOUS
    <3>3. /\ h \in Seq(Nat) /\ Orderly(h, e) /\ Extended(g, h)
          /\ EndsAt(g, at, n) => Grown(g, at, h, e) /\ EndsAt(h, at, e)
      <4>1. e \in Nat /\ n < e /\ e <= e /\ e = n + 1 /\ h = Handed(g, <<e>>)
        BY <2>1, <3>2
      <4> QED
        BY <1>3, <2>3, <3>1, <4>1, NextHanded
    <3>4. Holds(d, h, at, n + 1)
      BY <1>6, <2>1, <3>2, <3>3 DEF Holds, Replays
    <3>5. ASSUME NEW lines \in Nat, CaughtUp(c, g, at, n, lines)
          PROVE  CaughtUp(d, h, at, n + 1, lines) /\ Grown(g, at, h, n + 1)
      <4>1. EndsAt(g, at, n)
        BY <1>6, <2>3, <3>5 DEF CaughtUp
      <4> QED
        BY <1>6, <2>1, <3>2, <3>3, <4>1 DEF CaughtUp, Replays
    <3> QED
      BY <1>6, <2>1, <3>2, <3>3, <3>4, <3>5
  <2> QED
    BY <2>2, <2>3
<1>7. CASE Replays(c) /\ Len(c.buffered) < HighWater
  <2>1. h = g /\ d = [c EXCEPT !.buffered = Append(@, n + 1)]
    <3>1. HighWater \in Nat
      BY LogAssumption
    <3>2. c.mode \in {"awaiting", "reading"} /\ c.mode # "live" /\ ~(Len(c.buffered) >= HighWater)
      BY <1>1, <1>7, <3>1 DEF Replays
    <3>3. h = g
      BY <3>2 DEF HandedLive
    <3>4. d = [c EXCEPT !.buffered = Append(@, n + 1)]
      BY <1>7, <3>2 DEF Delivered
    <3> QED
      BY <3>3, <3>4
  <2>2. PICK b, more : b = c.buffered /\ more = Append(b, n + 1) /\ Grows(b, n, more)
    BY DEF Grows
  <2>3. /\ d.mode = c.mode /\ d.upto = c.upto /\ d.line = c.line /\ d.through = c.through
        /\ d.buffered = more
    BY <2>1, <2>2 DEF Connections
  <2>4. b \in Seq(Nat) /\ Len(b) \in Nat /\ Climbs(b) /\ Within(b, 0, n)
    BY <1>1, <1>7, <2>2 DEF Holds
  <2>5. /\ more \in Seq(Nat) /\ Len(more) = Len(b) + 1 /\ Climbs(more) /\ Within(more, 0, n + 1)
    BY <2>2, <2>4, BufferedMore
  <2>6. d \in Connections
    BY <2>1, <2>2, <2>5 DEF Connections
  <2>7. Holds(d, h, at, n + 1)
    BY <1>1, <1>3, <1>7, <2>1, <2>3, <2>5 DEF Holds, Replays
  <2>8. ASSUME NEW lines \in Nat, CaughtUp(c, g, at, n, lines)
        PROVE  CaughtUp(d, h, at, n + 1, lines)
    <3>1. PICK missed : missed = n - Len(b)
      OBVIOUS
    <3>2. 0 <= missed /\ Follows(b, missed)
      BY <1>7, <2>2, <2>8, <3>1 DEF CaughtUp
    <3>3. missed \in Nat /\ missed + Len(b) = n /\ (n + 1) - Len(more) = missed
      BY <2>4, <2>5, <3>1, <3>2
    <3>4. Follows(more, missed)
      <4>1. \A low \in Nat : Follows(b, low) /\ low + Len(b) = n => Follows(more, low)
        BY <2>2, <2>4, BufferedMore
      <4> QED
        BY <3>2, <3>3, <4>1
    <3>5. /\ c.mode = "awaiting" => /\ c.line = 0 /\ c.through = at
                                    /\ missed = c.upto \/ missed <= lines
          /\ c.mode = "reading" => /\ missed <= c.upto /\ c.upto <= lines /\ c.line <= lines
                                   /\ c.through = IF c.line > at THEN c.line ELSE at
      BY <2>2, <2>8, <3>1 DEF CaughtUp
    <3>6. c.mode # "live"
      BY <1>7 DEF Replays
    <3> QED
      BY <2>3, <3>2, <3>3, <3>4, <3>5, <3>6 DEF CaughtUp
  <2>9. d.mode # "off" /\ c.mode # "off"
    BY <1>7, <2>3 DEF Replays
  <2> QED
    BY <1>4, <2>1, <2>6, <2>7, <2>8, <2>9
<1>8. CASE Replays(c) /\ ~(Len(c.buffered) < HighWater)
  <2>1. HighWater \in Nat
    BY LogAssumption
  <2>2. h = Handed(g, <<Gap>>) /\ d = [c EXCEPT !.mode = "dropped"]
    BY <1>1, <1>8, <2>1 DEF Delivered, HandedLive, Replays
  <2>3. d.mode = "dropped" /\ d \in Connections
    BY <2>2 DEF Connections, Modes
  <2>4. EndsAt(g, at, c.through) /\ c.through <= n
    BY <1>8 DEF Holds
  <2>5. PICK k : k = Handed(Handed(g, <<Gap>>), << >>)
    OBVIOUS
  <2>6. /\ k = h /\ h \in Seq(Nat) /\ Orderly(h, n + 1) /\ Extended(g, h)
        /\ Grown(g, at, h, n + 1)
    <3>1. PICK e, t, more : e = n + 1 /\ t = c.through /\ more = << >>
      OBVIOUS
    <3>2. /\ e \in Nat /\ t \in Nat /\ t <= e /\ Orderly(g, e) /\ EndsAt(g, at, t)
          /\ more \in Seq(Nat) /\ k = Handed(Handed(g, <<Gap>>), more)
      BY <1>1, <1>3, <2>4, <2>5, <3>1
    <3>3. /\ k = Handed(g, <<Gap>>) /\ k \in Seq(Nat)
          /\ Orderly(k, e) /\ Extended(g, k) /\ Grown(g, at, k, e)
      BY ZenonT(60), <3>2, GapHanded
    <3> QED
      BY <2>2, <3>1, <3>3
  <2>7. Holds(d, h, at, n + 1)
    BY <2>3, <2>6 DEF Holds, Replays
  <2>8. \A lines \in Nat : CaughtUp(d, h, at, n + 1, lines)
    BY <2>3 DEF CaughtUp, Replays
  <2>9. c.mode # "off"
    BY <1>8 DEF Replays
  <2> QED
    BY <2>3, <2>6, <2>7, <2>8, <2>9
<1> QED
  BY <1>1, <1>5, <1>6, <1>7, <1>8 DEF Modes, Replays

\* A replay that ends in a gap: what was buffered is not handed behind it.
LEMMA ReplayGivesUp ==
  ASSUME NEW c \in Connections, NEW g \in Seq(Nat), NEW at \in Nat, NEW n \in Nat, NEW h,
         h = Handed(Handed(g, <<Gap>>), Later(c.buffered, c.through)),
         Replays(c), Holds(c, g, at, n)
  PROVE  /\ h \in Seq(Nat) /\ Holds(Live, h, at, n) /\ Extended(g, h) /\ Grown(g, at, h, n)
         /\ \A lines : CaughtUp(Live, h, at, n, lines)
<1>1. /\ c.through \in Nat /\ c.buffered \in Seq(Nat)
  BY ConnectionFields
<1>2. /\ Orderly(g, n) /\ EndsAt(g, at, c.through) /\ c.through <= n
      /\ Climbs(c.buffered) /\ Within(c.buffered, 0, n)
  BY DEF Holds
<1>3. PICK b, t, more : b = c.buffered /\ t = c.through /\ more = Later(b, t)
  OBVIOUS
<1>4. more \in Seq(Nat)
  BY <1>1, <1>2, <1>3, LaterClimbs
<1>5. h = Handed(Handed(g, <<Gap>>), more)
  BY <1>3
<1>6. t \in Nat /\ t <= n /\ EndsAt(g, at, t)
  BY <1>1, <1>2, <1>3
<1>7. /\ h \in Seq(Nat) /\ IsTold(h)
      /\ Orderly(h, n) /\ Extended(g, h) /\ Grown(g, at, h, n)
  BY <1>2, <1>4, <1>5, <1>6, GapHanded
<1>8. Holds(Live, h, at, n)
  BY <1>7, ConnectionFields DEF Holds
<1>9. \A lines : CaughtUp(Live, h, at, n, lines)
  BY <1>7, ConnectionFields DEF CaughtUp
<1> QED
  BY <1>7, <1>8, <1>9

\* A replay that has read what the file had: what was buffered behind its
\* watermark is handed, and, with no line lost, that is all there is.
LEMMA ReplayFlushes ==
  ASSUME NEW c \in Connections, NEW g \in Seq(Nat), NEW at \in Nat, NEW n \in Nat, NEW h,
         h = Handed(Handed(g, << >>), Later(c.buffered, c.through)),
         c.mode = "reading", c.line >= c.upto, Holds(c, g, at, n)
  PROVE  /\ h \in Seq(Nat) /\ Holds(Live, h, at, n) /\ Extended(g, h)
         /\ \A lines \in Nat : CaughtUp(c, g, at, n, lines) =>
              Grown(g, at, h, n) /\ CaughtUp(Live, h, at, n, lines)
<1>1. /\ c.through \in Nat /\ c.buffered \in Seq(Nat) /\ c.line \in Nat /\ c.upto \in Nat
      /\ Len(c.buffered) \in Nat
  BY ConnectionFields
<1>2. /\ Orderly(g, n) /\ EndsAt(g, at, c.through) /\ c.through <= n
      /\ Climbs(c.buffered) /\ Within(c.buffered, 0, n)
  BY DEF Holds, Replays
<1>3. PICK b, t, more : b = c.buffered /\ t = c.through /\ more = Later(b, t)
  OBVIOUS
<1>4. /\ b \in Seq(Nat) /\ t \in Nat /\ t <= n /\ EndsAt(g, at, t)
      /\ Climbs(b) /\ Within(b, 0, n) /\ Len(b) \in Nat
  BY <1>1, <1>2, <1>3
<1>5. more \in Seq(Nat) /\ Climbs(more) /\ Within(more, t, n)
  BY <1>3, <1>4, LaterClimbs
<1>6. Orderly(g, t) /\ NoGap(g)
  BY <1>2, <1>4, EndIsHighest
<1>7. ~IsTold(g)
  BY <1>4 DEF EndsAt, IsTold, Gap
<1>8. Handed(g, << >>) = g
  <2>1. g \o << >> = g
    BY ConcatEmptySeq
  <2> QED
    BY <1>7, <2>1 DEF Handed, IsTold
<1>9. h \in Seq(Nat) /\ Joins(g, more, h)
  <2>1. h = Handed(g, more)
    BY <1>3, <1>8
  <2> QED
    BY <1>5, <1>7, <2>1, HandedJoins
<1>10. Orderly(h, n) /\ Extended(g, h)
  BY <1>4, <1>5, <1>6, <1>9, HandedInOrder
<1>11. Holds(Live, h, at, n)
  BY <1>10, ConnectionFields DEF Holds
<1>12. ASSUME NEW lines \in Nat, CaughtUp(c, g, at, n, lines)
       PROVE  Grown(g, at, h, n) /\ CaughtUp(Live, h, at, n, lines)
  <2>1. PICK missed : missed = n - Len(b)
    OBVIOUS
  <2>2. /\ 0 <= missed /\ Follows(b, missed) /\ missed <= c.upto /\ c.line <= lines
        /\ c.through = IF c.line > at THEN c.line ELSE at
    BY <1>3, <1>12, <2>1 DEF CaughtUp, Replays
  <2>3. missed \in Nat /\ n = missed + Len(b)
    BY <1>4, <2>1, <2>2
  <2>4. missed <= t
    BY <1>1, <1>3, <2>2, <2>3
  <2>5. Len(more) = n - t /\ Follows(more, t)
    <3>1. Len(Later(b, t)) = n - t
      BY <1>4, <2>2, <2>3, <2>4, LaterFollows
    <3>2. Follows(Later(b, t), t)
      BY <1>4, <2>2, <2>3, <2>4, LaterFollows
    <3> QED
      BY <1>3, <3>1, <3>2
  <2>6. Grown(g, at, h, n) /\ EndsAt(h, at, n)
    <3>1. n <= n
      OBVIOUS
    <3> QED
      BY <1>4, <1>9, <2>5, <3>1, HandedExactly
  <2>7. CaughtUp(Live, h, at, n, lines)
    BY <2>6, ConnectionFields DEF CaughtUp
  <2> QED
    BY <2>6, <2>7
<1> QED
  BY <1>9, <1>10, <1>11, <1>12

\* A line that a replay skips or hands, of a file that it has not read to its
\* end: with no line lost, the n-th holds seq n.
LEMMA LineSkipped ==
  ASSUME NEW c \in Connections, NEW g \in Seq(Nat), NEW at \in Nat, NEW n \in Nat,
         NEW lines \in Nat, NEW d, d = [c EXCEPT !.line = @ + 1],
         c.mode = "reading", c.line < lines, c.line + 1 <= at, CaughtUp(c, g, at, n, lines)
  PROVE  CaughtUp(d, g, at, n, lines)
<1>1. c.line \in Nat /\ c.upto \in Nat
  BY ConnectionFields
<1>2. /\ d.mode = c.mode /\ d.upto = c.upto /\ d.through = c.through
      /\ d.buffered = c.buffered /\ d.line = c.line + 1
  BY DEF Connections
<1>3. PICK missed : missed = n - Len(c.buffered)
  OBVIOUS
<1>4. /\ 0 <= missed /\ Follows(c.buffered, missed) /\ missed <= c.upto /\ c.upto <= lines
      /\ c.through = IF c.line > at THEN c.line ELSE at
  BY <1>3 DEF CaughtUp, Replays
<1>5. ~(c.line > at) /\ ~(c.line + 1 > at) /\ c.line + 1 <= lines
  BY <1>1
<1>6. d.through = IF d.line > at THEN d.line ELSE at
  BY <1>2, <1>4, <1>5
<1> QED
  BY <1>2, <1>3, <1>4, <1>5, <1>6 DEF CaughtUp

Advanced(c, next) == [c EXCEPT !.line = @ + 1, !.through = next]

\* The next seq of a replay, read and handed.
LEMMA LineHanded ==
  ASSUME NEW c \in Connections, NEW g \in Seq(Nat), NEW at \in Nat, NEW n \in Nat,
         NEW next \in Nat, NEW d, NEW h,
         d = Advanced(c, next), h = Handed(g, <<next>>),
         c.mode = "reading", next = c.through + 1, next <= n, Holds(c, g, at, n)
  PROVE  /\ d \in Connections /\ h \in Seq(Nat) /\ Holds(d, h, at, n) /\ Extended(g, h)
         /\ Grown(g, at, h, n)
         /\ \A lines \in Nat : /\ c.line < lines /\ next = c.line + 1 /\ next > at
                               /\ CaughtUp(c, g, at, n, lines)
                               => CaughtUp(d, h, at, n, lines)
<1>1. /\ c.line \in Nat /\ c.upto \in Nat /\ c.through \in Nat /\ c.buffered \in Seq(Nat)
  BY ConnectionFields
<1>2. /\ d.mode = c.mode /\ d.upto = c.upto /\ d.through = next
      /\ d.buffered = c.buffered /\ d.line = c.line + 1
  BY DEF Connections, Advanced
<1>3. d \in Connections
  <2>1. PICK line \in Nat : line = c.line + 1
    BY <1>1
  <2>2. d = [c EXCEPT !.line = line, !.through = next]
    BY <2>1 DEF Advanced
  <2> QED
    BY <2>2 DEF Connections
<1>4. /\ Orderly(g, n) /\ EndsAt(g, at, c.through)
      /\ Climbs(c.buffered) /\ Within(c.buffered, 0, n)
  <2>1. Replays(c)
    BY DEF Replays
  <2> QED
    BY <2>1 DEF Holds
<1>5. PICK t : t = c.through
  OBVIOUS
<1>6. t \in Nat /\ EndsAt(g, at, t) /\ t < next /\ next = t + 1
  BY <1>1, <1>4, <1>5
<1>7. Orderly(g, t) /\ NoGap(g) /\ ~IsTold(g)
  <2>1. Orderly(g, t) /\ NoGap(g)
    BY <1>4, <1>6, EndIsHighest
  <2>2. ~IsTold(g)
    BY <1>6 DEF EndsAt, IsTold, Gap
  <2> QED
    BY <2>1, <2>2
<1>8. h \in Seq(Nat) /\ Orderly(h, n) /\ Extended(g, h) /\ Grown(g, at, h, n) /\ EndsAt(h, at, next)
  <2>1. h \in Seq(Nat) /\ Orderly(h, n) /\ Extended(g, h)
    BY <1>6, <1>7, NextHanded
  <2>2. EndsAt(g, at, t) /\ next = t + 1 => Grown(g, at, h, n) /\ EndsAt(h, at, next)
    BY <1>6, <1>7, NextHanded
  <2> QED
    BY <1>6, <2>1, <2>2
<1>9. Holds(d, h, at, n)
  BY <1>2, <1>4, <1>8 DEF Holds
<1>10. ASSUME NEW lines \in Nat, c.line < lines, next = c.line + 1, next > at,
              CaughtUp(c, g, at, n, lines)
       PROVE  CaughtUp(d, h, at, n, lines)
  <2>1. PICK missed : missed = n - Len(c.buffered)
    OBVIOUS
  <2>2. 0 <= missed /\ Follows(c.buffered, missed) /\ missed <= c.upto /\ c.upto <= lines
    BY <1>10, <2>1 DEF CaughtUp, Replays
  <2>3. d.line = next /\ d.line <= lines /\ d.through = IF d.line > at THEN d.line ELSE at
    BY <1>1, <1>2, <1>10
  <2> QED
    BY <1>2, <2>1, <2>2, <2>3 DEF CaughtUp
<1> QED
  BY <1>3, <1>8, <1>9, <1>10

---------------------------------------------------------------------------
(* The ring. *)

\* The ring is the last seqs of the session, as many as it holds, and a failed
\* session has none.
RingInv ==
  /\ ring \in Seq(Nat)
  /\ Len(ring) <= RingCapacity
  /\ Len(ring) <= seq /\ Follows(ring, seq - Len(ring))
  /\ ring # << >> => failed = "no"

\* push keeps the ring the end of the session, whatever its capacity.
LEMMA PushKeeps ==
  ASSUME RingInv, seq \in Nat, failed = "no", failed' = "no", seq' = seq + 1,
         ring' = Pushed(seq + 1)
  PROVE  RingInv'
<1>1. RingCapacity \in Nat /\ ring \in Seq(Nat) /\ Len(ring) \in Nat
  BY LogAssumption, LenProperties DEF RingInv
<1>2. PICK low : low = seq - Len(ring)
  OBVIOUS
<1>3. low \in Nat /\ low + Len(ring) = seq /\ Follows(ring, low)
  BY <1>1, <1>2 DEF RingInv
<1>4. CASE RingCapacity = 0
  <2>1. ring' = ring
    BY <1>4 DEF Pushed
  <2>2. Len(ring') = 0 /\ ring' \in Seq(Nat)
    BY <1>1, <1>4, <2>1 DEF RingInv
  <2> QED
    BY <1>1, <1>4, <2>2 DEF RingInv, Follows
<1>5. CASE RingCapacity # 0
  <2>1. PICK grown : grown = Append(ring, seq + 1) /\ Grows(ring, seq, grown)
    BY DEF Grows
  <2>2. grown \in Seq(Nat) /\ Len(grown) = Len(ring) + 1
    BY <1>1, <2>1, BufferedMore
  <2>3. Follows(grown, low)
    <3>1. \A l \in Nat : Follows(ring, l) /\ l + Len(ring) = seq => Follows(grown, l)
      BY <1>1, <2>1, BufferedMore
    <3> QED
      BY <1>3, <3>1
  <2>4. ring' = IF Len(grown) > RingCapacity THEN Tail(grown) ELSE grown
    BY <1>5, <2>1 DEF Pushed
  <2>5. CASE ring' = grown
    <3>1. seq' - Len(ring') = low /\ Len(ring') <= seq' /\ Len(ring') <= RingCapacity
      BY <1>1, <1>3, <2>2, <2>4, <2>5
    <3> QED
      BY <2>2, <2>3, <2>5, <3>1 DEF RingInv
  <2>6. CASE ring' = Tail(grown)
    <3>1. /\ Tail(grown) \in Seq(Nat) /\ Len(Tail(grown)) = Len(grown) - 1
          /\ \A i \in 1..Len(Tail(grown)) : Tail(grown)[i] = grown[i + 1]
      <4>1. grown # << >>
        BY <1>1, <2>2, EmptySeq
      <4> QED
        BY <2>2, <4>1, HeadTailProperties
    <3>0. Len(ring) <= RingCapacity
      BY DEF RingInv
    <3>2. Len(ring') = Len(ring) /\ seq' - Len(ring') = low + 1 /\ Len(ring') <= seq'
      BY <1>1, <1>3, <2>2, <2>6, <3>1
    <3>3. ASSUME NEW i \in 1..Len(ring') PROVE ring'[i] = (low + 1) + i
      <4>1. i + 1 \in 1..Len(grown) /\ low + (i + 1) = (low + 1) + i
        BY <1>1, <1>3, <2>2, <3>2
      <4>2. grown[i + 1] = low + (i + 1)
        BY <2>3, <4>1 DEF Follows
      <4> QED
        BY <2>6, <3>1, <4>1, <4>2
    <3>4. Follows(ring', low + 1)
      BY <3>3 DEF Follows
    <3> QED
      BY <2>6, <3>0, <3>1, <3>2, <3>4 DEF RingInv
  <2> QED
    BY <2>4, <2>5, <2>6
<1> QED
  BY <1>4, <1>5

\* A ring that was dropped, and one that stays.
LEMMA RingDropped ==
  ASSUME seq' \in Nat, ring' = << >>
  PROVE  RingInv'
<1>1. Len(ring') = 0 /\ ring' \in Seq(Nat)
  OBVIOUS
<1> QED
  BY <1>1, LogAssumption DEF RingInv, Follows

\* Every step keeps the ring.
LEMMA RingKeeps ==
  ASSUME LogInv, RingInv, LogInv', [Next]_vars
  PROVE  RingInv'
<1>1. seq \in Nat /\ seq' \in Nat
  BY DEF LogInv, LogTypes
<1>2. CASE Emit
  BY <1>1, <1>2, PushKeeps DEF Emit
<1>3. ASSUME UNCHANGED <<ring, seq, failed>> PROVE RingInv'
  BY <1>3 DEF RingInv
<1>4. CASE AppendSettles \/ Serve \/ UNCHANGED vars
  BY <1>3, <1>4 DEF AppendSettles, Serve, vars
<1>5. CASE AppendFails
  <2>1. CASE failed = "no"
    BY <1>1, <1>5, <2>1, RingDropped DEF AppendFails
  <2>2. CASE failed # "no"
    BY <1>3, <1>5, <2>2 DEF AppendFails
  <2> QED
    BY <2>1, <2>2
<1>6. CASE FailDelivers
  <2>1. ring' = ring /\ ring = << >>
    BY <1>6 DEF FailDelivers, RingInv
  <2> QED
    BY <1>1, <2>1, RingDropped
<1>7. CASE Crash
  BY <1>1, <1>7, RingDropped DEF Crash
<1>8. CASE BootEmits
  <2>1. CASE ring' = Pushed(seq + 1) /\ UNCHANGED failed
    <3>1. failed = "no" /\ failed' = "no" /\ seq' = seq + 1
      BY <1>8, <2>1 DEF BootEmits
    <3> QED
      BY <1>1, <2>1, <3>1, PushKeeps
  <2>2. CASE ring' = << >>
    BY <1>1, <2>2, RingDropped
  <2> QED
    BY <1>8, <2>1, <2>2 DEF BootEmits
<1>9. ASSUME NEW s \in Subscribers,
             \/ \E after \in 0..(seq + 1) : Subscribe(s, after)
             \/ Replay(s)
             \/ Disconnect(s)
      PROVE  RingInv'
  <2>1. UNCHANGED <<ring, seq, failed>>
    BY <1>9 DEF Subscribe, Replay, ReplayStarts, ReplayReads, ReplayFails, ReplayEnds, Disconnect
  <2> QED
    BY <1>3, <2>1
<1> QED
  BY <1>2, <1>4, <1>5, <1>6, <1>7, <1>8, <1>9 DEF Next, WriteQueue

---------------------------------------------------------------------------
(* All the connections. *)

SubInv(s) ==
  /\ server = "booting" => sub[s].mode = "off"
  /\ Holds(sub[s], got[s], from[s], seq)
  /\ sound => CaughtUp(sub[s], got[s], from[s], seq, Len(spill))

ConnInv ==
  /\ sub \in [Subscribers -> Connections]
  /\ from \in [Subscribers -> Nat]
  /\ got \in [Subscribers -> Seq(Nat)]
  /\ \A s \in Subscribers : SubInv(s)

\* What a step that neither connects nor disconnects a subscriber hands them.
Hands ==
  \A s \in Subscribers :
    /\ Extended(got[s], got'[s])
    /\ sound' => Grown(got[s], from[s], got'[s], seq')

\* An envelope is fanned out.
LEMMA FanOutKeeps ==
  ASSUME LogInv, ConnInv, FanOut(seq + 1), seq' = seq + 1,
         UNCHANGED <<server, spill, sound>>
  PROVE  ConnInv' /\ Hands
<1>1. /\ seq \in Nat /\ spill \in Seq(Nat) /\ Len(spill) \in Nat
      /\ sub \in [Subscribers -> Connections]
      /\ from \in [Subscribers -> Nat] /\ got \in [Subscribers -> Seq(Nat)]
  BY LenProperties DEF LogInv, LogTypes, ConnInv
<1>2. /\ sub' = [s \in Subscribers |-> Delivered(sub[s], seq + 1)]
      /\ got' = [s \in Subscribers |-> HandedLive(sub[s], got[s], seq + 1)]
      /\ from' = from
  BY DEF FanOut
<1>3. ASSUME NEW s \in Subscribers
      PROVE  /\ sub'[s] \in Connections /\ got'[s] \in Seq(Nat) /\ SubInv(s)'
             /\ Extended(got[s], got'[s])
             /\ sound' => Grown(got[s], from[s], got'[s], seq')
  <2>1. PICK c, g, at, d, h : /\ c = sub[s] /\ g = got[s] /\ at = from[s]
                              /\ d = Delivered(c, seq + 1) /\ h = HandedLive(c, g, seq + 1)
    OBVIOUS
  <2>2. sub'[s] = d /\ got'[s] = h /\ from'[s] = at
    BY <1>2, <2>1
  <2>3. /\ c \in Connections /\ g \in Seq(Nat) /\ at \in Nat /\ Holds(c, g, at, seq)
        /\ server = "booting" => c.mode = "off"
        /\ sound => CaughtUp(c, g, at, seq, Len(spill))
    BY <1>1, <2>1 DEF ConnInv, SubInv
  <2>4. /\ d \in Connections /\ h \in Seq(Nat) /\ Holds(d, h, at, seq + 1) /\ Extended(g, h)
        /\ c.mode = "off" => d.mode = "off"
    BY <1>1, <2>1, <2>3, OneMore
  <2>5. \A lines \in Nat : CaughtUp(c, g, at, seq, lines) =>
              CaughtUp(d, h, at, seq + 1, lines) /\ Grown(g, at, h, seq + 1)
    BY <1>1, <2>1, <2>3, OneMore
  <2>6. sound => CaughtUp(d, h, at, seq + 1, Len(spill)) /\ Grown(g, at, h, seq + 1)
    BY <1>1, <2>3, <2>5
  <2>7. SubInv(s)'
    BY <2>2, <2>3, <2>4, <2>6 DEF SubInv
  <2> QED
    BY <2>1, <2>2, <2>4, <2>6, <2>7
<1>4. sub' \in [Subscribers -> Connections] /\ got' \in [Subscribers -> Seq(Nat)]
  BY <1>2, <1>3
<1> QED
  BY <1>1, <1>2, <1>3, <1>4 DEF ConnInv, Hands

\* Nobody is handed anything: the file grows, or storage fails, or boot emits
\* while nobody is connected.
LEMMA QuietKeeps ==
  ASSUME LogInv, ConnInv, UNCHANGED subVars, spill' \in Seq(Nat), Len(spill) <= Len(spill'),
         sound' => sound, server' = "booting" => server = "booting",
         seq' = seq \/ (server = "booting" /\ seq' = seq + 1)
  PROVE  ConnInv' /\ Hands
<1>1. /\ seq \in Nat /\ spill \in Seq(Nat) /\ Len(spill) \in Nat /\ Len(spill') \in Nat
      /\ sub \in [Subscribers -> Connections]
      /\ from \in [Subscribers -> Nat] /\ got \in [Subscribers -> Seq(Nat)]
      /\ sub' = sub /\ from' = from /\ got' = got
  BY LenProperties DEF LogInv, LogTypes, ConnInv, subVars
<1>2. ASSUME NEW s \in Subscribers PROVE SubInv(s)'
  <2>1. PICK c, g, at : c = sub[s] /\ g = got[s] /\ at = from[s]
    OBVIOUS
  <2>2. /\ c \in Connections /\ g \in Seq(Nat) /\ at \in Nat /\ Holds(c, g, at, seq)
        /\ server = "booting" => c.mode = "off"
        /\ sound => CaughtUp(c, g, at, seq, Len(spill))
    BY <1>1, <2>1 DEF ConnInv, SubInv
  <2>3. c.upto \in Nat /\ c.line \in Nat /\ Len(c.buffered) \in Nat
    BY <2>2, ConnectionFields
  <2>4. CASE seq' = seq
    <3>1. ASSUME CaughtUp(c, g, at, seq, Len(spill))
          PROVE  CaughtUp(c, g, at, seq, Len(spill'))
      <4>1. PICK missed : missed = seq - Len(c.buffered) /\ missed \in Int
        <5>1. seq - Len(c.buffered) \in Int
          BY <1>1, <2>3
        <5> QED
          BY <5>1
      <4>2. /\ c.mode = "awaiting" => missed = c.upto \/ missed <= Len(spill')
            /\ c.mode = "reading" => c.upto <= Len(spill') /\ c.line <= Len(spill')
        <5>1. CASE c.mode = "awaiting"
          <6>1. missed = c.upto \/ missed <= Len(spill)
            BY <3>1, <4>1, <5>1 DEF CaughtUp
          <6>2. missed <= Len(spill) => missed <= Len(spill')
            BY <1>1, <4>1
          <6> QED
            BY <5>1, <6>1, <6>2
        <5>2. CASE c.mode = "reading"
          <6>1. c.upto <= Len(spill) /\ c.line <= Len(spill)
            BY <3>1, <5>2 DEF CaughtUp
          <6> QED
            BY <1>1, <2>3, <5>2, <6>1
        <5> QED
          BY <5>1, <5>2
      <4> QED
        BY <3>1, <4>1, <4>2 DEF CaughtUp
    <3> QED
      BY <1>1, <2>1, <2>2, <2>4, <3>1 DEF SubInv
  <2>5. CASE server = "booting" /\ seq' = seq + 1
    <3>1. c.mode = "off" /\ ~Replays(c)
      BY <2>2, <2>5 DEF Replays
    <3>2. Orderly(g, seq')
      <4>1. PICK next : next = seq + 1
        OBVIOUS
      <4>2. next \in Nat /\ seq <= next
        BY <1>1, <4>1
      <4>3. Orderly(g, seq)
        BY <2>2 DEF Holds
      <4>4. Orderly(g, next)
        BY <1>1, <2>2, <4>2, <4>3, OrderlyStays
      <4> QED
        BY <2>5, <4>1, <4>4
    <3>3. Holds(c, g, at, seq') /\ CaughtUp(c, g, at, seq', Len(spill'))
      BY <3>1, <3>2 DEF Holds, CaughtUp
    <3> QED
      BY <1>1, <2>1, <3>1, <3>3 DEF SubInv
  <2> QED
    BY <2>4, <2>5
<1>3. ConnInv'
  BY <1>1, <1>2 DEF ConnInv
<1>4. ASSUME NEW s \in Subscribers
      PROVE  Extended(got[s], got'[s]) /\ Grown(got[s], from[s], got'[s], seq')
  <2>1. got[s] \in Seq(Nat) /\ got'[s] = got[s]
    BY <1>1
  <2> QED
    BY <2>1, HandedNothing
<1> QED
  BY <1>3, <1>4 DEF Hands

\* A crash closes every connection.
LEMMA CrashCloses ==
  ASSUME Crash, LogInv'
  PROVE  ConnInv'
<1>1. /\ sub' = [s \in Subscribers |-> Off] /\ from' = [s \in Subscribers |-> 0]
      /\ got' = [s \in Subscribers |-> << >>]
  BY DEF Crash
<1>2. << >> \in Seq(Nat) /\ Len(<< >>) = 0 /\ seq' \in Nat
  BY DEF LogInv, LogTypes
<1>3. Orderly(<< >>, seq')
  BY <1>2 DEF Orderly
<1>4. \A s \in Subscribers : SubInv(s)'
  BY <1>1, <1>3, ConnectionFields DEF SubInv, Holds, CaughtUp
<1>5. /\ sub' \in [Subscribers -> Connections] /\ from' \in [Subscribers -> Nat]
      /\ got' \in [Subscribers -> Seq(Nat)]
  BY <1>1, <1>2, ConnectionFields
<1> QED
  BY <1>4, <1>5 DEF ConnInv

---------------------------------------------------------------------------
(* One subscriber's steps. *)

\* A step of one connection.
Moves(s, d, at, h) ==
  /\ sub' = [sub EXCEPT ![s] = d]
  /\ from' = [from EXCEPT ![s] = at]
  /\ got' = [got EXCEPT ![s] = h]

\* The others keep theirs.
LEMMA MoveKeeps ==
  ASSUME NEW s \in Subscribers, NEW d, NEW at, NEW h, ConnInv, Moves(s, d, at, h),
         UNCHANGED <<server, seq, spill, sound>>, server # "booting",
         d \in Connections, at \in Nat, h \in Seq(Nat),
         Holds(d, h, at, seq), sound => CaughtUp(d, h, at, seq, Len(spill))
  PROVE  /\ ConnInv'
         /\ \A r \in Subscribers \ {s} : UNCHANGED <<from[r], got[r]>>
         /\ from'[s] = at /\ got'[s] = h
<1>1. /\ sub \in [Subscribers -> Connections]
      /\ from \in [Subscribers -> Nat] /\ got \in [Subscribers -> Seq(Nat)]
  BY DEF ConnInv
<1>2. sub'[s] = d /\ from'[s] = at /\ got'[s] = h
  BY <1>1 DEF Moves
<1>3. \A r \in Subscribers \ {s} : UNCHANGED <<sub[r], from[r], got[r]>>
  BY <1>1 DEF Moves
<1>4. SubInv(s)'
  BY <1>2 DEF SubInv
<1>5. ASSUME NEW r \in Subscribers \ {s} PROVE SubInv(r)'
  <2>1. SubInv(r)
    BY DEF ConnInv
  <2> QED
    BY <1>3, <2>1 DEF SubInv
<1>6. /\ sub' \in [Subscribers -> Connections]
      /\ from' \in [Subscribers -> Nat] /\ got' \in [Subscribers -> Seq(Nat)]
  BY <1>1 DEF Moves
<1>7. \A r \in Subscribers : SubInv(r)'
  BY <1>4, <1>5
<1> QED
  BY <1>2, <1>3, <1>6, <1>7 DEF ConnInv

\* What a replay's step hands to its subscriber, and to no other.
LEMMA MoveHands ==
  ASSUME NEW s \in Subscribers, NEW d, NEW at, NEW h, ConnInv, Moves(s, d, at, h),
         UNCHANGED <<seq, sound>>,
         Extended(got[s], h), sound => Grown(got[s], from[s], h, seq)
  PROVE  Hands
<1>1. got \in [Subscribers -> Seq(Nat)]
  BY DEF ConnInv
<1>2. got'[s] = h /\ \A r \in Subscribers \ {s} : got'[r] = got[r]
  BY <1>1 DEF Moves
<1>3. Extended(got[s], got'[s]) /\ (sound' => Grown(got[s], from[s], got'[s], seq'))
  BY <1>2
<1>4. ASSUME NEW r \in Subscribers \ {s}
      PROVE  Extended(got[r], got'[r]) /\ Grown(got[r], from[r], got'[r], seq')
  <2>1. got[r] \in Seq(Nat) /\ got'[r] = got[r]
    BY <1>1, <1>2
  <2> QED
    BY <2>1, HandedNothing
<1>5. ASSUME NEW r \in Subscribers
      PROVE  Extended(got[r], got'[r]) /\ (sound' => Grown(got[r], from[r], got'[r], seq'))
  BY <1>3, <1>4
<1> QED
  BY <1>5 DEF Hands

\* subscribe: a gap, or all of the ring behind the position, or a proxy that
\* holds nothing yet and awaits what the file does not have.
LEMMA SubscribeKeeps ==
  ASSUME NEW s \in Subscribers, NEW after \in Nat, LogInv, RingInv, ConnInv,
         Subscribe(s, after)
  PROVE  /\ ConnInv'
         /\ \A r \in Subscribers \ {s} : UNCHANGED <<from[r], got[r]>>
         /\ from'[s] = after
         /\ got'[s] = <<Gap>> \/ \E last \in after..seq : got'[s] = Run(after + 1, last)
<1>1. /\ seq \in Nat /\ spill \in Seq(Nat) /\ queue \in Seq(Nat) /\ ring \in Seq(Nat)
      /\ Len(spill) \in Nat /\ Len(queue) \in Nat /\ Len(ring) \in Nat
  BY LenProperties DEF LogInv, LogTypes, RingInv
<1>2. UNCHANGED <<server, seq, spill, sound>> /\ server # "booting"
  BY DEF Subscribe, Serving, fileVars
<1>3. CASE after > seq
  <2>1. PICK h : h = <<Gap>>
    OBVIOUS
  <2>2. Moves(s, Live, after, h)
    <3>1. ~(after <= seq)
      BY <1>1, <1>3
    <3> QED
      BY <1>3, <2>1, <3>1 DEF Subscribe, Set, Moves
  <2>3. h \in Seq(Nat) /\ Len(h) = 1 /\ h[1] = 0 /\ h # << >>
    BY <2>1 DEF Gap
  <2>4. Orderly(h, seq) /\ IsTold(h)
    BY <1>1, <2>3 DEF Orderly, IsTold, Gap
  <2>5. Holds(Live, h, after, seq) /\ CaughtUp(Live, h, after, seq, Len(spill))
    BY <2>4, ConnectionFields DEF Holds, CaughtUp
  <2>6. /\ ConnInv' /\ from'[s] = after /\ got'[s] = h
        /\ \A r \in Subscribers \ {s} : UNCHANGED <<from[r], got[r]>>
    BY <1>2, <2>2, <2>3, <2>5, MoveKeeps, ConnectionFields
  <2> QED
    BY <2>1, <2>6
<1>4. CASE after <= seq /\ RingServes(after)
  <2>1. PICK h : h = Later(ring, after)
    OBVIOUS
  <2>2. Moves(s, Live, after, h)
    BY <1>1, <1>4, <2>1 DEF Subscribe, Set, Moves
  <2>3. PICK low : low = seq - Len(ring)
    OBVIOUS
  <2>4. low \in Nat /\ seq = low + Len(ring) /\ Follows(ring, low)
    BY <1>1, <2>3 DEF RingInv
  <2>5. low <= after
    <3>1. Len(ring) # 0 /\ after >= ring[1] - 1
      BY <1>1, <1>4, EmptySeq DEF RingServes
    <3>2. ring[1] = low + 1
      BY <1>1, <2>4, <3>1 DEF Follows
    <3> QED
      BY <2>4, <3>1, <3>2
  <2>6. h \in Seq(Nat) /\ Len(h) = seq - after /\ Follows(h, after)
    <3>1. Later(ring, after) \in Seq(Nat) /\ Len(Later(ring, after)) = seq - after
      BY <1>1, <1>4, <2>4, <2>5, LaterFollows
    <3>2. Follows(Later(ring, after), after)
      BY <1>1, <1>4, <2>4, <2>5, LaterFollows
    <3> QED
      BY <2>1, <3>1, <3>2
  <2>7. h = Run(after + 1, seq)
    BY <1>1, <1>4, <2>6, FollowsIsRun
  <2>8. \A i \in 1..Len(h) : h[i] = after + i /\ after + i <= seq /\ after + i # 0
    BY <1>1, <1>4, <2>6 DEF Follows
  <2>9. Orderly(h, seq)
    <3>1. \A i \in 1..Len(h) : h[i] <= seq /\ h[i] # Gap
      BY <2>8 DEF Gap
    <3>2. \A i, j \in 1..Len(h) : i < j => h[i] < h[j]
      BY <1>1, <2>6, <2>8
    <3> QED
      BY <3>1, <3>2 DEF Orderly
  <2>10. EndsAt(h, after, seq)
    <3>1. CASE after = seq
      <4>1. Len(h) = 0
        BY <1>1, <2>6, <3>1
      <4> QED
        BY <2>6, <3>1, <4>1, EmptySeq DEF EndsAt
    <3>2. CASE after # seq
      <4>1. Len(h) \in 1..Len(h) /\ after + Len(h) = seq /\ 0 < seq
        BY <1>1, <1>4, <2>6, <3>2
      <4>2. h # << >> /\ h[Len(h)] = seq
        BY <2>6, <2>8, <4>1, EmptySeq
      <4> QED
        BY <4>1, <4>2 DEF EndsAt
    <3> QED
      BY <3>1, <3>2
  <2>11. Holds(Live, h, after, seq) /\ CaughtUp(Live, h, after, seq, Len(spill))
    BY <2>9, <2>10, ConnectionFields DEF Holds, CaughtUp
  <2>12. seq \in after..seq
    BY <1>1, <1>4
  <2>13. /\ ConnInv' /\ from'[s] = after /\ got'[s] = h
         /\ \A r \in Subscribers \ {s} : UNCHANGED <<from[r], got[r]>>
    BY <1>2, <2>2, <2>6, <2>11, MoveKeeps, ConnectionFields
  <2> QED
    BY <2>7, <2>12, <2>13
<1>5. CASE after <= seq /\ ~RingServes(after)
  <2>1. PICK upto, d, h : /\ upto = (IF queue = << >> THEN 0 ELSE queue[Len(queue)])
                          /\ d = [Off EXCEPT !.mode = "awaiting", !.through = after, !.upto = upto]
                          /\ h = << >>
    OBVIOUS
  <2>2. Moves(s, d, after, h)
    BY <1>1, <1>5, <2>1 DEF Subscribe, Set, Moves
  <2>3. upto \in Nat
    <3>1. queue # << >> => Len(queue) \in 1..Len(queue)
      BY <1>1, EmptySeq
    <3>2. \A i \in 1..Len(queue) : queue[i] \in Nat
      BY <1>1, ElementOfSeq
    <3> QED
      BY <2>1, <3>1, <3>2
  <2>4. d = [mode |-> "awaiting", upto |-> upto, buffered |-> << >>, line |-> 0, through |-> after]
    BY <2>1 DEF Off
  <2>5. d \in Connections
    BY <2>3, <2>4 DEF Connections, Modes
  <2>6. h \in Seq(Nat) /\ Len(h) = 0 /\ Orderly(h, seq) /\ EndsAt(h, after, after)
    BY <2>1 DEF Orderly, EndsAt
  <2>7. Holds(d, h, after, seq)
    <3>1. Climbs(<< >>) /\ Within(<< >>, 0, seq)
      BY DEF Climbs, Within
    <3> QED
      BY <1>5, <2>4, <2>6, <3>1 DEF Holds
  <2>8. ASSUME sound PROVE CaughtUp(d, h, after, seq, Len(spill))
    <3>1. seq - 0 = seq /\ 0 <= seq /\ Len(<< >>) = 0 /\ Follows(<< >>, seq)
      BY <1>1 DEF Follows
    <3>2. seq = upto \/ seq <= Len(spill)
      <4>1. /\ Len(spill) + Len(queue) = seq
            /\ \A i \in 1..Len(queue) : queue[i] = Len(spill) + i
        BY <2>8 DEF LogInv, History
      <4>2. CASE queue = << >>
        <5>1. Len(queue) = 0
          BY <4>2
        <5> QED
          BY <1>1, <4>1, <5>1
      <4>3. CASE queue # << >>
        <5>1. Len(queue) \in 1..Len(queue)
          BY <1>1, <4>3, EmptySeq
        <5> QED
          BY <2>1, <4>1, <4>3, <5>1
      <4> QED
        BY <4>2, <4>3
    <3> QED
      BY <2>4, <3>1, <3>2 DEF CaughtUp
  <2>9. /\ ConnInv' /\ from'[s] = after /\ got'[s] = h
        /\ \A r \in Subscribers \ {s} : UNCHANGED <<from[r], got[r]>>
    BY ZenonT(60), <1>2, <2>2, <2>5, <2>6, <2>7, <2>8, MoveKeeps
  <2>10. h = Run(after + 1, after) /\ after \in after..seq
    <3>1. /\ Run(after + 1, after) \in Seq(Nat) /\ Len(Run(after + 1, after)) = after - after
      BY RunFacts
    <3>2. PICK r : r = Run(after + 1, after)
      OBVIOUS
    <3>3. r \in Seq(Nat) /\ Len(r) = 0
      BY <3>1, <3>2
    <3> QED
      BY <1>1, <1>5, <2>1, <3>2, <3>3, EmptySeq
  <2> QED
    BY <2>9, <2>10
<1> QED
  BY <1>1, <1>3, <1>4, <1>5

\* A replay that starts has awaited what it was waiting for: with no line lost
\* the file then has every seq that was not fanned out to it.
LEMMA ReplayStartsKeeps ==
  ASSUME NEW s \in Subscribers, LogInv, ConnInv, ReplayStarts(s)
  PROVE  ConnInv' /\ Hands
<1>1. /\ seq \in Nat /\ spill \in Seq(Nat) /\ queue \in Seq(Nat)
      /\ Len(spill) \in Nat /\ Len(queue) \in Nat /\ DOMAIN queue = 1..Len(queue)
      /\ sub \in [Subscribers -> Connections]
      /\ from \in [Subscribers -> Nat] /\ got \in [Subscribers -> Seq(Nat)]
  BY LenProperties DEF LogInv, LogTypes, ConnInv
<1>2. PICK c, g, at, d : /\ c = sub[s] /\ g = got[s] /\ at = from[s]
                         /\ d = [c EXCEPT !.mode = "reading", !.upto = Len(spill)]
  OBVIOUS
<1>3. /\ c.mode = "awaiting" /\ \A i \in DOMAIN queue : queue[i] > c.upto
      /\ UNCHANGED <<server, seq, spill, sound, from, got>>
      /\ sub' = [sub EXCEPT ![s] = d]
  BY <1>1, <1>2 DEF ReplayStarts, fileVars
<1>4. /\ c \in Connections /\ g \in Seq(Nat) /\ at \in Nat /\ Holds(c, g, at, seq)
      /\ server = "booting" => c.mode = "off"
      /\ sound => CaughtUp(c, g, at, seq, Len(spill))
  BY <1>1, <1>2 DEF ConnInv, SubInv
<1>5. /\ c.upto \in Nat /\ Len(c.buffered) \in Nat
      /\ d.mode = "reading" /\ d.upto = Len(spill) /\ d.through = c.through
      /\ d.buffered = c.buffered /\ d.line = c.line
  BY <1>2, <1>4, ConnectionFields DEF Connections
<1>6. d \in Connections
  BY <1>1, <1>2, <1>4 DEF Connections, Modes
<1>7. Holds(d, g, at, seq)
  BY <1>3, <1>4, <1>5 DEF Holds, Replays
<1>8. ASSUME sound PROVE CaughtUp(d, g, at, seq, Len(spill))
  <2>1. PICK missed : missed = seq - Len(c.buffered)
    OBVIOUS
  <2>2. /\ 0 <= missed /\ Follows(c.buffered, missed)
        /\ c.line = 0 /\ c.through = at /\ (missed = c.upto \/ missed <= Len(spill))
    BY <1>3, <1>4, <1>8, <2>1 DEF CaughtUp, Replays
  <2>3. missed \in Nat /\ missed <= seq
    BY <1>1, <1>5, <2>1, <2>2
  <2>4. missed <= Len(spill)
    <3> SUFFICES ASSUME missed = c.upto, ~(missed <= Len(spill)) PROVE FALSE
      BY <2>2
    <3>1. /\ Len(spill) + Len(queue) = seq
          /\ \A i \in 1..Len(queue) : queue[i] = Len(spill) + i
      BY <1>8 DEF LogInv, History
    <3>2. missed - Len(spill) \in 1..Len(queue)
      BY <1>1, <2>3, <3>1
    <3>3. queue[missed - Len(spill)] = missed
      BY <1>1, <2>3, <3>1, <3>2
    <3> QED
      BY <1>1, <1>3, <2>3, <3>2, <3>3
  <2>5. ~(d.line > at) /\ d.line <= Len(spill)
    BY <1>1, <1>4, <1>5, <2>2
  <2> QED
    BY <1>1, <1>5, <2>1, <2>2, <2>4, <2>5 DEF CaughtUp
<1>9. Moves(s, d, at, g)
  BY <1>1, <1>2, <1>3 DEF Moves
<1>10. server # "booting"
  BY <1>3, <1>4
<1>11. ConnInv'
  BY <1>3, <1>4, <1>6, <1>7, <1>8, <1>9, <1>10, MoveKeeps
<1>12. Hands
  <2>1. Extended(g, g) /\ Grown(g, at, g, seq)
    BY <1>4, HandedNothing
  <2>2. Extended(got[s], g) /\ Grown(got[s], from[s], g, seq)
    BY <1>2, <2>1
  <2> QED
    BY <1>3, <1>9, <2>2, MoveHands
<1> QED
  BY <1>11, <1>12

\* A replay reads a line that it skips, hands, or takes for a gap.
LEMMA ReplayReadsKeeps ==
  ASSUME NEW s \in Subscribers, LogInv, ConnInv, ReplayReads(s)
  PROVE  ConnInv' /\ Hands
<1>1. /\ seq \in Nat /\ spill \in Seq(Nat) /\ Len(spill) \in Nat
      /\ sub \in [Subscribers -> Connections]
      /\ from \in [Subscribers -> Nat] /\ got \in [Subscribers -> Seq(Nat)]
  BY LenProperties DEF LogInv, LogTypes, ConnInv
<1>2. PICK c, g, at, next : /\ c = sub[s] /\ g = got[s] /\ at = from[s]
                            /\ next = spill[c.line + 1]
  OBVIOUS
<1>3. /\ c.mode = "reading" /\ c.line < Len(spill)
      /\ UNCHANGED <<server, seq, spill, sound, from>>
  BY <1>1, <1>2 DEF ReplayReads, fileVars
<1>4. /\ c \in Connections /\ g \in Seq(Nat) /\ at \in Nat /\ Holds(c, g, at, seq)
      /\ server = "booting" => c.mode = "off"
      /\ sound => CaughtUp(c, g, at, seq, Len(spill))
  BY <1>1, <1>2 DEF ConnInv, SubInv
<1>5. /\ c.line \in Nat /\ c.through \in Nat /\ c.line + 1 \in 1..Len(spill)
      /\ Replays(c) /\ server # "booting"
  BY <1>1, <1>3, <1>4, ConnectionFields DEF Replays
<1>6. next \in Nat /\ next <= seq
  <2>1. spill[c.line + 1] \in Nat
    BY <1>1, <1>5, ElementOfSeq
  <2>2. spill[c.line + 1] <= seq
    BY <1>5 DEF LogInv, Above
  <2> QED
    BY <1>2, <2>1, <2>2
<1>7. sound => next = c.line + 1
  BY <1>2, <1>5 DEF LogInv, History
<1>8. CASE next = Torn \/ next <= at
  <2>1. PICK d : d = [c EXCEPT !.line = @ + 1]
    OBVIOUS
  <2>2. Moves(s, d, at, g)
    BY <1>1, <1>2, <1>3, <1>8, <2>1 DEF ReplayReads, Moves
  <2>3. d \in Connections /\ d.mode = c.mode /\ d.through = c.through /\ d.buffered = c.buffered
    <3>1. PICK line \in Nat : line = c.line + 1
      BY <1>5
    <3>2. d = [c EXCEPT !.line = line]
      BY <2>1, <3>1
    <3> QED
      BY <1>4, <3>2 DEF Connections
  <2>4. Holds(d, g, at, seq)
    BY <1>4, <2>3 DEF Holds, Replays
  <2>5. ASSUME sound PROVE CaughtUp(d, g, at, seq, Len(spill))
    <3>1. c.line + 1 <= at
      BY <1>5, <1>7, <1>8, <2>5 DEF Torn
    <3> QED
      BY <1>1, <1>3, <1>4, <2>1, <2>5, <3>1, LineSkipped
  <2>6. ConnInv'
    BY <1>3, <1>4, <1>5, <2>2, <2>3, <2>4, <2>5, MoveKeeps
  <2>7. Hands
    <3>1. Extended(g, g) /\ Grown(g, at, g, seq)
      BY <1>4, HandedNothing
    <3>2. Extended(got[s], g) /\ Grown(got[s], from[s], g, seq)
      BY <1>2, <3>1
    <3> QED
      BY <1>3, <2>2, <3>2, MoveHands
  <2> QED
    BY <2>6, <2>7
<1>9. CASE ~(next = Torn \/ next <= at) /\ next = c.through + 1
  <2>1. PICK d, h : d = Advanced(c, next) /\ h = Handed(g, <<next>>)
    OBVIOUS
  <2>2. Moves(s, d, at, h)
    BY <1>1, <1>2, <1>3, <1>9, <2>1 DEF ReplayReads, Moves, Advanced
  <2>3. /\ d \in Connections /\ h \in Seq(Nat) /\ Holds(d, h, at, seq) /\ Extended(g, h)
        /\ Grown(g, at, h, seq)
    <3>1. /\ seq \in Nat /\ c \in Connections /\ g \in Seq(Nat) /\ at \in Nat /\ next \in Nat
          /\ c.mode = "reading" /\ next = c.through + 1 /\ next <= seq /\ Holds(c, g, at, seq)
      BY <1>1, <1>3, <1>4, <1>6, <1>9
    <3>2. d \in Connections /\ h \in Seq(Nat)
      BY ZenonT(60), <2>1, <3>1, LineHanded
    <3>3. Holds(d, h, at, seq) /\ Extended(g, h)
      BY ZenonT(60), <2>1, <3>1, LineHanded
    <3>4. Grown(g, at, h, seq)
      BY <2>1, <3>1, LineHanded
    <3> QED
      BY <3>2, <3>3, <3>4
  <2>4. ASSUME sound PROVE CaughtUp(d, h, at, seq, Len(spill))
    <3>1. \A lines \in Nat : /\ c.line < lines /\ next = c.line + 1 /\ next > at
                             /\ CaughtUp(c, g, at, seq, lines)
                             => CaughtUp(d, h, at, seq, lines)
      BY ZenonT(60), <1>1, <1>3, <1>4, <1>6, <1>9, <2>1, LineHanded
    <3>2. next = c.line + 1 /\ next > at
      BY <1>4, <1>6, <1>7, <1>9, <2>4
    <3> QED
      BY <1>1, <1>3, <1>4, <2>4, <3>1, <3>2
  <2>5. ConnInv'
    BY <1>3, <1>4, <1>5, <2>2, <2>3, <2>4, MoveKeeps
  <2>6. Extended(got[s], h) /\ Grown(got[s], from[s], h, seq)
    BY <1>2, <2>3
  <2>7. Hands
    BY <1>3, <2>2, <2>6, MoveHands
  <2> QED
    BY <2>5, <2>7
<1>10. CASE ~(next = Torn \/ next <= at) /\ next # c.through + 1
  <2>1. GoesLive(s, <<Gap>>)
    BY <1>2, <1>10 DEF ReplayReads
  <2>2. PICK h : h = Handed(Handed(g, <<Gap>>), Later(c.buffered, c.through))
    OBVIOUS
  <2>3. Moves(s, Live, at, h)
    BY <1>1, <1>2, <1>3, <2>1, <2>2 DEF GoesLive, Moves
  <2>4. /\ h \in Seq(Nat) /\ Holds(Live, h, at, seq) /\ Extended(g, h) /\ Grown(g, at, h, seq)
        /\ \A lines : CaughtUp(Live, h, at, seq, lines)
    BY <1>1, <1>4, <1>5, <2>2, ReplayGivesUp
  <2>5. ConnInv'
    BY <1>3, <1>4, <1>5, <2>3, <2>4, MoveKeeps, ConnectionFields
  <2>6. Extended(got[s], h) /\ Grown(got[s], from[s], h, seq)
    BY <1>2, <2>4
  <2>7. Hands
    BY <1>3, <2>3, <2>6, MoveHands
  <2> QED
    BY <2>5, <2>7
<1> QED
  BY <1>8, <1>9, <1>10

\* A replay that cannot read on, and one that has read all.
LEMMA ReplayStopsKeeps ==
  ASSUME NEW s \in Subscribers, LogInv, ConnInv, ReplayFails(s) \/ ReplayEnds(s)
  PROVE  ConnInv' /\ Hands
<1>1. /\ seq \in Nat /\ Len(spill) \in Nat
      /\ sub \in [Subscribers -> Connections]
      /\ from \in [Subscribers -> Nat] /\ got \in [Subscribers -> Seq(Nat)]
  BY LenProperties DEF LogInv, LogTypes, ConnInv
<1>2. PICK c, g, at : c = sub[s] /\ g = got[s] /\ at = from[s]
  OBVIOUS
<1>3. c.mode = "reading" /\ UNCHANGED <<server, seq, spill, sound, from>>
  BY <1>1, <1>2 DEF ReplayFails, ReplayEnds, fileVars
<1>4. /\ c \in Connections /\ g \in Seq(Nat) /\ at \in Nat /\ Holds(c, g, at, seq)
      /\ server = "booting" => c.mode = "off"
      /\ sound => CaughtUp(c, g, at, seq, Len(spill))
  BY <1>1, <1>2 DEF ConnInv, SubInv
<1>5. Replays(c) /\ server # "booting"
  BY <1>3, <1>4 DEF Replays
<1>6. \E h : /\ Moves(s, Live, at, h) /\ h \in Seq(Nat) /\ Holds(Live, h, at, seq)
             /\ Extended(g, h)
             /\ sound => Grown(g, at, h, seq) /\ CaughtUp(Live, h, at, seq, Len(spill))
  <2>1. CASE ReplayFails(s)
    <3>1. PICK h : h = Handed(Handed(g, <<Gap>>), Later(c.buffered, c.through))
      OBVIOUS
    <3>2. Moves(s, Live, at, h)
      BY <1>1, <1>2, <1>3, <2>1, <3>1 DEF ReplayFails, GoesLive, Moves
    <3>3. /\ h \in Seq(Nat) /\ Holds(Live, h, at, seq) /\ Extended(g, h) /\ Grown(g, at, h, seq)
          /\ \A lines : CaughtUp(Live, h, at, seq, lines)
      BY <1>1, <1>4, <1>5, <3>1, ReplayGivesUp
    <3> QED
      BY <3>2, <3>3
  <2>2. CASE ReplayEnds(s)
    <3>1. PICK h : h = Handed(Handed(g, << >>), Later(c.buffered, c.through))
      OBVIOUS
    <3>2. Moves(s, Live, at, h)
      BY <1>1, <1>2, <1>3, <2>2, <3>1 DEF ReplayEnds, GoesLive, Moves
    <3>3. c.line >= c.upto
      BY <1>2, <2>2 DEF ReplayEnds
    <3>4. h \in Seq(Nat) /\ Holds(Live, h, at, seq) /\ Extended(g, h)
      BY <1>1, <1>3, <1>4, <3>1, <3>3, ReplayFlushes
    <3>5. \A lines \in Nat : CaughtUp(c, g, at, seq, lines) =>
              Grown(g, at, h, seq) /\ CaughtUp(Live, h, at, seq, lines)
      BY <1>1, <1>3, <1>4, <3>1, <3>3, ReplayFlushes
    <3> QED
      BY <1>1, <1>4, <3>2, <3>4, <3>5
  <2> QED
    BY <2>1, <2>2
<1>7. PICK h : /\ Moves(s, Live, at, h) /\ h \in Seq(Nat) /\ Holds(Live, h, at, seq)
               /\ Extended(g, h)
               /\ sound => Grown(g, at, h, seq) /\ CaughtUp(Live, h, at, seq, Len(spill))
  BY <1>6
<1>8. ConnInv'
  BY <1>3, <1>4, <1>5, <1>7, MoveKeeps, ConnectionFields
<1>9. Extended(got[s], h) /\ (sound => Grown(got[s], from[s], h, seq))
  BY <1>2, <1>7
<1>10. Hands
  BY <1>3, <1>7, <1>9, MoveHands
<1> QED
  BY <1>8, <1>10

\* A subscriber that leaves holds nothing.
LEMMA DisconnectKeeps ==
  ASSUME NEW s \in Subscribers, LogInv, ConnInv, Disconnect(s)
  PROVE  /\ ConnInv'
         /\ \A r \in Subscribers \ {s} : UNCHANGED <<from[r], got[r]>>
         /\ from'[s] = 0 /\ got'[s] = << >>
<1>1. PICK h, at : h = << >> /\ at = 0
  OBVIOUS
<1>2. Moves(s, Off, at, h) /\ UNCHANGED <<server, seq, spill, sound>>
  BY <1>1 DEF Disconnect, Set, Moves, fileVars
<1>3. server # "booting"
  <2>1. SubInv(s)
    BY DEF ConnInv
  <2> QED
    BY <2>1 DEF Disconnect, SubInv
<1>4. seq \in Nat /\ Len(h) = 0 /\ h \in Seq(Nat) /\ at \in Nat
  BY <1>1 DEF LogInv, LogTypes
<1>5. Orderly(h, seq)
  BY <1>4 DEF Orderly
<1>6. Holds(Off, h, at, seq) /\ CaughtUp(Off, h, at, seq, Len(spill))
  BY <1>5, ConnectionFields DEF Holds, CaughtUp
<1>7. /\ ConnInv' /\ from'[s] = at /\ got'[s] = h
      /\ \A r \in Subscribers \ {s} : UNCHANGED <<from[r], got[r]>>
  <2>1. PICK d : d = Off
    OBVIOUS
  <2>2. d \in Connections /\ Moves(s, d, at, h)
    BY <1>2, <2>1, ConnectionFields
  <2>3. Holds(d, h, at, seq) /\ CaughtUp(d, h, at, seq, Len(spill))
    BY <1>6, <2>1
  <2> QED
    BY ZenonT(60), <1>2, <1>3, <1>4, <2>2, <2>3, MoveKeeps
<1> QED
  BY <1>1, <1>7

---------------------------------------------------------------------------
(* The stream. *)

IInv == LogInv /\ RingInv /\ ConnInv

\* What the session publishes is what EventStream publishes.
LEMMA HandsPublish ==
  ASSUME ConnInv', Hands, seq' \in {seq, seq + 1}, from' = from, sound' => sound
  PROVE  Stream!Publish
<1>1. ASSUME NEW s \in Subscribers, sound' PROVE Stream!Hand(s)
  <2>1. Grown(got[s], from[s], got'[s], seq')
    BY <1>1 DEF Hands
  <2> QED
    BY <2>1 DEF Grown, Stream!Hand, Stream!Told, Stream!Mark, Stream!Run, Run, Gap, Stream!Gap
<1>2. ASSUME NEW s \in Subscribers PROVE Stream!HandInOrder(s)
  <2>1. Extended(got[s], got'[s])
    BY DEF Hands
  <2>2. got'[s] \in Seq(Nat)
    BY DEF ConnInv
  <2>3. Orderly(got'[s], seq')
    <3>1. SubInv(s)'
      BY DEF ConnInv
    <3> QED
      BY <3>1 DEF SubInv, Holds
  <2>4. DOMAIN got'[s] = 1..Len(got'[s])
    BY <2>2, LenProperties
  <2>5. Stream!Rising(got'[s])
    BY <2>3, <2>4 DEF Orderly, Stream!Rising, Gap, Stream!Gap
  <2> QED
    BY <2>1, <2>5 DEF Extended, Stream!HandInOrder
<1> QED
  BY <1>1, <1>2 DEF Stream!Publish

\* A restart's last seq is one that was published.
LEMMA CrashRestarts ==
  ASSUME LogInv, LogInv', Crash
  PROVE  Stream!Restart
<1>1. /\ seq \in Nat /\ spill \in Seq(Nat) /\ Len(spill) \in Nat
      /\ spill' \in Seq(Nat) /\ Rises(spill')
  BY LenProperties DEF LogInv, LogTypes
<1>2. /\ seq' = LastSeq(spill') /\ LastSeq(spill') \in Nat
      /\ LastSeq(spill') # 0 => \E i \in 1..Len(spill') : spill'[i] = LastSeq(spill')
  BY <1>1, LastSeqIsHighest DEF Crash
<1>3. \A i \in 1..Len(spill') : spill'[i] <= seq
  <2>1. \A i \in 1..Len(spill) : spill[i] <= seq
    BY DEF LogInv, Above
  <2>2. CASE spill' = spill
    BY <2>1, <2>2
  <2>3. CASE queue # << >> /\ spill' = Written(Head(queue))
    <3>1. PICK n : n = Head(queue)
      OBVIOUS
    <3>2. n \in Nat /\ 0 < n /\ n <= seq /\ \A i \in 1..Len(spill) : spill[i] < n
      BY <2>3, <3>1, QueueShifted
    <3>3. spill' = Written(n)
      BY <2>3, <3>1
    <3>4. /\ Len(spill') = Len(spill) + 1
          /\ \A i \in 1..Len(spill) : spill'[i] = spill[i]
          /\ spill'[Len(spill) + 1] \in {n, Torn}
      BY <3>2, <3>3, LineAppended
    <3>5. \A i \in 1..Len(spill') : i \in 1..Len(spill) \/ i = Len(spill) + 1
      BY <1>1, <3>4
    <3> QED
      BY <1>1, <2>1, <3>2, <3>4, <3>5 DEF Torn
  <2> QED
    BY <2>2, <2>3 DEF Crash, fileVars
<1>4. seq' \in 0..seq
  BY <1>1, <1>2, <1>3
<1>5. sound' \in BOOLEAN
  BY DEF LogInv, LogTypes
<1> QED
  BY <1>4, <1>5 DEF Crash, Stream!Restart

\* Every step keeps the connections' part, and is one of EventStream's.
LEMMA StepStreams ==
  ASSUME IInv, LogInv', [Next]_vars
  PROVE  ConnInv' /\ [Stream!StreamNext]_Stream!streamVars
<1>1. LogInv /\ RingInv /\ ConnInv /\ seq \in Nat /\ spill \in Seq(Nat) /\ Len(spill) \in Nat
  BY LenProperties DEF IInv, LogInv, LogTypes
<1>2. ASSUME FanOut(seq + 1), seq' = seq + 1, UNCHANGED <<server, spill, sound>>
      PROVE  ConnInv' /\ Stream!StreamNext
  <2>1. ConnInv' /\ Hands
    BY <1>1, <1>2, FanOutKeeps
  <2>2. Stream!Publish
    BY <1>2, <2>1, HandsPublish DEF FanOut
  <2> QED
    BY <2>1, <2>2 DEF Stream!StreamNext
<1>3. ASSUME UNCHANGED subVars, spill' \in Seq(Nat), Len(spill) <= Len(spill'),
             sound' => sound, server' = "booting" => server = "booting",
             seq' = seq \/ (server = "booting" /\ seq' = seq + 1)
      PROVE  ConnInv' /\ Stream!StreamNext
  <2>1. ConnInv' /\ Hands
    BY <1>1, <1>3, QuietKeeps
  <2>2. Stream!Publish
    BY <1>3, <2>1, HandsPublish DEF subVars
  <2> QED
    BY <2>1, <2>2 DEF Stream!StreamNext
<1>4. CASE Emit
  BY <1>2, <1>4 DEF Emit, fileVars
<1>5. CASE FailDelivers
  BY <1>2, <1>5 DEF FailDelivers, fileVars
<1>6. spill' \in Seq(Nat) /\ Len(spill') \in Nat
  BY LenProperties DEF LogInv, LogTypes
<1>7. ASSUME NEW n \in Nat, spill' = Written(n) PROVE Len(spill) <= Len(spill')
  <2>1. PICK line : line = (IF fragment THEN Torn ELSE n) /\ line \in Nat
    BY DEF Torn
  <2>2. spill' = Append(spill, line)
    BY <1>7, <2>1 DEF Written
  <2> QED
    BY <1>1, <2>1, <2>2
<1>8. CASE AppendSettles
  <2>1. Head(queue) \in Nat
    BY <1>1, <1>8, QueueShifted DEF AppendSettles
  <2>2. Len(spill) <= Len(spill')
    BY <1>7, <1>8, <2>1 DEF AppendSettles
  <2> QED
    BY <1>3, <1>6, <1>8, <2>2 DEF AppendSettles
<1>9. CASE AppendFails
  <2>1. UNCHANGED <<server, seq, spill, subVars>> /\ sound' = FALSE
    BY <1>9 DEF AppendFails
  <2> QED
    BY <1>1, <1>3, <2>1
<1>10. CASE BootEmits
  <2>1. server = "booting" /\ seq' = seq + 1 /\ UNCHANGED <<server, subVars>>
    BY <1>10 DEF BootEmits
  <2>0. sound' => sound
    <3>1. sound' = sound \/ sound' = FALSE
      BY <1>10 DEF BootEmits
    <3> QED
      BY <3>1
  <2>2. Len(spill) <= Len(spill')
    <3>1. CASE spill' = Written(seq + 1)
      BY <1>1, <1>7, <3>1
    <3>2. CASE spill' = spill
      BY <1>1, <3>2
    <3> QED
      BY <1>10, <3>1, <3>2 DEF BootEmits
  <2> QED
    BY <1>3, <1>6, <2>0, <2>1, <2>2
<1>11. CASE Serve
  BY <1>1, <1>3, <1>11 DEF Serve, fileVars
<1>12. CASE UNCHANGED vars
  BY <1>1, <1>3, <1>12 DEF vars, fileVars
<1>13. CASE Crash
  <2>1. ConnInv'
    BY <1>13, CrashCloses
  <2>2. Stream!Restart
    BY <1>1, <1>13, CrashRestarts
  <2> QED
    BY <2>1, <2>2 DEF Stream!StreamNext
<1>14. ASSUME NEW s \in Subscribers, NEW after \in 0..(seq + 1), Subscribe(s, after)
       PROVE  ConnInv' /\ Stream!StreamNext
  <2>1. after \in Nat
    BY <1>1
  <2>2. ConnInv' /\ from'[s] = after
    BY <1>1, <1>14, <2>1, SubscribeKeeps
  <2>3. \A r \in Subscribers \ {s} : UNCHANGED <<from[r], got[r]>>
    BY <1>1, <1>14, <2>1, SubscribeKeeps
  <2>4. got'[s] = <<Gap>> \/ \E last \in after..seq : got'[s] = Run(after + 1, last)
    BY <1>1, <1>14, <2>1, SubscribeKeeps
  <2>5. UNCHANGED <<seq, sound>>
    BY <1>14 DEF Subscribe
  <2>6. Stream!Resume(s)
    BY ZenonT(60), <2>1, <2>2, <2>3, <2>4, <2>5 DEF Stream!Resume, Stream!Run, Run, Gap, Stream!Gap
  <2> QED
    BY <2>2, <2>6 DEF Stream!StreamNext
<1>15. ASSUME NEW s \in Subscribers, Replay(s) PROVE ConnInv' /\ Stream!StreamNext
  <2>1. ConnInv' /\ Hands
    BY <1>1, <1>15, ReplayStartsKeeps, ReplayReadsKeeps, ReplayStopsKeeps DEF Replay
  <2>2. UNCHANGED <<seq, from, sound>>
    BY <1>15 DEF Replay, ReplayStarts, ReplayReads, ReplayFails, ReplayEnds
  <2>3. Stream!Publish
    BY <2>1, <2>2, HandsPublish
  <2> QED
    BY <2>1, <2>3 DEF Stream!StreamNext
<1>16. ASSUME NEW s \in Subscribers, Disconnect(s) PROVE ConnInv' /\ Stream!StreamNext
  <2>1. /\ ConnInv' /\ from'[s] = 0 /\ got'[s] = << >>
        /\ \A r \in Subscribers \ {s} : UNCHANGED <<from[r], got[r]>>
    BY <1>1, <1>16, DisconnectKeeps
  <2>2. UNCHANGED <<seq, sound>>
    BY <1>16 DEF Disconnect
  <2>3. \E last \in 0..seq : << >> = Run(0 + 1, last)
    <3>1. PICK r : r = Run(0 + 1, 0)
      OBVIOUS
    <3>2. r \in Seq(Nat) /\ Len(r) = 0
      BY <3>1, RunFacts
    <3>3. r = << >> /\ 0 \in 0..seq
      BY <1>1, <3>2, EmptySeq
    <3> QED
      BY <3>1, <3>3
  <2>4. Stream!Resume(s)
    BY <2>1, <2>2, <2>3 DEF Stream!Resume, Stream!Run, Run
  <2> QED
    BY <2>1, <2>4 DEF Stream!StreamNext
<1> QED
  BY <1>4, <1>5, <1>8, <1>9, <1>10, <1>11, <1>12, <1>13, <1>14, <1>15, <1>16
  DEF Next, WriteQueue

\* At the start nobody is connected and the ring is empty.
LEMMA StreamStarts == Init => IInv /\ Stream!StreamInit
<1> SUFFICES ASSUME Init PROVE IInv /\ Stream!StreamInit
  OBVIOUS
<1>1. << >> \in Seq(Nat) /\ Len(<< >>) = 0 /\ seq = 0 /\ server = "up"
  BY DEF Init
<1>2. /\ sub = [s \in Subscribers |-> Off] /\ from = [s \in Subscribers |-> 0]
      /\ got = [s \in Subscribers |-> << >>]
  BY DEF Init
<1>3. Orderly(<< >>, seq)
  BY <1>1 DEF Orderly
<1>4. \A s \in Subscribers : SubInv(s)
  BY <1>1, <1>2, <1>3, ConnectionFields DEF SubInv, Holds, CaughtUp
<1>5. ConnInv
  BY <1>1, <1>2, <1>4, ConnectionFields DEF ConnInv
<1>6. RingInv
  BY <1>1, LogAssumption DEF Init, RingInv, Follows
<1>7. Stream!StreamInit
  BY DEF Init, Stream!StreamInit
<1> QED
  BY <1>5, <1>6, <1>7, LogInit DEF IInv

\* IInv is inductive: what storage keeps, the ring, and every connection.
THEOREM StreamInvariant == Spec => []IInv
<1>1. Init => IInv
  BY StreamStarts
<1>2. IInv /\ LogInv' /\ [Next]_vars => IInv'
  BY RingKeeps, StepStreams DEF IInv
<1> QED
  BY <1>1, <1>2, LogInvariant, PTL DEF Spec

\* Every variable has its type in every reachable state.
THEOREM TypeCorrect == Spec => []TypeOK
<1>1. IInv => TypeOK
  BY DEF IInv, LogInv, LogTypes, RingInv, ConnInv, TypeOK
<1> QED
  BY <1>1, StreamInvariant, PTL

\* However a replay and the live stream are interleaved, and whatever was
\* buffered, flushed and read, a subscriber that is live and was told of no gap
\* holds everything up to the last seq.
THEOREM NothingIsMissed == Spec => []LiveIsComplete
<1>1. IInv => LiveIsComplete
  <2> SUFFICES ASSUME IInv, NEW s \in Subscribers, sound, sub[s].mode = "live", ~Told(s)
               PROVE  Mark(s) = seq
    BY DEF LiveIsComplete
  <2>1. SubInv(s)
    BY DEF IInv, ConnInv
  <2>2. ~IsTold(got[s])
    BY DEF Told, Mark, IsTold
  <2>3. EndsAt(got[s], from[s], seq)
    BY <2>1, <2>2 DEF SubInv, CaughtUp
  <2> QED
    BY <2>3 DEF EndsAt, Mark
<1> QED
  BY <1>1, StreamInvariant, PTL

\* The event log implements EventStream: emit, replay, storage failure, crash
\* and boot hand a subscriber nothing but what follows its watermark, or a gap.
THEOREM EventLogImplementsStream == Spec => StreamKept
<1>1. Init => Stream!StreamInit
  BY StreamStarts
<1>2. IInv /\ IInv' /\ [Next]_vars => [Stream!StreamNext]_Stream!streamVars
  BY StepStreams DEF IInv
<1> QED
  BY <1>1, <1>2, StreamInvariant, PTL DEF Spec, StreamKept, Stream!StreamSpec
====
