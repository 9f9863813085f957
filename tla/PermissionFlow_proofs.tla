---- MODULE PermissionFlow_proofs ----
(***************************************************************************)
(* Proofs about PermissionFlow, for any requests and any number of turns:  *)
(* its types, that what an agent was allowed was recorded first, that a    *)
(* request is resolved once and before its turn ends, and that a restart   *)
(* leaves no turn open.  While the server is up the transcript is whole    *)
(* (Transcript); what a restart reads back may have holes (Holed).         *)
(***************************************************************************)
EXTENDS PermissionFlow, FiniteSetTheorems, FunctionTheorems, SequenceTheorems, TLAPS

---------------------------------------------------------------------------
(* Transcripts. *)

Has(s, e) == \E i \in 1..Len(s) : s[i] = e
Once(s, e) == \A i, j \in 1..Len(s) : s[i] = e /\ s[j] = e => i = j
\* Each f has an e before it.
Before(s, e, f) == \A i \in 1..Len(s) : s[i] = f => \E h \in 1..(i - 1) : s[h] = e

\* A turn is over before the next begins.
OneAtATime(s) ==
  \A i, k \in 1..Len(s) : \A t \in Turns :
    i < k /\ s[i] = Started(t) /\ s[k].kind \in {"started", "ended"} =>
      \E j \in (i + 1)..k : s[j] = Ended(t)

\* A request of a turn is resolved before the turn ends.
Settled(s, r, t) ==
  \A h, i \in 1..Len(s) : s[h] = Request(r) /\ s[i] = Ended(t) =>
    \E j \in (h + 1)..(i - 1) : \E x \in Reasons : s[j] = Resolved(r, x)

ResolvedOnce(s, r) ==
  \A i, j \in 1..Len(s) : \A x, y \in Reasons :
    s[i] = Resolved(r, x) /\ s[j] = Resolved(r, y) => i = j

HasResolved(s, r) == \E x \in Reasons : Has(s, Resolved(r, x))

Transcript(s, of, spared) ==
  /\ s \in Seq(Envelopes)
  /\ OneAtATime(s)
  /\ \A t \in Turns : Once(s, Started(t)) /\ Before(s, Started(t), Ended(t))
  /\ \A r \in Requests :
       /\ Once(s, Request(r)) /\ Before(s, Started(of[r]), Request(r))
       /\ ResolvedOnce(s, r)
       /\ \A x \in Reasons : Before(s, Request(r), Resolved(r, x))
       /\ of[r] \notin spared => Settled(s, r, of[r])

\* The same with holes: an end or a resolution may be one, and what is there is
\* in order.
EndsBetween(s) ==
  \A i, k \in 1..Len(s) : \A t \in Turns :
    i < k /\ s[i] = Started(t) /\ s[k].kind \in {"started", "ended"} =>
      \E j \in (i + 1)..k : s[j] \in {Ended(t), Lost(Ended(t))}

InOrder(s, e, f) == \A i, j \in 1..Len(s) : s[i] = e /\ s[j] = f => i < j

SettledOrLost(s, r, t) ==
  \A h, i \in 1..Len(s) : s[h] = Request(r) /\ s[i] = Ended(t) =>
    \E j \in (h + 1)..(i - 1) : \E x \in Reasons :
      s[j] \in {Resolved(r, x), Lost(Resolved(r, x))}

Holed(s, of, spared) ==
  /\ s \in Seq(Lines)
  /\ EndsBetween(s)
  /\ \A r \in Requests :
       /\ Once(s, Request(r))
       /\ of[r] \in Turns => InOrder(s, Started(of[r]), Request(r))
       /\ ResolvedOnce(s, r)
       /\ \A x \in Reasons : InOrder(s, Request(r), Resolved(r, x))
       /\ of[r] \notin spared => SettledOrLost(s, r, of[r])

---------------------------------------------------------------------------
(* What is added to a transcript. *)

\* What kind an envelope is of, and of what.
LEMMA Kinds ==
  /\ \A t : Started(t).kind = "started" /\ Started(t).turn = t
  /\ \A t : Ended(t).kind = "ended" /\ Ended(t).turn = t
  /\ \A r : Request(r).kind = "request" /\ Request(r).req = r
  /\ \A r, x : /\ Resolved(r, x).kind = "resolved" /\ Resolved(r, x).req = r
               /\ Resolved(r, x).reason = x
BY DEF Started, Ended, Request, Resolved

\* A hole is not an envelope.
LEMMA HoleKinds ==
  /\ \A e : Lost(e).kind = "lost" /\ Lost(e).of = e
  /\ \A e \in Envelopes : e.kind # "lost"
BY DEF Lost, Envelopes

\* They are envelopes.
LEMMA EnvelopeTypes ==
  /\ \A t \in Turns : Started(t) \in Envelopes /\ Ended(t) \in Envelopes
  /\ \A r \in Requests : Request(r) \in Envelopes
  /\ \A r \in Requests : \A x \in Reasons : Resolved(r, x) \in Envelopes
BY DEF Started, Ended, Request, Resolved, Envelopes

\* A transcript without holes is one.
LEMMA WithoutHoles == \A s \in Seq(Envelopes) : s \in Seq(Lines)
<1>1. Envelopes \subseteq Lines
  BY DEF Lines
<1> QED
  BY <1>1, SeqMonotonic

\* What boot writes behind what it has read.
LEMMA BehindHoles ==
  ASSUME NEW s \in Seq(Lines), NEW e \in Envelopes, NEW n, n = Append(s, e)
  PROVE  /\ n \in Seq(Lines) /\ Len(s) \in Nat /\ Len(n) = Len(s) + 1
         /\ \A i \in 1..Len(s) : n[i] = s[i]
         /\ n[Len(s) + 1] = e
         /\ \A f : Has(n, f) <=> Has(s, f) \/ f = e
<1>1. e \in Lines
  BY DEF Lines
<1>2. /\ n \in Seq(Lines) /\ Len(s) \in Nat /\ Len(n) = Len(s) + 1
      /\ \A i \in 1..Len(s) : n[i] = s[i]
      /\ n[Len(s) + 1] = e
  BY <1>1, AppendProperties, LenProperties
<1>3. \A f : Has(n, f) <=> Has(s, f) \/ f = e
  BY <1>2 DEF Has
<1> QED
  BY <1>2, <1>3

\* One more envelope, or resolutions of a set of requests for one reason.
OneMore(s, n, e) ==
  /\ n \in Seq(Envelopes) /\ Len(n) = Len(s) + 1
  /\ \A i \in 1..Len(s) : n[i] = s[i]
  /\ n[Len(s) + 1] = e
Resolves(s, n, rs, x) ==
  /\ n \in Seq(Envelopes) /\ Len(s) <= Len(n)
  /\ \A i \in 1..Len(s) : n[i] = s[i]
  /\ \A i \in (Len(s) + 1)..Len(n) : \E r \in rs : n[i] = Resolved(r, x)
  /\ \A r \in rs : \E i \in (Len(s) + 1)..Len(n) : n[i] = Resolved(r, x)
  /\ \A i, j \in (Len(s) + 1)..Len(n) : n[i] = n[j] => i = j

\* An append is one more envelope.
LEMMA AppendIsOneMore ==
  ASSUME NEW s, NEW e, s \in Seq(Envelopes), e \in Envelopes
  PROVE  OneMore(s, Append(s, e), e) /\ s \o <<e>> = Append(s, e)
<1>1. Append(s, e) \in Seq(Envelopes) /\ Len(Append(s, e)) = Len(s) + 1
  BY AppendProperties
<1>2. \A i \in 1..Len(s) : Append(s, e)[i] = s[i]
  BY AppendProperties
<1>3. Append(s, e)[Len(s) + 1] = e
  BY AppendProperties
<1>4. s \o <<e>> = Append(s, e)
  BY AppendIsConcat
<1> QED
  BY <1>1, <1>2, <1>3, <1>4 DEF OneMore

\* One resolution.
LEMMA OneResolves ==
  ASSUME NEW s, NEW n, NEW r, NEW x, s \in Seq(Envelopes), OneMore(s, n, Resolved(r, x))
  PROVE  Resolves(s, n, {r}, x)
<1>1. Len(s) \in Nat /\ Len(n) = Len(s) + 1
  BY LenProperties DEF OneMore
<1> QED
  BY <1>1 DEF OneMore, Resolves

\* What a transcript has then.
LEMMA HasOneMore ==
  ASSUME NEW s, NEW n, NEW e, s \in Seq(Envelopes), OneMore(s, n, e)
  PROVE  \A f : Has(n, f) <=> Has(s, f) \/ f = e
<1>1. Len(s) \in Nat /\ Len(n) = Len(s) + 1
  BY LenProperties DEF OneMore
<1> QED
  BY <1>1 DEF OneMore, Has

\* And when several were resolved.
LEMMA HasResolves ==
  ASSUME NEW s, NEW n, NEW rs, NEW x, s \in Seq(Envelopes), Resolves(s, n, rs, x)
  PROVE  \A f : Has(n, f) <=> Has(s, f) \/ \E r \in rs : f = Resolved(r, x)
<1>1. Len(s) \in Nat /\ Len(n) \in Nat /\ Len(s) <= Len(n)
  BY LenProperties DEF Resolves
<1>2. ASSUME NEW f, Has(n, f) PROVE Has(s, f) \/ \E r \in rs : f = Resolved(r, x)
  BY <1>1, <1>2 DEF Resolves, Has
<1>3. ASSUME NEW f, Has(s, f) PROVE Has(n, f)
  BY <1>1, <1>3 DEF Resolves, Has
<1>4. ASSUME NEW f, NEW r \in rs, f = Resolved(r, x) PROVE Has(n, f)
  BY <1>1, <1>4 DEF Resolves, Has
<1> QED
  BY <1>2, <1>3, <1>4

\* The cancellations of a set of requests, in whatever order.
LEMMA CancelledResolves ==
  ASSUME NEW s, NEW rs, s \in Seq(Envelopes), rs \in SUBSET Requests, IsFiniteSet(rs)
  PROVE  Resolves(s, s \o Cancelled(rs), rs, "cancelled") /\ Cancelled(rs) \in Seq(Envelopes)
<1> DEFINE n == Cardinality(rs)
<1>1. n \in Nat
  BY FS_CardinalityType
<1>2. \E f \in [1..n -> rs] : {f[i] : i \in DOMAIN f} = rs
  <2>1. ExistsBijection(1..n, rs)
    BY FS_CardinalityType
  <2>2. PICK f : f \in Bijection(1..n, rs)
    BY <2>1 DEF ExistsBijection
  <2>3. f \in [1..n -> rs] /\ \A r \in rs : \E i \in 1..n : f[i] = r
    <3>1. f \in Surjection(1..n, rs)
      BY <2>2, Fun_BijectionProperties
    <3> HIDE DEF n
    <3> QED
      BY <3>1 DEF Surjection
  <2> QED
    BY <2>3
<1> DEFINE order == CHOOSE f \in [1..n -> rs] : {f[i] : i \in DOMAIN f} = rs
<1>3. order \in [1..n -> rs] /\ {order[i] : i \in DOMAIN order} = rs
  BY <1>2
<1> HIDE DEF order
<1>4. \A r \in rs : \E i \in 1..n : order[i] = r
  BY <1>3
<1>5. \A i, j \in 1..n : order[i] = order[j] => i = j
  <2>1. order \in Surjection(1..n, rs)
    BY <1>3, <1>4, Fun_IsSurj
  <2>2. IsFiniteSet(1..n) /\ Cardinality(1..n) = n
    BY <1>1, FS_Interval
  <2>3. order \in Injection(1..n, rs)
    BY <2>1, <2>2, FS_Surjection
  <2> QED
    BY <2>3 DEF Injection, IsInjective
<1> DEFINE es == [i \in 1..n |-> Resolved(order[i], "cancelled")]
<1>6. Cancelled(rs) = es
  BY DEF Cancelled, order
<1>7. es \in Seq(Envelopes) /\ Len(es) = n
  BY <1>1, <1>3, EnvelopeTypes DEF Reasons
<1>8. /\ s \o es \in Seq(Envelopes) /\ Len(s \o es) = Len(s) + n /\ Len(s) \in Nat
      /\ \A i \in 1..Len(s) : (s \o es)[i] = s[i]
      /\ \A i \in 1..n : (s \o es)[Len(s) + i] = es[i]
  <2> HIDE DEF es, n
  <2>1. es \in Seq(Envelopes) /\ s \in Seq(Envelopes)
    BY <1>7
  <2>2. /\ s \o es \in Seq(Envelopes) /\ Len(s \o es) = Len(s) + Len(es)
        /\ \A i \in 1..Len(s) : (s \o es)[i] = s[i]
        /\ \A i \in 1..Len(es) : (s \o es)[Len(s) + i] = es[i]
    BY <2>1, ConcatProperties
  <2> QED
    BY <1>7, <2>1, <2>2, LenProperties
<1>9. PICK new : new = s \o es
  OBVIOUS
<1>10. \A i \in 1..n : new[Len(s) + i] = Resolved(order[i], "cancelled")
  BY <1>8, <1>9
<1>11. \A i \in (Len(s) + 1)..Len(new) : i - Len(s) \in 1..n /\ i = Len(s) + (i - Len(s))
  BY <1>1, <1>8, <1>9
<1>12. \A i \in (Len(s) + 1)..Len(new) :
         order[i - Len(s)] \in rs /\ new[i] = Resolved(order[i - Len(s)], "cancelled")
  BY <1>3, <1>10, <1>11
<1>13. \A r \in rs : \E i \in (Len(s) + 1)..Len(new) : new[i] = Resolved(r, "cancelled")
  <2> SUFFICES ASSUME NEW r \in rs
        PROVE  \E i \in (Len(s) + 1)..Len(new) : new[i] = Resolved(r, "cancelled")
    OBVIOUS
  <2>1. PICK i \in 1..n : order[i] = r
    BY <1>4
  <2>2. Len(s) + i \in (Len(s) + 1)..Len(new)
    BY <1>1, <1>8, <1>9
  <2> QED
    BY <1>10, <2>1, <2>2
<1>14. \A i, j \in (Len(s) + 1)..Len(new) : new[i] = new[j] => i = j
  BY <1>5, <1>8, <1>11, <1>12, Kinds
<1> HIDE DEF es, n
<1>15. Resolves(s, new, rs, "cancelled")
  BY SMTT(30), <1>1, <1>8, <1>9, <1>12, <1>13, <1>14 DEF Resolves
<1> QED
  BY <1>6, <1>7, <1>9, <1>15

\* A transcript without envelopes.
LEMMA TranscriptEmpty ==
  ASSUME NEW of, NEW spared
  PROVE  Transcript(<< >>, of, spared) /\ \A e : ~Has(<< >>, e)
<1>1. PICK s : s = << >>
  OBVIOUS
<1>2. s \in Seq(Envelopes) /\ Len(s) = 0
  BY <1>1, EmptySeq
<1>3. \A i \in 1..Len(s) : FALSE
  BY <1>2
<1>4. Transcript(s, of, spared) /\ \A e : ~Has(s, e)
  BY <1>2, <1>3 DEF Transcript, OneAtATime, Once, Before, ResolvedOnce, Settled, Has
<1> QED
  BY <1>1, <1>4

\* The next turn begins when those before it are over.
LEMMA TranscriptStarted ==
  ASSUME NEW s, NEW n, NEW of, NEW spared, NEW t \in Turns,
         Transcript(s, of, spared), OneMore(s, n, Started(t)), ~Has(s, Started(t)),
         \A u \in Turns : Has(s, Started(u)) => Has(s, Ended(u))
  PROVE  Transcript(n, of, spared)
<1>1. /\ Len(s) \in Nat /\ Len(n) = Len(s) + 1 /\ n \in Seq(Envelopes)
      /\ \A i \in 1..Len(s) : n[i] = s[i]
      /\ n[Len(s) + 1] = Started(t)
  BY LenProperties DEF OneMore, Transcript
<1>2. OneAtATime(n)
  <2> SUFFICES ASSUME NEW i \in 1..Len(n), NEW k \in 1..Len(n), NEW u \in Turns,
                      i < k, n[i] = Started(u), n[k].kind \in {"started", "ended"}
        PROVE  \E j \in (i + 1)..k : n[j] = Ended(u)
    BY DEF OneAtATime
  <2>1. i \in 1..Len(s) /\ s[i] = Started(u)
    BY <1>1
  <2>2. CASE k \in 1..Len(s)
    <3>1. PICK j \in (i + 1)..k : s[j] = Ended(u)
      BY <1>1, <2>1, <2>2 DEF Transcript, OneAtATime
    <3> QED
      BY <1>1, <2>1, <2>2, <3>1
  <2>3. CASE k = Len(s) + 1
    <3>1. PICK j \in 1..Len(s) : s[j] = Ended(u)
      BY <2>1 DEF Has
    <3>2. PICK h \in 1..(j - 1) : s[h] = Started(u)
      BY <3>1 DEF Transcript, Before
    <3>3. h = i
      BY <1>1, <2>1, <3>2 DEF Transcript, Once
    <3> QED
      BY <1>1, <2>3, <3>1, <3>2, <3>3
  <2> QED
    BY <1>1, <2>2, <2>3
<1>3. ASSUME NEW u \in Turns PROVE Once(n, Started(u)) /\ Before(n, Started(u), Ended(u))
  <2>1. Once(n, Started(u))
    BY <1>1, Kinds DEF Once, Has, Transcript
  <2>2. Before(n, Started(u), Ended(u))
    BY <1>1, Kinds DEF Before, Transcript
  <2> QED
    BY <2>1, <2>2
<1>4. ASSUME NEW r \in Requests
      PROVE  /\ Once(n, Request(r)) /\ Before(n, Started(of[r]), Request(r))
             /\ ResolvedOnce(n, r)
             /\ \A x \in Reasons : Before(n, Request(r), Resolved(r, x))
             /\ of[r] \notin spared => Settled(n, r, of[r])
  <2>1. Once(n, Request(r))
    BY <1>1, Kinds DEF Once, Transcript
  <2>2. Before(n, Started(of[r]), Request(r))
    BY <1>1, Kinds DEF Before, Transcript
  <2>3. ResolvedOnce(n, r)
    BY <1>1, Kinds DEF ResolvedOnce, Transcript
  <2>4. ASSUME NEW x \in Reasons PROVE Before(n, Request(r), Resolved(r, x))
    BY <1>1, Kinds DEF Before, Transcript
  <2>5. ASSUME of[r] \notin spared PROVE Settled(n, r, of[r])
    BY <1>1, <2>5, Kinds DEF Settled, Transcript
  <2> QED
    BY <2>1, <2>2, <2>3, <2>4, <2>5
<1> QED
  BY <1>1, <1>2, <1>3, <1>4 DEF Transcript

\* A turn ends that is the only one open, and what it owes is resolved.
LEMMA TranscriptEnded ==
  ASSUME NEW s, NEW n, NEW of, NEW spared, NEW t \in Turns,
         Transcript(s, of, spared), OneMore(s, n, Ended(t)), Has(s, Started(t)),
         \A u \in Turns : Has(s, Started(u)) => u = t \/ Has(s, Ended(u)),
         \A r \in Requests : of[r] = t /\ of[r] \notin spared /\ Has(s, Request(r)) =>
           HasResolved(s, r)
  PROVE  Transcript(n, of, spared)
<1>1. /\ Len(s) \in Nat /\ Len(n) = Len(s) + 1 /\ n \in Seq(Envelopes)
      /\ \A i \in 1..Len(s) : n[i] = s[i]
      /\ n[Len(s) + 1] = Ended(t)
  BY LenProperties DEF OneMore, Transcript
<1>2. OneAtATime(n)
  <2> SUFFICES ASSUME NEW i \in 1..Len(n), NEW k \in 1..Len(n), NEW u \in Turns,
                      i < k, n[i] = Started(u), n[k].kind \in {"started", "ended"}
        PROVE  \E j \in (i + 1)..k : n[j] = Ended(u)
    BY DEF OneAtATime
  <2>1. i \in 1..Len(s) /\ s[i] = Started(u)
    BY <1>1
  <2>2. CASE k \in 1..Len(s)
    <3>1. PICK j \in (i + 1)..k : s[j] = Ended(u)
      BY <1>1, <2>1, <2>2 DEF Transcript, OneAtATime
    <3> QED
      BY <1>1, <2>1, <2>2, <3>1
  <2>3. CASE k = Len(s) + 1 /\ u = t
    BY <1>1, <2>1, <2>3
  <2>4. CASE k = Len(s) + 1 /\ u # t
    <3>1. PICK j \in 1..Len(s) : s[j] = Ended(u)
      BY <2>1, <2>4 DEF Has
    <3>2. PICK h \in 1..(j - 1) : s[h] = Started(u)
      BY <3>1 DEF Transcript, Before
    <3>3. h = i
      BY <1>1, <2>1, <3>2 DEF Transcript, Once
    <3> QED
      BY <1>1, <2>4, <3>1, <3>2, <3>3
  <2> QED
    BY <1>1, <2>2, <2>3, <2>4
<1>3. ASSUME NEW u \in Turns PROVE Once(n, Started(u)) /\ Before(n, Started(u), Ended(u))
  <2>1. Once(n, Started(u))
    BY <1>1, Kinds DEF Once, Transcript
  <2>2. Before(n, Started(u), Ended(u))
    BY SMTT(30), <1>1, Kinds DEF Before, Transcript, Has
  <2> QED
    BY <2>1, <2>2
<1>4. ASSUME NEW r \in Requests
      PROVE  /\ Once(n, Request(r)) /\ Before(n, Started(of[r]), Request(r))
             /\ ResolvedOnce(n, r)
             /\ \A x \in Reasons : Before(n, Request(r), Resolved(r, x))
             /\ of[r] \notin spared => Settled(n, r, of[r])
  <2>1. Once(n, Request(r))
    BY <1>1, Kinds DEF Once, Transcript
  <2>2. Before(n, Started(of[r]), Request(r))
    BY <1>1, Kinds DEF Before, Transcript
  <2>3. ResolvedOnce(n, r)
    BY <1>1, Kinds DEF ResolvedOnce, Transcript
  <2>4. ASSUME NEW x \in Reasons PROVE Before(n, Request(r), Resolved(r, x))
    BY <1>1, Kinds DEF Before, Transcript
  <2>5. ASSUME of[r] \notin spared PROVE Settled(n, r, of[r])
    <3> SUFFICES ASSUME NEW h \in 1..Len(n), NEW i \in 1..Len(n),
                        n[h] = Request(r), n[i] = Ended(of[r])
          PROVE  \E j \in (h + 1)..(i - 1) : \E x \in Reasons : n[j] = Resolved(r, x)
      BY DEF Settled
    <3>1. h \in 1..Len(s) /\ s[h] = Request(r)
      BY <1>1, Kinds
    <3>2. CASE i \in 1..Len(s)
      <4>1. PICK j \in (h + 1)..(i - 1) : \E x \in Reasons : s[j] = Resolved(r, x)
        BY <1>1, <2>5, <3>1, <3>2 DEF Transcript, Settled
      <4> QED
        BY <1>1, <3>1, <3>2, <4>1
    <3>3. CASE i = Len(s) + 1
      <4>1. of[r] = t
        BY <1>1, <3>3, Kinds
      <4>2. PICK x \in Reasons, j \in 1..Len(s) : s[j] = Resolved(r, x)
        BY <2>5, <3>1, <4>1 DEF Has, HasResolved
      <4>3. PICK g \in 1..(j - 1) : s[g] = Request(r)
        BY <4>2 DEF Transcript, Before
      <4>4. g = h
        BY <1>1, <3>1, <4>2, <4>3 DEF Transcript, Once
      <4> QED
        BY <1>1, <3>3, <4>2, <4>3, <4>4
    <3> QED
      BY <1>1, <3>2, <3>3
  <2> QED
    BY <2>1, <2>2, <2>3, <2>4, <2>5
<1> QED
  BY <1>1, <1>2, <1>3, <1>4 DEF Transcript

\* A request is stamped with a turn that is open.
LEMMA TranscriptRequest ==
  ASSUME NEW s, NEW n, NEW of, NEW to, NEW spared, NEW more, NEW t \in Turns,
         NEW r \in Requests,
         Transcript(s, of, spared), OneMore(s, n, Request(r)), ~Has(s, Request(r)),
         Has(s, Started(t)), ~Has(s, Ended(t)), spared \subseteq more,
         to[r] = t, \A q \in Requests : q # r => to[q] = of[q]
  PROVE  Transcript(n, to, more)
<1>1. /\ Len(s) \in Nat /\ Len(n) = Len(s) + 1 /\ n \in Seq(Envelopes)
      /\ \A i \in 1..Len(s) : n[i] = s[i]
      /\ n[Len(s) + 1] = Request(r)
  BY LenProperties DEF OneMore, Transcript
<1>2. OneAtATime(n)
  <2> SUFFICES ASSUME NEW i \in 1..Len(n), NEW k \in 1..Len(n), NEW u \in Turns,
                      i < k, n[i] = Started(u), n[k].kind \in {"started", "ended"}
        PROVE  \E j \in (i + 1)..k : n[j] = Ended(u)
    BY DEF OneAtATime
  <2>1. i \in 1..Len(s) /\ s[i] = Started(u) /\ k \in 1..Len(s)
    BY SMTT(30), <1>1, Kinds
  <2>2. PICK j \in (i + 1)..k : s[j] = Ended(u)
    BY <1>1, <2>1 DEF Transcript, OneAtATime
  <2> QED
    BY <1>1, <2>1, <2>2
<1>3. ASSUME NEW u \in Turns PROVE Once(n, Started(u)) /\ Before(n, Started(u), Ended(u))
  <2>1. Once(n, Started(u))
    BY <1>1, Kinds DEF Once, Transcript
  <2>2. Before(n, Started(u), Ended(u))
    BY <1>1, Kinds DEF Before, Transcript
  <2> QED
    BY <2>1, <2>2
<1>4. ASSUME NEW q \in Requests
      PROVE  /\ Once(n, Request(q)) /\ Before(n, Started(to[q]), Request(q))
             /\ ResolvedOnce(n, q)
             /\ \A x \in Reasons : Before(n, Request(q), Resolved(q, x))
             /\ to[q] \notin more => Settled(n, q, to[q])
  <2>1. Once(n, Request(q))
    <3>1. CASE q = r
      BY <1>1, <3>1, Kinds DEF Once, Has
    <3>2. CASE q # r
      <4>1. Once(s, Request(q)) /\ Request(q) # Request(r)
        BY <3>2, Kinds DEF Transcript
      <4> QED
        BY <1>1, <4>1 DEF Once
    <3> QED
      BY <3>1, <3>2
  <2>2. Before(n, Started(to[q]), Request(q))
    <3>1. CASE q = r
      BY <1>1, <3>1, Kinds DEF Before, Has
    <3>2. CASE q # r
      BY SMTT(30), <1>1, <3>2, Kinds DEF Before, Transcript
    <3> QED
      BY <3>1, <3>2
  <2>3. ResolvedOnce(n, q)
    BY <1>1, Kinds DEF ResolvedOnce, Transcript
  <2>4. ASSUME NEW x \in Reasons PROVE Before(n, Request(q), Resolved(q, x))
    BY SMTT(30), <1>1, Kinds DEF Before, Transcript
  <2>5. ASSUME to[q] \notin more PROVE Settled(n, q, to[q])
    <3>1. CASE q = r
      BY <1>1, <3>1, Kinds DEF Settled, Has
    <3>2. CASE q # r
      <4>1. Settled(s, q, to[q])
        BY <2>5, <3>2 DEF Transcript
      <4> QED
        BY SMTT(30), <1>1, <3>2, <4>1, Kinds DEF Settled
    <3> QED
      BY <3>1, <3>2
  <2> QED
    BY <2>1, <2>2, <2>3, <2>4, <2>5
<1> QED
  BY <1>1, <1>2, <1>3, <1>4 DEF Transcript

\* Requests are resolved that were asked and not yet resolved.
LEMMA TranscriptResolved ==
  ASSUME NEW s, NEW n, NEW of, NEW spared, NEW rs, NEW x, rs \in SUBSET Requests, x \in Reasons,
         Transcript(s, of, spared), Resolves(s, n, rs, x),
         \A r \in rs : Has(s, Request(r)) /\ ~HasResolved(s, r)
  PROVE  Transcript(n, of, spared)
<1>1. /\ Len(s) \in Nat /\ Len(n) \in Nat /\ Len(s) <= Len(n) /\ n \in Seq(Envelopes)
      /\ \A i \in 1..Len(s) : n[i] = s[i]
      /\ \A i \in (Len(s) + 1)..Len(n) : \E r \in rs : n[i] = Resolved(r, x)
      /\ \A i, j \in (Len(s) + 1)..Len(n) : n[i] = n[j] => i = j
  BY LenProperties DEF Resolves, Transcript
<1>2. \A i \in (Len(s) + 1)..Len(n) :
        n[i].kind = "resolved" /\ n[i].req \in rs /\ n[i] = Resolved(n[i].req, x)
  BY <1>1, Kinds
<1>3. OneAtATime(n)
  <2> SUFFICES ASSUME NEW i \in 1..Len(n), NEW k \in 1..Len(n), NEW u \in Turns,
                      i < k, n[i] = Started(u), n[k].kind \in {"started", "ended"}
        PROVE  \E j \in (i + 1)..k : n[j] = Ended(u)
    BY DEF OneAtATime
  <2>1. i \in 1..Len(s) /\ s[i] = Started(u) /\ k \in 1..Len(s)
    BY <1>1, <1>2, Kinds
  <2>2. PICK j \in (i + 1)..k : s[j] = Ended(u)
    BY <1>1, <2>1 DEF Transcript, OneAtATime
  <2> QED
    BY <1>1, <2>1, <2>2
<1>4. ASSUME NEW u \in Turns PROVE Once(n, Started(u)) /\ Before(n, Started(u), Ended(u))
  <2>1. Once(n, Started(u))
    BY <1>1, <1>2, Kinds DEF Once, Transcript
  <2>2. Before(n, Started(u), Ended(u))
    BY SMTT(30), <1>1, <1>2, Kinds DEF Before, Transcript
  <2> QED
    BY <2>1, <2>2
<1>5. ASSUME NEW q \in Requests
      PROVE  /\ Once(n, Request(q)) /\ Before(n, Started(of[q]), Request(q))
             /\ ResolvedOnce(n, q)
             /\ \A y \in Reasons : Before(n, Request(q), Resolved(q, y))
             /\ of[q] \notin spared => Settled(n, q, of[q])
  <2>1. Once(n, Request(q))
    BY <1>1, <1>2, Kinds DEF Once, Transcript
  <2>2. Before(n, Started(of[q]), Request(q))
    BY <1>1, <1>2, Kinds DEF Before, Transcript
  <2>3. ResolvedOnce(n, q)
    <3> SUFFICES ASSUME NEW i \in 1..Len(n), NEW j \in 1..Len(n), NEW y \in Reasons,
                        NEW z \in Reasons, n[i] = Resolved(q, y), n[j] = Resolved(q, z)
          PROVE  i = j
      BY DEF ResolvedOnce
    <3>1. CASE i \in 1..Len(s) /\ j \in 1..Len(s)
      BY <1>1, <3>1 DEF Transcript, ResolvedOnce
    <3>2. CASE i \in (Len(s) + 1)..Len(n) /\ j \in (Len(s) + 1)..Len(n)
      <4>1. n[i] = n[j]
        BY <1>2, <3>2, Kinds
      <4> QED
        BY <1>1, <3>2, <4>1
    <3>3. CASE i \in (Len(s) + 1)..Len(n) /\ j \in 1..Len(s)
      BY <1>1, <1>2, <3>3, Kinds DEF HasResolved, Has
    <3>4. CASE j \in (Len(s) + 1)..Len(n) /\ i \in 1..Len(s)
      BY <1>1, <1>2, <3>4, Kinds DEF HasResolved, Has
    <3> QED
      BY <1>1, <3>1, <3>2, <3>3, <3>4
  <2>4. ASSUME NEW y \in Reasons PROVE Before(n, Request(q), Resolved(q, y))
    <3> SUFFICES ASSUME NEW i \in 1..Len(n), n[i] = Resolved(q, y)
          PROVE  \E h \in 1..(i - 1) : n[h] = Request(q)
      BY DEF Before
    <3>1. CASE i \in 1..Len(s)
      <4>1. PICK h \in 1..(i - 1) : s[h] = Request(q)
        BY <1>1, <3>1 DEF Transcript, Before
      <4> QED
        BY <1>1, <3>1, <4>1
    <3>2. CASE i \in (Len(s) + 1)..Len(n)
      <4>1. Has(s, Request(q))
        BY <1>2, <3>2, Kinds
      <4>2. PICK h \in 1..Len(s) : s[h] = Request(q)
        BY <4>1 DEF Has
      <4> QED
        BY <1>1, <3>2, <4>2
    <3> QED
      BY <1>1, <3>1, <3>2
  <2>5. ASSUME of[q] \notin spared PROVE Settled(n, q, of[q])
    <3> SUFFICES ASSUME NEW h \in 1..Len(n), NEW i \in 1..Len(n),
                        n[h] = Request(q), n[i] = Ended(of[q])
          PROVE  \E j \in (h + 1)..(i - 1) : \E y \in Reasons : n[j] = Resolved(q, y)
      BY DEF Settled
    <3>1. h \in 1..Len(s) /\ i \in 1..Len(s) /\ s[h] = Request(q) /\ s[i] = Ended(of[q])
      BY <1>1, <1>2, Kinds
    <3>2. PICK j \in (h + 1)..(i - 1) : \E y \in Reasons : s[j] = Resolved(q, y)
      BY <2>5, <3>1 DEF Transcript, Settled
    <3> QED
      BY <1>1, <3>1, <3>2
  <2> QED
    BY <2>1, <2>2, <2>3, <2>4, <2>5
<1> QED
  BY <1>1, <1>3, <1>4, <1>5 DEF Transcript

\* A whole transcript has no holes.
LEMMA TranscriptIsHoled ==
  ASSUME NEW s, NEW of, NEW spared, Transcript(s, of, spared)
  PROVE  Holed(s, of, spared)
<1>1. Len(s) \in Nat /\ s \in Seq(Lines)
  BY LenProperties, WithoutHoles DEF Transcript
<1>2. EndsBetween(s)
  BY DEF EndsBetween, OneAtATime, Transcript
<1>3. ASSUME NEW r \in Requests
      PROVE  /\ Once(s, Request(r))
             /\ of[r] \in Turns => InOrder(s, Started(of[r]), Request(r))
             /\ ResolvedOnce(s, r)
             /\ \A x \in Reasons : InOrder(s, Request(r), Resolved(r, x))
             /\ of[r] \notin spared => SettledOrLost(s, r, of[r])
  <2>1. Once(s, Request(r)) /\ ResolvedOnce(s, r)
    BY DEF Transcript
  <2>2. ASSUME of[r] \in Turns PROVE InOrder(s, Started(of[r]), Request(r))
    <3> SUFFICES ASSUME NEW i \in 1..Len(s), NEW j \in 1..Len(s),
                        s[i] = Started(of[r]), s[j] = Request(r)
          PROVE  i < j
      BY DEF InOrder
    <3>1. PICK h \in 1..(j - 1) : s[h] = Started(of[r])
      BY DEF Before, Transcript
    <3>2. h \in 1..Len(s) /\ h < j
      BY <1>1, <3>1
    <3>3. h = i
      BY <2>2, <3>1, <3>2 DEF Once, Transcript
    <3> QED
      BY <3>2, <3>3
  <2>3. ASSUME NEW x \in Reasons PROVE InOrder(s, Request(r), Resolved(r, x))
    <3> SUFFICES ASSUME NEW i \in 1..Len(s), NEW j \in 1..Len(s),
                        s[i] = Request(r), s[j] = Resolved(r, x)
          PROVE  i < j
      BY DEF InOrder
    <3>1. PICK h \in 1..(j - 1) : s[h] = Request(r)
      BY DEF Before, Transcript
    <3>2. h \in 1..Len(s) /\ h < j
      BY <1>1, <3>1
    <3>3. h = i
      BY <2>1, <3>1, <3>2 DEF Once
    <3> QED
      BY <3>2, <3>3
  <2>4. ASSUME of[r] \notin spared PROVE SettledOrLost(s, r, of[r])
    BY <2>4 DEF SettledOrLost, Settled, Transcript
  <2> QED
    BY <2>1, <2>2, <2>3, <2>4
<1> QED
  BY <1>1, <1>2, <1>3 DEF Holed

\* A crash cuts what was written short, and some of it may never have landed.
LEMMA HoledCut ==
  ASSUME NEW s, NEW of, NEW spared, NEW n, Holed(s, of, spared),
         n \in Seq(Lines), Len(n) <= Len(s),
         \A i \in 1..Len(n) : n[i] = s[i] \/ (s[i] \in Envelopes /\ n[i] = Lost(s[i]))
  PROVE  Holed(n, of, spared) /\ \A e \in Envelopes : Has(n, e) => Has(s, e)
<1>1. /\ Len(s) \in Nat /\ Len(n) \in Nat /\ 1..Len(n) \subseteq 1..Len(s)
      /\ \A i \in 1..Len(n) : n[i].kind # "lost" => n[i] = s[i]
  BY LenProperties, HoleKinds DEF Holed
<1>2. \A i \in 1..Len(n) : \A e \in Envelopes :
        /\ n[i] = e => s[i] = e
        /\ s[i] \in {e, Lost(e)} => n[i] \in {e, Lost(e)}
  BY <1>1, HoleKinds
<1>3. EndsBetween(n)
  <2> SUFFICES ASSUME NEW i \in 1..Len(n), NEW k \in 1..Len(n), NEW t \in Turns,
                      i < k, n[i] = Started(t), n[k].kind \in {"started", "ended"}
        PROVE  \E j \in (i + 1)..k : n[j] \in {Ended(t), Lost(Ended(t))}
    BY DEF EndsBetween
  <2>1. s[i] = Started(t) /\ s[k] = n[k]
    BY <1>1, <1>2, EnvelopeTypes
  <2>2. PICK j \in (i + 1)..k : s[j] \in {Ended(t), Lost(Ended(t))}
    BY <1>1, <2>1 DEF Holed, EndsBetween
  <2>3. j \in 1..Len(n)
    BY <1>1
  <2> QED
    BY <1>2, <2>2, <2>3, EnvelopeTypes
<1>4. ASSUME NEW r \in Requests
      PROVE  /\ Once(n, Request(r))
             /\ of[r] \in Turns => InOrder(n, Started(of[r]), Request(r))
             /\ ResolvedOnce(n, r)
             /\ \A x \in Reasons : InOrder(n, Request(r), Resolved(r, x))
             /\ of[r] \notin spared => SettledOrLost(n, r, of[r])
  <2>1. \A i \in 1..Len(n) : n[i] = Request(r) => s[i] = Request(r)
    BY <1>2, EnvelopeTypes
  <2>2. \A i \in 1..Len(n) : \A x \in Reasons : n[i] = Resolved(r, x) => s[i] = Resolved(r, x)
    BY <1>2, EnvelopeTypes
  <2>3. \A i \in 1..Len(n) : /\ n[i] = Started(of[r]) => s[i] = Started(of[r])
                             /\ n[i] = Ended(of[r]) => s[i] = Ended(of[r])
    BY <1>1, Kinds
  <2>4. Once(n, Request(r))
    BY <1>1, <2>1 DEF Once, Holed
  <2>5. ASSUME of[r] \in Turns PROVE InOrder(n, Started(of[r]), Request(r))
    BY <1>1, <2>1, <2>3, <2>5 DEF InOrder, Holed
  <2>6. ResolvedOnce(n, r)
    BY <1>1, <2>2 DEF ResolvedOnce, Holed
  <2>7. \A x \in Reasons : InOrder(n, Request(r), Resolved(r, x))
    BY <1>1, <2>1, <2>2 DEF InOrder, Holed
  <2>8. ASSUME of[r] \notin spared PROVE SettledOrLost(n, r, of[r])
    <3> SUFFICES ASSUME NEW h \in 1..Len(n), NEW i \in 1..Len(n),
                        n[h] = Request(r), n[i] = Ended(of[r])
          PROVE  \E j \in (h + 1)..(i - 1) : \E x \in Reasons :
                   n[j] \in {Resolved(r, x), Lost(Resolved(r, x))}
      BY DEF SettledOrLost
    <3>1. s[h] = Request(r) /\ s[i] = Ended(of[r]) /\ h \in 1..Len(s) /\ i \in 1..Len(s)
      BY <1>1, <2>1, <2>3
    <3>2. PICK j \in (h + 1)..(i - 1), x \in Reasons :
            s[j] \in {Resolved(r, x), Lost(Resolved(r, x))}
      BY <2>8, <3>1 DEF Holed, SettledOrLost
    <3>3. j \in 1..Len(n)
      BY <1>1
    <3> QED
      BY <1>2, <3>2, <3>3, EnvelopeTypes
  <2> QED
    BY <2>4, <2>5, <2>6, <2>7, <2>8
<1>5. \A e \in Envelopes : Has(n, e) => Has(s, e)
  BY <1>1, <1>2 DEF Has
<1> QED
  BY <1>3, <1>4, <1>5 DEF Holed

\* More turns are cut.
LEMMA TranscriptCut ==
  ASSUME NEW s, NEW of, NEW spared, NEW more, Transcript(s, of, spared), spared \subseteq more
  PROVE  Transcript(s, of, more)
BY DEF Transcript

---------------------------------------------------------------------------
(* The invariant. *)

Idle ==
  /\ Failed => Up /\ turn = None
  /\ ~Up => /\ turn = None /\ child = None
            /\ pending = {} /\ flying = {} /\ auto = {} /\ appends = {} /\ ~rule

Slot ==
  /\ turn # None => Has(stream, Started(turn)) /\ ~Has(stream, Ended(turn))
  /\ child # None => Has(stream, Started(child))
  /\ turn # None /\ child = turn => open
  /\ fail.victim # None => Has(stream, Started(fail.victim))
  /\ Up => \A t \in Turns : Has(stream, Started(t)) =>
       \/ Has(stream, Ended(t)) \/ t = turn
       \/ Failed /\ fail.victim \in {t, None}

Asked ==
  \A r \in Requests :
    /\ asked[r] = None =>
         /\ r \notin pending \cup flying \cup auto
         /\ choice[r] = "none" /\ audit[r] = << >>
         /\ \A w \in {"decision", "correction"} : <<r, w>> \notin appends
         /\ ~Has(stream, Request(r))
    /\ asked[r] # None /\ Up => Has(stream, Request(r))

\* The child of a turn that is not cut still owes it what is outstanding.
Outstanding ==
  Up => \A r \in Requests :
    /\ asked[r] # None /\ asked[r] \notin cut =>
         IF r \in pending \cup flying THEN asked[r] = turn /\ child = turn
                                      ELSE HasResolved(stream, r)
    /\ r \in pending \cup flying /\ fail.stage \in {"no", "meta"} => ~HasResolved(stream, r)

\* What the audit log has of a request.
Says(a, rs) == \E i \in 1..Len(a) : a[i] \in rs
NoDecision(a) == \A i \in 1..Len(a) : a[i] = "cancelled"
NoCorrection(a) == \A i \in 1..Len(a) : a[i] # "cancelled"
OneDecision(a, d) ==
  /\ \A i \in 1..Len(a) : a[i] # "cancelled" => a[i] = d
  /\ \A i, j \in 1..Len(a) : a[i] # "cancelled" /\ a[j] # "cancelled" => i = j
OneCorrection(a) == \A i, j \in 1..Len(a) : a[i] = "cancelled" /\ a[j] = "cancelled" => i = j

\* A request leaves `pending` when its decision is made, and its decision is
\* recorded once; while storage works it is cancelled when it leaves both maps.
RecordingOf(r) ==
  /\ choice[r] = "none" =>
       r \notin flying /\ <<r, "decision">> \notin appends /\ NoDecision(audit[r])
  /\ choice[r] # "none" => r \notin pending
  /\ choice[r] = "always" => r \in targeted
  /\ <<r, "decision">> \in appends => NoDecision(audit[r])
  /\ OneDecision(audit[r], choice[r])
  /\ ~Failed =>
       /\ OneCorrection(audit[r])
       /\ <<r, "correction">> \in appends => NoCorrection(audit[r])
       /\ r \in pending \cup flying =>
            <<r, "correction">> \notin appends /\ NoCorrection(audit[r])
Recording == Up => \A r \in Requests : RecordingOf(r)

\* What was said was recorded.
Audited ==
  /\ \A r \in Requests :
       /\ reply[r] = "allow" => Says(audit[r], {"allow", "always", "standing"})
       /\ Has(stream, Resolved(r, "answered")) =>
            choice[r] # "none" /\ Says(audit[r], {choice[r]})
  /\ rule => \E r \in targeted : Says(audit[r], {"always"})

\* What is written is whole while the server is up.
Written == IF Up THEN Transcript(stream, asked, cut) ELSE Holed(stream, asked, cut)

Inv == /\ TypeOK /\ Written /\ Idle /\ Slot /\ Asked
       /\ Outstanding /\ Recording /\ Audited /\ RestartClosesTurns

\* What has been told is what the transcript has, and where.
LEMMA ToldHas ==
  ASSUME stream \in Seq(Lines)
  PROVE  /\ \A e : e \in Told <=> Has(stream, e)
         /\ \A e : Has(stream, e) => Position(e) \in 1..Len(stream)
         /\ Len(stream) \in Nat
<1>1. Len(stream) \in Nat /\ DOMAIN stream = 1..Len(stream)
  BY LenProperties
<1>2. ASSUME NEW e, Has(stream, e) PROVE Position(e) \in 1..Len(stream)
  BY <1>1, <1>2 DEF Has, Position
<1> QED
  BY <1>1, <1>2 DEF Told, Has

\* A step that emits nothing, asks nothing and cuts no turn.
LEMMA TranscriptSame ==
  ASSUME Inv, Up, UNCHANGED <<stream, asked>>, cut \subseteq cut'
  PROVE  Transcript(stream', asked', cut')
BY TranscriptCut DEF Inv, Written

\* Of a request that was never asked nothing is recorded.
LEMMA NothingRecorded ==
  ASSUME NEW a, a = << >>
  PROVE  /\ NoDecision(a) /\ NoCorrection(a) /\ OneCorrection(a)
         /\ \A d : OneDecision(a, d)
<1>1. 1..Len(a) = {}
  BY EmptySeq
<1> QED
  BY <1>1 DEF NoDecision, NoCorrection, OneCorrection, OneDecision

\* Nothing has happened yet.
LEMMA InitInv == ASSUME Init PROVE Inv
<1>1. TypeOK
  BY EmptySeq DEF Init, TypeOK, NoFailure, None
<1>2. Transcript(stream, asked, cut) /\ \A e : ~Has(stream, e)
  BY TranscriptEmpty DEF Init
<1>3. \A r \in Requests :
        NoDecision(audit[r]) /\ NoCorrection(audit[r]) /\ OneCorrection(audit[r])
        /\ OneDecision(audit[r], choice[r])
  BY NothingRecorded DEF Init
<1>4. Idle /\ Slot /\ Asked
  BY <1>2 DEF Init, Idle, Slot, Asked, Up, Failed, NoFailure, None
<1>5. Outstanding
  BY <1>2 DEF Init, Outstanding
<1>6. Recording
  BY <1>3 DEF Init, Recording, RecordingOf
<1>7. Audited
  BY <1>2 DEF Init, Audited
<1>8. RestartClosesTurns
  BY DEF Init, RestartClosesTurns
<1> QED
  BY <1>1, <1>2, <1>4, <1>5, <1>6, <1>7, <1>8 DEF Inv, Written, Init, Up

\* What the audit log has when a record was appended.
Appended(a, x, b) ==
  \E X : a \in Seq(X) /\ x \in X /\ b = Append(a, x)

\* What appending one record changes about what the audit log says.
LEMMA AuditGrows ==
  ASSUME NEW a, NEW x, NEW b, Appended(a, x, b)
  PROVE  /\ \A rs : Says(b, rs) <=> Says(a, rs) \/ x \in rs
         /\ NoDecision(b) <=> NoDecision(a) /\ x = "cancelled"
         /\ NoCorrection(b) <=> NoCorrection(a) /\ x # "cancelled"
         /\ NoDecision(a) => OneDecision(b, x)
         /\ x = "cancelled" => \A d : OneDecision(a, d) => OneDecision(b, d)
         /\ NoCorrection(a) => OneCorrection(b)
         /\ x # "cancelled" => (OneCorrection(a) => OneCorrection(b))
<1>1. /\ Len(a) \in Nat /\ Len(b) = Len(a) + 1 /\ b[Len(a) + 1] = x
      /\ \A i \in 1..Len(a) : b[i] = a[i]
  BY AppendProperties, LenProperties DEF Appended
<1>2. \A rs : Says(b, rs) <=> Says(a, rs) \/ x \in rs
  BY <1>1 DEF Says
<1>3. NoDecision(b) <=> NoDecision(a) /\ x = "cancelled"
  BY <1>1 DEF NoDecision
<1>4. NoCorrection(b) <=> NoCorrection(a) /\ x # "cancelled"
  BY <1>1 DEF NoCorrection
<1>5. NoDecision(a) => OneDecision(b, x)
  BY <1>1 DEF NoDecision, OneDecision
<1>6. x = "cancelled" => \A d : OneDecision(a, d) => OneDecision(b, d)
  BY <1>1 DEF OneDecision
<1>7. NoCorrection(a) => OneCorrection(b)
  BY <1>1 DEF NoCorrection, OneCorrection
<1>8. x # "cancelled" => (OneCorrection(a) => OneCorrection(b))
  BY <1>1 DEF OneCorrection
<1> QED
  BY <1>2, <1>3, <1>4, <1>5, <1>6, <1>7, <1>8

\* The records of the requests, in a step that touches none of them.
LEMMA RecordingSame ==
  ASSUME Recording, UNCHANGED <<server, fail, pending, flying, choice, targeted, appends, audit>>
  PROVE  Recording'
BY DEF Recording, RecordingOf, Up, Failed

\* What was said was recorded, in a step that says and records nothing.
LEMMA AuditedSame ==
  ASSUME Audited, UNCHANGED <<reply, audit, choice, targeted, rule>>,
         \A r \in Requests : Has(stream', Resolved(r, "answered")) =>
           Has(stream, Resolved(r, "answered"))
  PROVE  Audited'
BY DEF Audited

\* What was never asked leaves no trace, in a step that asks and answers nothing.
LEMMA AskedSame ==
  ASSUME Asked, UNCHANGED <<server, asked, pending, flying, auto, choice, audit, appends>>,
         \A r \in Requests : Has(stream', Request(r)) <=> Has(stream, Request(r))
  PROVE  Asked'
<1>1. Up' <=> Up
  BY DEF Up
<1>2. ASSUME NEW r \in Requests, asked[r] = None
      PROVE  /\ r \notin pending' \cup flying' \cup auto'
             /\ choice'[r] = "none" /\ audit'[r] = << >>
             /\ \A w \in {"decision", "correction"} : <<r, w>> \notin appends'
             /\ ~Has(stream', Request(r))
  BY <1>2 DEF Asked
<1>3. ASSUME NEW r \in Requests, asked[r] # None, Up PROVE Has(stream', Request(r))
  BY <1>3 DEF Asked
<1> QED
  BY <1>1, <1>2, <1>3 DEF Asked

\* What every step while the server is up may use.
LEMMA WhileUp ==
  ASSUME Inv, Up
  PROVE  /\ Transcript(stream, asked, cut)
         /\ stream \in Seq(Envelopes) /\ Len(stream) \in Nat
         /\ \A e : e \in Told <=> Has(stream, e)
         /\ \A e : Has(stream, e) => Position(e) \in 1..Len(stream)
         /\ turn # None => ~Failed /\ turn \in Turns
         /\ None \notin Turns
BY ToldHas DEF Inv, TypeOK, Written, Transcript, Idle, None, Turns

\* The corrections of a set of requests are appends.
LEMMA CorrectionsType ==
  ASSUME NEW rs, rs \in SUBSET Requests
  PROVE  Corrections(rs) \subseteq Requests \X {"decision", "correction"}
<1>1. \A r \in rs : <<r, "correction">> \in Requests \X {"decision", "correction"}
  OBVIOUS
<1> QED
  BY <1>1 DEF Corrections

\* send.
LEMMA ClaimInv == ASSUME Inv, NEW t \in Turns, Claim(t) PROVE Inv'
<1>1. /\ Up /\ ~Failed /\ turn = None /\ turn' = t /\ ~Has(stream, Started(t))
      /\ stream' = stream \o <<Started(t)>>
      /\ UNCHANGED <<server, fail, child, open, resultSeen, pipe, held, reqVars, logVars, spilled,
                     cut>>
  BY WhileUp DEF Claim, Emit
<1>2. /\ TypeOK /\ Transcript(stream, asked, cut) /\ Idle /\ Slot /\ Asked
      /\ Outstanding /\ Recording /\ Audited
      /\ stream \in Seq(Envelopes) /\ t # None
  BY <1>1, WhileUp DEF Inv
<1>3. OneMore(stream, stream', Started(t)) /\ stream' \in Seq(Envelopes)
  BY <1>1, <1>2, AppendIsOneMore, EnvelopeTypes DEF OneMore
<1>4. \A e : Has(stream', e) <=> Has(stream, e) \/ e = Started(t)
  BY <1>2, <1>3, HasOneMore
<1>5. \A u \in Turns : Has(stream, Started(u)) => Has(stream, Ended(u))
  BY <1>1, <1>2 DEF Slot, None, Turns
<1>6. Transcript(stream', asked', cut')
  BY <1>1, <1>2, <1>3, <1>5, TranscriptStarted DEF reqVars
<1>7. TypeOK'
  BY WithoutHoles, <1>1, <1>2, <1>3 DEF TypeOK, reqVars, logVars
<1>8. ~Has(stream, Ended(t))
  BY <1>1, <1>2 DEF Transcript, Before, Has
<1>9. Slot'
  <2>1. /\ Has(stream', Started(t)) /\ ~Has(stream', Ended(t))
        /\ child # None => Has(stream', Started(child)) /\ child # t
        /\ fail.victim # None => Has(stream', Started(fail.victim))
    BY <1>1, <1>2, <1>4, <1>8, Kinds DEF Slot
  <2>2. \A u \in Turns : Has(stream', Started(u)) => Has(stream', Ended(u)) \/ u = t
    BY <1>4, <1>5, Kinds
  <2> QED
    BY <1>1, <2>1, <2>2 DEF Slot
<1>10. Idle' /\ Asked'
  <2>1. \A r \in Requests : Has(stream', Request(r)) <=> Has(stream, Request(r))
    BY <1>4, Kinds
  <2>2. Asked'
    BY <1>1, <1>2, <2>1, AskedSame DEF reqVars, logVars
  <2> QED
    BY <1>1, <1>2, <2>2 DEF Idle, Up, Failed, reqVars, logVars
<1>11. \A r \in Requests : HasResolved(stream', r) <=> HasResolved(stream, r)
  BY <1>4, Kinds DEF HasResolved
<1>12. Outstanding'
  BY <1>1, <1>2, <1>11 DEF Outstanding, Up, reqVars
<1>13. Recording'
  BY <1>1, <1>2, RecordingSame DEF reqVars, logVars
<1>14. Audited'
  <2>1. \A r \in Requests : Has(stream', Resolved(r, "answered")) =>
          Has(stream, Resolved(r, "answered"))
    BY <1>4, Kinds
  <2> QED
    BY <1>1, <1>2, <2>1, AuditedSame DEF reqVars, logVars
<1>15. RestartClosesTurns'
  BY <1>1 DEF Up, RestartClosesTurns
<1> QED
  BY <1>1, <1>6, <1>7, <1>9, <1>10, <1>12, <1>13, <1>14, <1>15 DEF Inv, Written, Up

\* adapter.send.
LEMMA SpawnInv == ASSUME Inv, Spawn PROVE Inv'
<1>1. /\ Up /\ turn # None /\ child # turn /\ spilled' = Awaited(Started(turn))
      /\ child' = turn /\ open' = TRUE /\ resultSeen' = FALSE /\ pipe' = TRUE
      /\ UNCHANGED <<server, fail, turn, held, reqVars, logVars, stream, cut>>
  BY DEF Spawn
<1>2. /\ TypeOK /\ Transcript(stream, asked, cut) /\ Idle /\ Slot /\ Asked
      /\ Outstanding /\ Recording /\ Audited
  BY <1>1, WhileUp DEF Inv
<1>3. spilled' \in Nat
  BY <1>1, <1>2, WhileUp DEF Awaited, Slot, TypeOK
<1>4. TypeOK'
  BY WithoutHoles, <1>1, <1>2, <1>3 DEF TypeOK, reqVars, logVars
<1>5. Transcript(stream', asked', cut')
  BY <1>1, TranscriptSame DEF reqVars
<1>6. Idle' /\ Slot' /\ Asked'
  BY <1>1, <1>2 DEF Idle, Slot, Asked, Up, Failed, reqVars, logVars
<1>7. Outstanding'
  BY <1>1, <1>2 DEF Outstanding, Up, reqVars
<1>8. Recording' /\ Audited'
  BY <1>1, <1>2, RecordingSame, AuditedSame DEF reqVars, logVars
<1>9. RestartClosesTurns'
  BY <1>1 DEF Up, RestartClosesTurns
<1> QED
  BY <1>1, <1>4, <1>5, <1>6, <1>7, <1>8, <1>9 DEF Inv, Written, Up

\* The child's stdin goes away.
LEMMA PipeBreaksInv == ASSUME Inv, PipeBreaks PROVE Inv'
<1>1. /\ Up /\ pipe' = FALSE
      /\ UNCHANGED <<server, fail, turn, child, open, resultSeen, held, reqVars, logVars, outVars,
                     cut>>
  BY DEF PipeBreaks
<1>2. /\ TypeOK /\ Idle /\ Slot /\ Asked /\ Outstanding /\ Recording /\ Audited
  BY DEF Inv
<1>3. TypeOK'
  BY WithoutHoles, <1>1, <1>2 DEF TypeOK, reqVars, logVars, outVars
<1>4. Transcript(stream', asked', cut')
  BY <1>1, TranscriptSame DEF reqVars, outVars
<1>5. Idle' /\ Slot' /\ Asked'
  BY <1>1, <1>2 DEF Idle, Slot, Asked, Up, Failed, reqVars, logVars, outVars
<1>6. Outstanding'
  BY <1>1, <1>2 DEF Outstanding, Up, reqVars, outVars
<1>7. Recording' /\ Audited'
  BY <1>1, <1>2, RecordingSame, AuditedSame DEF reqVars, logVars, outVars
<1>8. RestartClosesTurns'
  BY <1>1 DEF Up, RestartClosesTurns
<1> QED
  BY <1>1, <1>3, <1>4, <1>5, <1>6, <1>7, <1>8 DEF Inv, Written, Up

\* A record of the child ends the turn in the slot.
LEMMA RecordEndsTurnInv == ASSUME Inv, RecordEndsTurn PROVE Inv'
<1>1. /\ Up /\ child # None /\ turn' = None /\ open' = FALSE /\ resultSeen' = TRUE
      /\ UNCHANGED <<server, fail, child, pipe, held, reqVars, logVars, spilled>>
  BY DEF RecordEndsTurn
<1>2. /\ TypeOK /\ Transcript(stream, asked, cut) /\ Idle /\ Slot /\ Asked
      /\ Outstanding /\ Recording /\ Audited /\ stream \in Seq(Envelopes)
  BY <1>1, WhileUp DEF Inv
<1>3. CASE turn = None
  <2>1. UNCHANGED <<stream, cut>>
    BY <1>3 DEF RecordEndsTurn
  <2>2. TypeOK'
    BY WithoutHoles, <1>1, <1>2, <2>1 DEF TypeOK, reqVars, logVars
  <2>3. Transcript(stream', asked', cut')
    BY <1>1, <1>2, <2>1 DEF reqVars
  <2>4. Idle' /\ Slot'
    BY <1>1, <1>2, <1>3, <2>1 DEF Idle, Slot, Up, Failed, reqVars, logVars
  <2>5. Asked' /\ Recording' /\ Audited'
    BY <1>1, <1>2, <2>1, AskedSame, RecordingSame, AuditedSame DEF reqVars, logVars
  <2>6. Outstanding'
    BY <1>1, <1>2, <1>3, <2>1 DEF Outstanding, Up, reqVars
  <2>7. RestartClosesTurns'
    BY <1>1 DEF Up, RestartClosesTurns
  <2> QED
    BY <1>1, <2>2, <2>3, <2>4, <2>5, <2>6, <2>7 DEF Inv, Written, Up
<1>4. CASE turn # None
  <2> DEFINE owed == Of(pending \cup flying, turn)
  <2>1. ~Failed /\ turn \in Turns
    BY <1>1, <1>4, WhileUp
  <2>2. stream' = stream \o <<Ended(turn)>> /\ cut' = IF owed # {} THEN cut \cup {turn} ELSE cut
    BY <1>4, <2>1 DEF RecordEndsTurn, Emit
  <2>3. OneMore(stream, stream', Ended(turn)) /\ stream' \in Seq(Envelopes)
    BY <1>2, <2>1, <2>2, AppendIsOneMore, EnvelopeTypes DEF OneMore
  <2>4. \A e : Has(stream', e) <=> Has(stream, e) \/ e = Ended(turn)
    BY <1>2, <2>3, HasOneMore
  <2>5. \A r \in Requests : asked[r] # None /\ asked[r] \notin cut' =>
          r \notin pending \cup flying /\ HasResolved(stream, r)
    BY <1>1, <1>2, <2>2 DEF Outstanding, Of
  <2>6. Transcript(stream', asked', cut')
    <3>1. Transcript(stream, asked, cut')
      BY <1>2, <2>2, TranscriptCut
    <3>2. Has(stream, Started(turn))
      BY <1>2, <1>4 DEF Slot
    <3>3. \A u \in Turns : Has(stream, Started(u)) => u = turn \/ Has(stream, Ended(u))
      BY <1>1, <1>2, <2>1 DEF Slot
    <3>4. \A r \in Requests : asked[r] = turn /\ asked[r] \notin cut' /\ Has(stream, Request(r))
            => HasResolved(stream, r)
      BY <1>4, <2>5
    <3>5. Transcript(stream', asked, cut')
      BY <2>1, <2>3, <3>1, <3>2, <3>3, <3>4, TranscriptEnded
    <3> QED
      BY <1>1, <3>5 DEF reqVars
  <2> HIDE DEF owed
  <2>7. TypeOK'
    <3>1. cut' \subseteq Turns
      BY <1>2, <2>1, <2>2 DEF TypeOK
    <3> QED
      BY WithoutHoles, <1>1, <1>2, <2>3, <3>1 DEF TypeOK, reqVars, logVars
  <2>8. Slot'
    <3>1. /\ child # None => Has(stream', Started(child))
          /\ fail.victim # None => Has(stream', Started(fail.victim))
      BY <1>2, <2>4 DEF Slot
    <3>2. \A t \in Turns : Has(stream', Started(t)) => Has(stream', Ended(t))
      BY <1>1, <1>2, <2>1, <2>4, Kinds DEF Slot
    <3> QED
      BY <1>1, <3>1, <3>2 DEF Slot
  <2>9. Idle' /\ Asked' /\ Recording' /\ Audited'
    <3>1. /\ \A r \in Requests : Has(stream', Request(r)) <=> Has(stream, Request(r))
          /\ \A r \in Requests : Has(stream', Resolved(r, "answered")) =>
               Has(stream, Resolved(r, "answered"))
      BY <2>4, Kinds
    <3>2. Asked' /\ Recording' /\ Audited'
      BY <1>1, <1>2, <3>1, AskedSame, RecordingSame, AuditedSame DEF reqVars, logVars
    <3> QED
      BY <1>1, <1>2, <3>2 DEF Idle, Up, Failed, reqVars, logVars
  <2>10. Outstanding'
    <3>1. \A r \in Requests : HasResolved(stream', r) <=> HasResolved(stream, r)
      BY <2>4, Kinds DEF HasResolved
    <3> QED
      BY <1>1, <1>2, <2>5, <3>1 DEF Outstanding, Up, reqVars
  <2>11. RestartClosesTurns'
    BY <1>1 DEF Up, RestartClosesTurns
  <2> QED
    BY <1>1, <2>6, <2>7, <2>8, <2>9, <2>10, <2>11 DEF Inv, Written, Up
<1> QED
  BY <1>3, <1>4

\* The child closes: the sweep resolves what its turn owes, then ends the turn.
LEMMA ChildClosesInv == ASSUME Inv, ChildCloses PROVE Inv'
<1> DEFINE swept == IF turn = None THEN {} ELSE Of(pending \cup flying, turn)
           ends == turn # None /\ ~resultSeen
<1>1. /\ Up /\ child # None /\ child' = None /\ open' = FALSE /\ pipe' = FALSE /\ held' = {}
      /\ pending' = pending \ swept /\ flying' = flying \ swept
      /\ appends' = appends \cup Corrections(swept)
      /\ Emit(Cancelled(swept) \o IF ends THEN <<Ended(turn)>> ELSE << >>)
      /\ turn' = IF ends THEN None ELSE turn
      /\ UNCHANGED <<server, fail, resultSeen, asked, targeted, auto, choice, rule, audit, reply,
                     spilled, cut>>
  BY DEF ChildCloses
<1>2. /\ TypeOK /\ Transcript(stream, asked, cut) /\ Idle /\ Slot /\ Asked
      /\ Outstanding /\ Recording /\ Audited /\ stream \in Seq(Envelopes)
  BY <1>1, WhileUp DEF Inv
<1>3. /\ swept \in SUBSET Requests /\ IsFiniteSet(swept)
      /\ \A r \in swept : /\ asked[r] = turn /\ r \in pending \cup flying /\ turn # None
      /\ \A r \in pending \cup flying : asked[r] = turn /\ turn # None => r \in swept
  <2>1. swept \in SUBSET Requests
    BY <1>2 DEF TypeOK, Of
  <2>2. IsFiniteSet(swept)
    BY <2>1, FS_Subset, PermissionAssumption
  <2> QED
    BY <2>1, <2>2 DEF Of
<1>4. turn # None => ~Failed /\ turn \in Turns
  BY <1>1, WhileUp
<1>5. \A r \in Requests : /\ <<r, "decision">> \in appends' <=> <<r, "decision">> \in appends
                          /\ <<r, "correction">> \in appends' <=>
                               <<r, "correction">> \in appends \/ r \in swept
  BY <1>1 DEF Corrections
<1>6. appends' \subseteq Requests \X {"decision", "correction"}
  <2>1. Corrections(swept) \subseteq Requests \X {"decision", "correction"}
    BY <1>3, CorrectionsType
  <2> QED
    BY WithoutHoles, <1>1, <1>2, <2>1 DEF TypeOK
<1> HIDE DEF swept
\* With the sweep told, and then with the end.
<1>7. PICK mid : /\ IF Failed THEN mid = stream ELSE mid = stream \o Cancelled(swept)
                 /\ IF ends THEN stream' = Append(mid, Ended(turn)) ELSE stream' = mid
  <2>1. CASE Failed
    BY <1>1, <1>4, <2>1 DEF Emit
  <2>2. CASE ~Failed
    <3> DEFINE es == Cancelled(swept)
               m == stream \o es
    <3>1. m \in Seq(Envelopes) /\ es \in Seq(Envelopes)
      <4>1. Resolves(stream, m, swept, "cancelled")
        BY <1>2, <1>3, CancelledResolves
      <4>2. es \in Seq(Envelopes)
        BY <1>2, <1>3, CancelledResolves
      <4> QED
        BY <4>1, <4>2 DEF Resolves
    <3> HIDE DEF es
    <3>2. stream' = stream \o (es \o IF ends THEN <<Ended(turn)>> ELSE << >>)
      BY <1>1, <2>2 DEF Emit, es
    <3>3. CASE ends
      <4>1. Ended(turn) \in Envelopes
        BY <1>4, <3>3, EnvelopeTypes
      <4>2. <<Ended(turn)>> \in Seq(Envelopes)
        BY <4>1
      <4>3. stream' = m \o <<Ended(turn)>>
        BY <1>2, <3>1, <3>2, <3>3, <4>2, ConcatAssociative
      <4>4. stream' = Append(m, Ended(turn))
        BY <3>1, <4>1, <4>3, AppendIsOneMore
      <4> QED
        BY <2>2, <3>3, <4>4 DEF es
    <3>4. CASE ~ends
      <4>1. es \o << >> = es
        BY <3>1, ConcatEmptySeq
      <4> QED
        BY <2>2, <3>2, <3>4, <4>1 DEF es
    <3> QED
      BY <3>3, <3>4
  <2> QED
    BY <2>1, <2>2
<1>8. \A r \in swept : Has(stream, Request(r)) /\ ~HasResolved(stream, r) /\ ~Failed
  BY <1>1, <1>2, <1>3, <1>4 DEF Asked, Outstanding, Failed
<1>9. /\ Transcript(mid, asked, cut) /\ mid \in Seq(Envelopes)
      /\ \A e : Has(mid, e) <=> Has(stream, e) \/ \E r \in swept : e = Resolved(r, "cancelled")
  <2>1. CASE Failed
    BY <1>2, <1>7, <1>8, <2>1
  <2>2. CASE ~Failed
    <3>1. Resolves(stream, mid, swept, "cancelled")
      BY <1>2, <1>3, <1>7, <2>2, CancelledResolves
    <3>2. Transcript(mid, asked, cut)
      BY <1>2, <1>3, <1>8, <3>1, TranscriptResolved DEF Reasons
    <3>3. \A e : Has(mid, e) <=> Has(stream, e) \/ \E r \in swept : e = Resolved(r, "cancelled")
      BY <1>2, <3>1, HasResolves
    <3> QED
      BY <3>1, <3>2, <3>3 DEF Resolves
  <2> QED
    BY <2>1, <2>2
<1>10. \A r \in Requests : HasResolved(mid, r) <=> HasResolved(stream, r) \/ r \in swept
  BY <1>9, Kinds DEF HasResolved, Reasons
<1>11. \A r \in Requests : asked[r] # None /\ asked[r] \notin cut =>
         /\ r \notin pending' \cup flying'
         /\ HasResolved(mid, r)
  BY <1>1, <1>2, <1>3, <1>10 DEF Outstanding
<1>12. /\ Transcript(stream', asked, cut) /\ stream' \in Seq(Envelopes)
       /\ \A e : Has(stream', e) <=> Has(mid, e) \/ (ends /\ e = Ended(turn))
  <2>1. CASE ~ends
    BY <1>7, <1>9, <2>1
  <2>2. CASE ends
    <3>1. OneMore(mid, stream', Ended(turn))
      BY <1>4, <1>7, <1>9, <2>2, AppendIsOneMore, EnvelopeTypes
    <3>2. Has(mid, Started(turn))
      BY <1>2, <1>9, <2>2 DEF Slot
    <3>3. \A u \in Turns : Has(mid, Started(u)) => u = turn \/ Has(mid, Ended(u))
      BY <1>1, <1>2, <1>4, <1>9, <2>2, Kinds DEF Slot
    <3>4. \A r \in Requests : asked[r] = turn /\ asked[r] \notin cut /\ Has(mid, Request(r))
            => HasResolved(mid, r)
      BY <1>11, <2>2
    <3>5. Transcript(stream', asked, cut)
      BY <1>4, <1>9, <2>2, <3>1, <3>2, <3>3, <3>4, TranscriptEnded
    <3>6. \A e : Has(stream', e) <=> Has(mid, e) \/ e = Ended(turn)
      BY <1>9, <3>1, HasOneMore
    <3> QED
      BY <2>2, <3>1, <3>5, <3>6 DEF OneMore
  <2> QED
    BY <2>1, <2>2
<1>13. TypeOK'
  BY WithoutHoles, <1>1, <1>2, <1>6, <1>12 DEF TypeOK
<1>14. Idle'
  BY <1>1, <1>2 DEF Idle, Up, Failed
<1>15. Slot'
  <2>1. /\ turn' # None => Has(stream', Started(turn')) /\ ~Has(stream', Ended(turn'))
        /\ fail.victim # None => Has(stream', Started(fail.victim))
    BY <1>1, <1>2, <1>9, <1>12, Kinds DEF Slot
  <2>2. ASSUME NEW t \in Turns, Has(stream', Started(t))
        PROVE  Has(stream', Ended(t)) \/ t = turn' \/ (Failed /\ fail.victim \in {t, None})
    BY <1>1, <1>2, <1>9, <1>12, <2>2, Kinds DEF Slot
  <2> QED
    BY <1>1, <2>1, <2>2 DEF Slot, Failed
<1>16. Asked'
  <2>1. \A r \in Requests : Has(stream', Request(r)) <=> Has(stream, Request(r))
    BY <1>9, <1>12, Kinds
  <2> QED
    BY <1>1, <1>2, <1>3, <1>4, <1>5, <2>1 DEF Asked, Up
<1>17. Outstanding'
  <2>1. \A r \in Requests : HasResolved(stream', r) <=> HasResolved(mid, r)
    BY <1>12, Kinds DEF HasResolved
  <2> QED
    BY <1>1, <1>2, <1>10, <1>11, <2>1 DEF Outstanding
<1>18. Recording'
  <2> SUFFICES ASSUME NEW r \in Requests PROVE RecordingOf(r)'
    BY DEF Recording
  <2> QED
    BY <1>1, <1>2, <1>3, <1>5 DEF Recording, RecordingOf, Failed
<1>19. Audited'
  <2>1. \A r \in Requests : Has(stream', Resolved(r, "answered")) =>
          Has(stream, Resolved(r, "answered"))
    BY <1>9, <1>12, Kinds
  <2> QED
    BY <1>1, <1>2, <2>1, AuditedSame
<1>20. RestartClosesTurns'
  BY <1>1 DEF Up, RestartClosesTurns
<1> QED
  BY <1>1, <1>12, <1>13, <1>14, <1>15, <1>16, <1>17, <1>18, <1>19, <1>20 DEF Inv, Written, Up

\* The child asks.
LEMMA AskInv == ASSUME Inv, NEW r \in Requests, Ask(r) PROVE Inv'
<1>1. /\ Up /\ child # None /\ asked[r] = None
      /\ UNCHANGED <<server, fail, turn, child, open, resultSeen, pipe, flying, choice, rule,
                     logVars, spilled>>
      /\ held' = held \cup {r}
  BY DEF Ask
<1>2. /\ TypeOK /\ Transcript(stream, asked, cut) /\ Idle /\ Slot /\ Asked
      /\ Outstanding /\ Recording /\ Audited /\ stream \in Seq(Envelopes)
  BY <1>1, WhileUp DEF Inv
<1>3. CASE turn = None
  <2>1. UNCHANGED <<asked, targeted, pending, auto, stream, cut>>
    BY <1>3 DEF Ask
  <2>2. TypeOK'
    BY WithoutHoles, <1>1, <1>2, <2>1 DEF TypeOK, logVars
  <2>3. Transcript(stream', asked', cut')
    BY <1>1, <1>2, <2>1
  <2>4. Idle' /\ Slot'
    BY <1>1, <1>2, <2>1 DEF Idle, Slot, Up, Failed, logVars
  <2>5. Asked' /\ Recording' /\ Audited'
    BY <1>1, <1>2, <2>1, AskedSame, RecordingSame, AuditedSame DEF logVars
  <2>6. Outstanding'
    BY <1>1, <1>2, <2>1 DEF Outstanding, Up
  <2>7. RestartClosesTurns'
    BY <1>1 DEF Up, RestartClosesTurns
  <2> QED
    BY <1>1, <2>2, <2>3, <2>4, <2>5, <2>6, <2>7 DEF Inv, Written, Up
<1>4. CASE turn # None
  <2>1. ~Failed /\ turn \in Turns
    BY <1>1, <1>4, WhileUp
  <2>2. /\ asked' = [asked EXCEPT ![r] = turn] /\ pending' = pending \cup {r}
        /\ targeted' \in {targeted, targeted \cup {r}} /\ auto' \in {auto, auto \cup {r}}
        /\ stream' = stream \o <<Request(r)>>
        /\ cut' = IF child = turn THEN cut ELSE cut \cup {turn}
    BY <1>4, <2>1 DEF Ask, Emit
  <2>3. asked'[r] = turn /\ \A q \in Requests : q # r => asked'[q] = asked[q]
    BY <1>2, <2>2 DEF TypeOK
  <2>4. OneMore(stream, stream', Request(r)) /\ stream' \in Seq(Envelopes)
    BY <1>2, <2>2, AppendIsOneMore, EnvelopeTypes DEF OneMore
  <2>5. \A e : Has(stream', e) <=> Has(stream, e) \/ e = Request(r)
    BY <1>2, <2>4, HasOneMore
  <2>6. /\ ~Has(stream, Request(r)) /\ Has(stream, Started(turn)) /\ ~Has(stream, Ended(turn))
        /\ r \notin pending \cup flying \cup auto /\ choice[r] = "none" /\ audit[r] = << >>
        /\ \A w \in {"decision", "correction"} : <<r, w>> \notin appends
    BY <1>1, <1>2, <1>4 DEF Asked, Slot
  <2>7. Transcript(stream', asked', cut')
    <3>1. cut \subseteq cut'
      BY <2>2
    <3> QED
      BY <1>2, <2>1, <2>3, <2>4, <2>6, <3>1, TranscriptRequest
  <2>8. ~HasResolved(stream, r)
    <3> SUFFICES ASSUME NEW x \in Reasons, Has(stream, Resolved(r, x)) PROVE FALSE
      BY DEF HasResolved
    <3>1. Before(stream, Request(r), Resolved(r, x))
      BY <1>2 DEF Transcript
    <3>2. Has(stream, Request(r))
      BY <1>2, <3>1, LenProperties DEF Before, Has
    <3> QED
      BY <2>6, <3>2
  <2>9. TypeOK'
    <3>1. /\ asked' \in [Requests -> Turns \cup {None}] /\ cut' \subseteq Turns
          /\ targeted' \subseteq Requests /\ pending' \subseteq Requests
          /\ auto' \subseteq Requests /\ held' \subseteq Requests
      BY <1>1, <1>2, <2>1, <2>2 DEF TypeOK
    <3> QED
      BY WithoutHoles, <1>1, <1>2, <2>4, <3>1 DEF TypeOK, logVars
  <2>10. Idle' /\ Slot'
    <3>1. Slot'
      BY <1>1, <1>2, <2>5, Kinds DEF Slot, Up, Failed
    <3> QED
      BY <1>1, <1>2, <2>1, <3>1 DEF Idle, Up, Failed
  <2>11. Asked'
    <3> SUFFICES ASSUME NEW q \in Requests
          PROVE  /\ asked'[q] = None =>
                      /\ q \notin pending' \cup flying' \cup auto'
                      /\ choice'[q] = "none" /\ audit'[q] = << >>
                      /\ \A w \in {"decision", "correction"} : <<q, w>> \notin appends'
                      /\ ~Has(stream', Request(q))
                 /\ asked'[q] # None /\ Up => Has(stream', Request(q))
      BY <1>1 DEF Asked, Up
    <3>1. CASE q = r
      BY <1>4, <2>3, <2>5, <3>1
    <3>2. CASE q # r
      BY <1>1, <1>2, <2>2, <2>3, <2>5, <3>2, Kinds DEF Asked, logVars
    <3> QED
      BY <3>1, <3>2
  <2>12. Outstanding'
    <3>1. \A q \in Requests : HasResolved(stream', q) <=> HasResolved(stream, q)
      BY <2>5, Kinds DEF HasResolved
    <3> SUFFICES ASSUME NEW q \in Requests
          PROVE  /\ asked'[q] # None /\ asked'[q] \notin cut' =>
                      IF q \in pending' \cup flying' THEN asked'[q] = turn /\ child = turn
                                                     ELSE HasResolved(stream', q)
                 /\ q \in pending' \cup flying' => ~HasResolved(stream', q)
      BY <1>1 DEF Outstanding
    <3>2. CASE q = r
      BY <2>2, <2>3, <2>8, <3>1, <3>2
    <3>3. CASE q # r
      BY <1>1, <1>2, <2>1, <2>2, <2>3, <3>1, <3>3 DEF Outstanding, Failed
    <3> QED
      BY <3>2, <3>3
  <2>13. Recording'
    <3> SUFFICES ASSUME NEW q \in Requests PROVE RecordingOf(q)'
      BY DEF Recording
    <3>1. CASE q = r
      <4>1. /\ NoDecision(audit[r]) /\ NoCorrection(audit[r]) /\ OneCorrection(audit[r])
            /\ OneDecision(audit[r], choice[r])
        BY <2>6, NothingRecorded
      <4> QED
        BY <1>1, <2>6, <3>1, <4>1 DEF RecordingOf, logVars
    <3>2. CASE q # r
      BY <1>1, <1>2, <2>2, <3>2 DEF Recording, RecordingOf, Failed, logVars
    <3> QED
      BY <3>1, <3>2
  <2>14. Audited'
    <3>1. \A q \in Requests : Has(stream', Resolved(q, "answered")) <=>
            Has(stream, Resolved(q, "answered"))
      BY <2>5, Kinds
    <3> QED
      BY <1>1, <1>2, <2>2, <3>1 DEF Audited, logVars
  <2>15. RestartClosesTurns'
    BY <1>1 DEF Up, RestartClosesTurns
  <2> QED
    BY <1>1, <2>7, <2>9, <2>10, <2>11, <2>12, <2>13, <2>14, <2>15 DEF Inv, Written, Up
<1> QED
  BY <1>3, <1>4

\* A pending request is taken out of the map and its decision is made.
LEMMA DecideInv ==
  ASSUME Inv, Up, NEW r \in pending, NEW d \in Decisions, Decide(r, d),
         d = "always" => r \in targeted, auto' \subseteq auto, spilled' \in Nat,
         UNCHANGED <<server, fail, turnVars, asked, targeted, rule, audit, reply, stream, cut>>
  PROVE  Inv'
<1>1. /\ pending' = pending \ {r} /\ flying' = flying \cup {r}
      /\ choice' = [choice EXCEPT ![r] = d]
      /\ appends' = appends \cup {<<r, "decision">>}
      /\ UNCHANGED <<turn, child, open, resultSeen, pipe, held>>
  BY DEF Decide, turnVars
<1>2. /\ TypeOK /\ Transcript(stream, asked, cut) /\ Idle /\ Slot /\ Asked
      /\ Outstanding /\ Recording /\ Audited /\ r \in Requests
  BY <1>1, WhileUp DEF Inv, TypeOK
<1>3. /\ asked[r] # None /\ choice[r] = "none" /\ NoDecision(audit[r])
      /\ OneDecision(audit[r], d)
  <2>1. asked[r] # None /\ choice[r] = "none" /\ NoDecision(audit[r])
    BY <1>2 DEF Asked, Recording, RecordingOf
  <2> QED
    BY <2>1 DEF NoDecision, OneDecision
<1>4. choice'[r] = d /\ d # "none" /\ \A q \in Requests : q # r => choice'[q] = choice[q]
  BY <1>1, <1>2 DEF TypeOK, Decisions
<1>5. TypeOK'
  <2>1. /\ choice' \in [Requests -> Decisions \cup {"none"}]
        /\ appends' \subseteq Requests \X {"decision", "correction"}
        /\ pending' \subseteq Requests /\ flying' \subseteq Requests /\ auto' \subseteq Requests
    BY <1>1, <1>2 DEF TypeOK
  <2> QED
    BY WithoutHoles, <1>1, <1>2, <2>1 DEF TypeOK
<1>6. Transcript(stream', asked', cut')
  BY <1>2
<1>7. Idle' /\ Slot'
  BY <1>1, <1>2 DEF Idle, Slot, Up, Failed
<1>8. Asked'
  <2> SUFFICES ASSUME NEW q \in Requests
        PROVE  /\ asked[q] = None =>
                    /\ q \notin pending' \cup flying' \cup auto'
                    /\ choice'[q] = "none" /\ audit[q] = << >>
                    /\ \A w \in {"decision", "correction"} : <<q, w>> \notin appends'
                    /\ ~Has(stream, Request(q))
               /\ asked[q] # None => Has(stream, Request(q))
    BY DEF Asked
  <2>1. CASE q = r
    BY <1>2, <1>3, <2>1 DEF Asked
  <2>2. CASE q # r
    BY <1>1, <1>2, <1>4, <2>2 DEF Asked
  <2> QED
    BY <2>1, <2>2
<1>9. Outstanding'
  <2>1. pending' \cup flying' = pending \cup flying
    BY <1>1
  <2> QED
    BY <1>1, <1>2, <2>1 DEF Outstanding
<1>10. Recording'
  <2> SUFFICES ASSUME NEW q \in Requests PROVE RecordingOf(q)'
    BY DEF Recording
  <2>1. CASE q = r
    <3>1. <<r, "correction">> \in appends' <=> <<r, "correction">> \in appends
      BY <1>1
    <3>2. RecordingOf(r)
      BY <1>2 DEF Recording
    <3> QED
      BY <1>1, <1>2, <1>3, <1>4, <2>1, <3>1, <3>2 DEF RecordingOf, Failed
  <2>2. CASE q # r
    <3>1. \A w : <<q, w>> \in appends' <=> <<q, w>> \in appends
      BY <1>1, <2>2
    <3>2. RecordingOf(q)
      BY <1>2 DEF Recording
    <3> QED
      BY <1>1, <1>4, <2>2, <3>1, <3>2 DEF RecordingOf, Failed
  <2> QED
    BY <2>1, <2>2
<1>11. Audited'
  BY <1>2, <1>3, <1>4 DEF Audited
<1>12. RestartClosesTurns'
  BY DEF Up, RestartClosesTurns
<1> QED
  BY <1>1, <1>5, <1>6, <1>7, <1>8, <1>9, <1>10, <1>11, <1>12 DEF Inv, Written, Up

\* An operator's answer.
LEMMA AnswerInv ==
  ASSUME Inv, NEW r \in Requests, NEW d \in {"allow", "deny", "always"}, Answer(r, d)
  PROVE  Inv'
<1>1. /\ Up /\ r \in pending /\ d \in Decisions /\ Decide(r, d)
      /\ d = "always" => r \in targeted
      /\ UNCHANGED <<server, fail, turnVars, asked, targeted, auto, rule, audit, reply, stream,
                     spilled, cut>>
  BY DEF Answer, Of, Decisions, outVars
<1>2. spilled' \in Nat
  BY <1>1 DEF Inv, TypeOK
<1> QED
  BY <1>1, <1>2, DecideInv

\* A rule's answer, once the request is told.
LEMMA PreapproveInv == ASSUME Inv, NEW r \in Requests, Preapprove(r) PROVE Inv'
<1>1. /\ Up /\ r \in auto /\ auto' \subseteq auto
      /\ spilled' = IF Failed THEN spilled ELSE Awaited(Request(r))
      /\ UNCHANGED <<server, fail, turnVars, asked, targeted, rule, audit, reply, stream, cut>>
  BY DEF Preapprove
<1>2. spilled' \in Nat
  <2>1. Has(stream, Request(r)) /\ spilled \in Nat
    BY <1>1 DEF Inv, Asked, TypeOK
  <2>2. Awaited(Request(r)) \in Nat
    BY <1>1, <2>1, WhileUp DEF Awaited
  <2> QED
    BY <1>1, <2>1, <2>2
<1>3. CASE r \in pending
  <2>1. PICK d \in Decisions : d = "standing"
    BY DEF Decisions
  <2>2. Decide(r, d) /\ d # "always"
    BY <1>3, <2>1 DEF Preapprove
  <2> QED
    BY <1>1, <1>2, <1>3, <2>2, DecideInv
<1>4. CASE r \notin pending
  <2>1. UNCHANGED <<pending, flying, choice, appends, turn, child, open, resultSeen, pipe, held>>
    BY <1>4 DEF Preapprove, turnVars
  <2>2. /\ TypeOK /\ Transcript(stream, asked, cut) /\ Idle /\ Slot /\ Asked
        /\ Outstanding /\ Recording /\ Audited
    BY <1>1, WhileUp DEF Inv
  <2>3. TypeOK'
    BY WithoutHoles, <1>1, <1>2, <2>1, <2>2 DEF TypeOK
  <2>4. Idle' /\ Slot' /\ Outstanding'
    BY <1>1, <2>1, <2>2 DEF Idle, Slot, Outstanding, Up, Failed
  <2>5. Asked'
    BY <1>1, <2>1, <2>2 DEF Asked, Up
  <2>6. Recording' /\ Audited'
    BY <1>1, <2>1, <2>2, RecordingSame, AuditedSame
  <2>7. RestartClosesTurns'
    BY <1>1 DEF Up, RestartClosesTurns
  <2> QED
    BY <1>1, <2>2, <2>3, <2>4, <2>5, <2>6, <2>7 DEF Inv, Written, Up
<1> QED
  BY <1>3, <1>4

\* The audit log where a record was appended, or refused.
LEMMA Settles ==
  ASSUME NEW r \in Requests, NEW x \in Decisions \cup {"cancelled"}, NEW ok \in BOOLEAN, TypeOK,
         audit' = IF ok THEN [audit EXCEPT ![r] = Append(@, x)] ELSE audit
  PROVE  /\ audit' \in [Requests -> Seq(Decisions \cup {"cancelled"})]
         /\ \A q \in Requests : q # r => audit'[q] = audit[q]
         /\ ok => audit'[r] = Append(audit[r], x)
         /\ ~ok => audit'[r] = audit[r]
<1>1. audit \in [Requests -> Seq(Decisions \cup {"cancelled"})]
  BY DEF TypeOK
<1>2. Append(audit[r], x) \in Seq(Decisions \cup {"cancelled"})
  BY <1>1, AppendProperties
<1> QED
  BY <1>1, <1>2

\* A decision record settles: a sweep came first, or the child is answered.
LEMMA DecisionSettlesInv ==
  ASSUME Inv, NEW r \in Requests, NEW ok \in BOOLEAN, DecisionSettles(r, ok)
  PROVE  Inv'
<1>1. /\ Up /\ <<r, "decision">> \in appends
      /\ audit' = IF ok THEN [audit EXCEPT ![r] = Append(@, choice[r])] ELSE audit
      /\ UNCHANGED <<server, fail, turn, child, open, resultSeen, pipe, asked, targeted, pending,
                     auto, choice, spilled, cut>>
  BY DEF DecisionSettles
<1>2. /\ TypeOK /\ Transcript(stream, asked, cut) /\ Idle /\ Slot /\ Asked
      /\ Outstanding /\ Recording /\ Audited /\ stream \in Seq(Envelopes)
  BY <1>1, WhileUp DEF Inv
<1>3. /\ asked[r] # None /\ choice[r] # "none" /\ choice[r] \in Decisions
      /\ NoDecision(audit[r]) /\ r \notin pending
  <2>1. asked[r] # None
    BY <1>1, <1>2 DEF Asked
  <2>2. choice[r] # "none" /\ NoDecision(audit[r]) /\ r \notin pending
    BY <1>1, <1>2 DEF Recording, RecordingOf
  <2> QED
    BY WithoutHoles, <1>2, <2>1, <2>2 DEF TypeOK
<1>4. /\ audit' \in [Requests -> Seq(Decisions \cup {"cancelled"})]
      /\ \A q \in Requests : q # r => audit'[q] = audit[q]
      /\ ok => audit'[r] = Append(audit[r], choice[r])
      /\ ~ok => audit'[r] = audit[r]
  <2>1. choice[r] \in Decisions \cup {"cancelled"}
    BY <1>3
  <2> QED
    BY <1>1, <1>2, <2>1, Settles
<1>5. /\ \A rs : Says(audit'[r], rs) <=> Says(audit[r], rs) \/ (ok /\ choice[r] \in rs)
      /\ NoCorrection(audit'[r]) <=> NoCorrection(audit[r])
      /\ OneCorrection(audit[r]) => OneCorrection(audit'[r])
      /\ OneDecision(audit'[r], choice[r])
  <2>1. CASE ok
    <3>1. PICK a, x, b : a = audit[r] /\ x = choice[r] /\ b = audit'[r]
      OBVIOUS
    <3>2. Appended(a, x, b) /\ x # "cancelled" /\ NoDecision(a)
      <4>1. a \in Seq(Decisions \cup {"cancelled"}) /\ x \in Decisions
        BY <1>2, <1>3, <3>1 DEF TypeOK
      <4>2. b = Append(a, x)
        BY <1>4, <2>1, <3>1
      <4> QED
        BY <1>3, <3>1, <4>1, <4>2 DEF Appended, Decisions
    <3>3. \A rs : Says(b, rs) <=> Says(a, rs) \/ x \in rs
      BY <3>2, AuditGrows
    <3>4. NoCorrection(b) <=> NoCorrection(a)
      BY <3>2, AuditGrows
    <3>5. OneCorrection(a) => OneCorrection(b)
      BY <3>2, AuditGrows
    <3>6. OneDecision(b, x)
      BY <3>2, AuditGrows
    <3> QED
      BY <2>1, <3>1, <3>3, <3>4, <3>5, <3>6
  <2>2. CASE ~ok
    BY <1>1, <1>2, <1>4, <2>2 DEF Recording, RecordingOf
  <2> QED
    BY <2>1, <2>2
<1>6. CASE r \notin flying
  <2>1. /\ appends' = appends \ {<<r, "decision">>}
        /\ UNCHANGED <<flying, held, reply, stream, rule>>
    BY <1>6 DEF DecisionSettles
  <2>2. TypeOK'
    BY WithoutHoles, <1>1, <1>2, <1>4, <2>1 DEF TypeOK
  <2>3. Idle' /\ Slot' /\ Outstanding'
    BY <1>1, <1>2, <2>1 DEF Idle, Slot, Outstanding, Up, Failed
  <2>4. Asked'
    BY <1>1, <1>2, <1>3, <1>4, <2>1 DEF Asked, Up
  <2>5. Recording'
    <3> SUFFICES ASSUME NEW q \in Requests PROVE RecordingOf(q)'
      BY DEF Recording
    <3>1. RecordingOf(q)
      BY <1>1, <1>2 DEF Recording
    <3> QED
      BY <1>1, <1>3, <1>4, <1>5, <2>1, <3>1 DEF RecordingOf, Failed
  <2>6. Audited'
    <3>1. \A q \in Requests : \A rs : Says(audit[q], rs) => Says(audit'[q], rs)
      BY <1>4, <1>5
    <3>2. targeted \subseteq Requests
      BY <1>2 DEF TypeOK
    <3> QED
      BY <1>1, <1>2, <2>1, <3>1, <3>2 DEF Audited
  <2>7. RestartClosesTurns'
    BY <1>1 DEF Up, RestartClosesTurns
  <2> QED
    BY <1>1, <1>2, <2>1, <2>2, <2>3, <2>4, <2>5, <2>6, <2>7 DEF Inv, Written, Up
<1>7. CASE r \in flying
  <2> DEFINE answer == Verdict(r, ok)
             reason == IF ok THEN "answered" ELSE "audit_unavailable"
             responded == Respond(r)
  <2>1. /\ rule' = (rule \/ Grants(r, ok))
        /\ RespondOrCancel(r, answer, reason)
    BY <1>7 DEF DecisionSettles
  <2>2. /\ responded.result \in {"ok", "write_failed", "no_child"}
        /\ responded.result = "no_child" => ~open \/ child = None
    <3>1. CASE ~open \/ child = None
      BY <3>1 DEF Respond
    <3>2. CASE ~(~open \/ child = None) /\ r \notin held
      BY <3>2 DEF Respond
    <3>3. CASE ~(~open \/ child = None) /\ r \in held
      <4>1. responded = [result |-> IF pipe THEN "ok" ELSE "write_failed", wrote |-> pipe]
        BY <3>3 DEF Respond
      <4> QED
        BY <3>3, <4>1
    <3> QED
      BY <3>1, <3>2, <3>3
  <2> HIDE DEF answer, reason
  <2>3. /\ flying' = flying \ {r}
        /\ held' \in {held, held \ {r}}
        /\ reply' \in {reply, [reply EXCEPT ![r] = answer]}
    BY <2>1 DEF RespondOrCancel
  <2>4. PICK y \in Reasons :
          /\ y = "answered" => ok
          /\ responded.result = "no_child" => stream' = stream
          /\ responded.result # "no_child" => Emit(<<Resolved(r, y)>>)
    <3>1. reason \in Reasons /\ (reason = "answered" => ok) /\ "cancelled" \in Reasons
      BY DEF reason, Reasons
    <3> HIDE DEF responded
    <3>2. CASE responded.result = "ok"
      <4>1. Emit(<<Resolved(r, reason)>>)
        BY <2>1, <3>2 DEF RespondOrCancel, responded
      <4> QED
        BY <3>1, <3>2, <4>1
    <3>3. CASE responded.result = "write_failed"
      <4>1. Emit(<<Resolved(r, "cancelled")>>)
        BY <2>1, <3>3 DEF RespondOrCancel, responded
      <4> QED
        BY <3>1, <3>3, <4>1
    <3>4. CASE responded.result = "no_child"
      <4>1. stream' = stream
        BY <2>1, <3>4 DEF RespondOrCancel, responded
      <4> QED
        BY <3>1, <3>4, <4>1
    <3> QED
      BY <2>2, <3>2, <3>3, <3>4
  <2>5. appends' \in {appends \ {<<r, "decision">>},
                      (appends \ {<<r, "decision">>}) \cup {<<r, "correction">>}}
    BY <2>1 DEF RespondOrCancel
  <2> DEFINE told == ~Failed /\ responded.result # "no_child"
  <2> HIDE DEF responded
  <2>6. /\ stream' \in Seq(Envelopes)
        /\ ~told => stream' = stream
        /\ told => OneMore(stream, stream', Resolved(r, y))
    <3>1. CASE told
      <4>1. stream' = stream \o <<Resolved(r, y)>>
        BY <2>4, <3>1 DEF Emit
      <4>2. OneMore(stream, stream', Resolved(r, y))
        BY <1>2, <4>1, AppendIsOneMore, EnvelopeTypes
      <4> QED
        BY <3>1, <4>2 DEF OneMore
    <3>2. CASE ~told
      <4>1. stream' = stream
        BY <2>4, <3>2 DEF Emit
      <4> QED
        BY <1>2, <3>2, <4>1
    <3> QED
      BY <3>1, <3>2
  <2>7. \A e : Has(stream', e) <=> Has(stream, e) \/ (told /\ e = Resolved(r, y))
    <3>1. CASE told
      BY <1>2, <2>6, <3>1, HasOneMore
    <3>2. CASE ~told
      BY <2>6, <3>2
    <3> QED
      BY <3>1, <3>2
  <2>8. Transcript(stream', asked', cut')
    <3>1. CASE told
      <4>1. Has(stream, Request(r)) /\ ~HasResolved(stream, r)
        BY <1>1, <1>2, <1>3, <1>7, <3>1 DEF Asked, Outstanding, Failed
      <4>2. Resolves(stream, stream', {r}, y)
        BY <1>2, <2>6, <3>1, OneResolves
      <4> QED
        BY <1>1, <1>2, <4>1, <4>2, TranscriptResolved
    <3>2. CASE ~told
      BY <1>1, <1>2, <2>6, <3>2
    <3> QED
      BY <3>1, <3>2
  <2>9. \A q \in Requests : HasResolved(stream', q) <=> HasResolved(stream, q) \/ (told /\ q = r)
    BY <2>4, <2>7, Kinds DEF HasResolved
  <2>10. asked[r] \notin cut => told
    <3> SUFFICES ASSUME asked[r] \notin cut PROVE told
      OBVIOUS
    <3>1. asked[r] = turn /\ child = turn
      BY <1>1, <1>2, <1>3, <1>7 DEF Outstanding
    <3>2. turn # None /\ open /\ ~Failed
      BY <1>1, <1>2, <1>3, <3>1, WhileUp DEF Slot
    <3> QED
      BY <2>2, <3>1, <3>2
  <2> HIDE DEF told
  <2>11. TypeOK'
    <3>1. answer \in {"allow", "deny"}
      BY DEF answer, Verdict, Answers
    <3>2. reply' \in [Requests -> {"none", "allow", "deny"}]
      BY <1>2, <2>3, <3>1 DEF TypeOK
    <3>3. appends' \subseteq Requests \X {"decision", "correction"}
      BY <1>2, <2>5 DEF TypeOK
    <3>4. rule' \in BOOLEAN
      BY <2>1, Zenon
    <3>5. held' \subseteq Requests /\ flying' \subseteq Requests
      BY <1>2, <2>3 DEF TypeOK
    <3> QED
      BY WithoutHoles, <1>1, <1>2, <1>4, <2>6, <3>2, <3>3, <3>4, <3>5 DEF TypeOK
  <2>12. Idle' /\ Slot'
    <3>1. \A t : /\ Has(stream', Started(t)) <=> Has(stream, Started(t))
                 /\ Has(stream', Ended(t)) <=> Has(stream, Ended(t))
      BY <2>7, Kinds
    <3>2. Slot'
      BY <1>1, <1>2, <3>1 DEF Slot, Up, Failed
    <3> QED
      BY <1>1, <1>2, <3>2 DEF Idle, Up, Failed
  <2>13. \A q \in Requests \ {r} : \A w : <<q, w>> \in appends' <=> <<q, w>> \in appends
    BY <2>5
  <2>14. Asked'
    <3> SUFFICES ASSUME NEW q \in Requests
          PROVE  /\ asked[q] = None =>
                      /\ q \notin pending \cup flying' \cup auto
                      /\ choice[q] = "none" /\ audit'[q] = << >>
                      /\ \A w \in {"decision", "correction"} : <<q, w>> \notin appends'
                      /\ ~Has(stream', Request(q))
                 /\ asked[q] # None => Has(stream', Request(q))
      BY <1>1 DEF Asked
    <3>1. Has(stream', Request(q)) <=> Has(stream, Request(q))
      BY <2>7, Kinds
    <3>2. CASE q = r
      BY <1>1, <1>2, <1>3, <3>1, <3>2 DEF Asked
    <3>3. CASE q # r
      BY <1>1, <1>2, <1>4, <2>3, <2>13, <3>1, <3>3 DEF Asked
    <3> QED
      BY <3>2, <3>3
  <2>15. Outstanding'
    <3> SUFFICES ASSUME NEW q \in Requests
          PROVE  /\ asked[q] # None /\ asked[q] \notin cut =>
                      IF q \in pending \cup flying' THEN asked[q] = turn /\ child = turn
                                                    ELSE HasResolved(stream', q)
                 /\ q \in pending \cup flying' /\ fail.stage \in {"no", "meta"} =>
                      ~HasResolved(stream', q)
      BY <1>1 DEF Outstanding
    <3>1. CASE q = r
      BY <1>3, <2>3, <2>9, <2>10, <3>1
    <3>2. CASE q # r
      BY <1>1, <1>2, <2>3, <2>9, <3>2 DEF Outstanding
    <3> QED
      BY <3>1, <3>2
  <2>16. Recording'
    <3> SUFFICES ASSUME NEW q \in Requests PROVE RecordingOf(q)'
      BY DEF Recording
    <3>1. RecordingOf(q)
      BY <1>1, <1>2 DEF Recording
    <3>2. CASE q = r
      <4>1. <<r, "decision">> \notin appends' /\ r \notin pending' \cup flying'
        BY <1>1, <1>3, <2>3, <2>5
      <4>2. ~Failed => NoCorrection(audit[r])
        BY <1>7, <3>1, <3>2 DEF RecordingOf
      <4> QED
        BY <1>1, <1>3, <1>5, <3>1, <3>2, <4>1, <4>2 DEF RecordingOf, Failed
    <3>3. CASE q # r
      BY <1>1, <1>4, <2>3, <2>13, <3>1, <3>3 DEF RecordingOf, Failed
    <3> QED
      BY <3>2, <3>3
  <2>17. Audited'
    <3>1. ASSUME NEW q \in Requests, reply'[q] = "allow"
          PROVE  Says(audit'[q], {"allow", "always", "standing"})
      <4>1. CASE reply[q] = "allow"
        BY <1>2, <1>4, <1>5, <4>1 DEF Audited
      <4>2. CASE reply[q] # "allow"
        <5>1. q = r /\ answer = "allow"
          BY <1>2, <2>3, <3>1, <4>2 DEF TypeOK
        <5>2. ok /\ choice[r] \in {"allow", "always", "standing"}
          BY <1>3, <5>1 DEF answer, Verdict, Answers, Decisions
        <5> QED
          BY <1>5, <5>1, <5>2
      <4> QED
        BY <4>1, <4>2
    <3>2. ASSUME NEW q \in Requests, Has(stream', Resolved(q, "answered"))
          PROVE  choice[q] # "none" /\ Says(audit'[q], {choice[q]})
      <4>1. CASE Has(stream, Resolved(q, "answered"))
        BY <1>2, <1>4, <1>5, <4>1 DEF Audited
      <4>2. CASE ~Has(stream, Resolved(q, "answered"))
        <5>1. q = r /\ ok
          BY <2>4, <2>7, <3>2, <4>2, Kinds
        <5> QED
          BY <1>3, <1>5, <5>1
      <4> QED
        BY <4>1, <4>2
    <3>3. ASSUME rule' PROVE \E q \in targeted : Says(audit'[q], {"always"})
      <4>1. CASE rule
        <5>1. PICK q \in targeted : Says(audit[q], {"always"})
          BY <1>2, <4>1 DEF Audited
        <5>2. q \in Requests
          BY <1>2 DEF TypeOK
        <5> QED
          BY <1>4, <1>5, <5>1, <5>2
      <4>2. CASE Grants(r, ok)
        <5>1. r \in targeted
          BY <1>1, <1>2, <4>2 DEF Recording, RecordingOf, Grants
        <5> QED
          BY <1>5, <4>2, <5>1 DEF Grants
      <4> QED
        BY <2>1, <3>3, <4>1, <4>2
    <3> QED
      BY <1>1, <3>1, <3>2, <3>3 DEF Audited
  <2>18. RestartClosesTurns'
    BY <1>1 DEF Up, RestartClosesTurns
  <2> QED
    BY <1>1, <2>8, <2>11, <2>12, <2>14, <2>15, <2>16, <2>17, <2>18 DEF Inv, Written, Up
<1> QED
  BY <1>6, <1>7

\* The record of a cancellation settles.
LEMMA CorrectionSettlesInv ==
  ASSUME Inv, NEW r \in Requests, NEW ok \in BOOLEAN, CorrectionSettles(r, ok)
  PROVE  Inv'
<1>1. /\ Up /\ <<r, "correction">> \in appends /\ appends' = appends \ {<<r, "correction">>}
      /\ audit' = IF ok THEN [audit EXCEPT ![r] = Append(@, "cancelled")] ELSE audit
      /\ UNCHANGED <<server, fail, turn, child, open, resultSeen, pipe, held, reqVars, reply,
                     stream, spilled, cut>>
  BY DEF CorrectionSettles, turnVars, outVars
<1>2. /\ TypeOK /\ Transcript(stream, asked, cut) /\ Idle /\ Slot /\ Asked
      /\ Outstanding /\ Recording /\ Audited
  BY <1>1, WhileUp DEF Inv
<1>3. asked[r] # None
  BY <1>1, <1>2 DEF Asked
<1>4. /\ audit' \in [Requests -> Seq(Decisions \cup {"cancelled"})]
      /\ \A q \in Requests : q # r => audit'[q] = audit[q]
      /\ ok => audit'[r] = Append(audit[r], "cancelled")
      /\ ~ok => audit'[r] = audit[r]
  <2>1. PICK x \in Decisions \cup {"cancelled"} : x = "cancelled"
    OBVIOUS
  <2>2. audit' = IF ok THEN [audit EXCEPT ![r] = Append(@, x)] ELSE audit
    BY <1>1, <2>1
  <2> QED
    BY <1>2, <2>1, <2>2, Settles
<1>5. /\ \A rs : Says(audit[r], rs) => Says(audit'[r], rs)
      /\ NoDecision(audit[r]) => NoDecision(audit'[r])
      /\ OneDecision(audit[r], choice[r]) => OneDecision(audit'[r], choice[r])
      /\ NoCorrection(audit[r]) => OneCorrection(audit'[r])
  <2>1. CASE ok
    <3>1. PICK a, x, b : a = audit[r] /\ x = "cancelled" /\ b = audit'[r]
      OBVIOUS
    <3>2. Appended(a, x, b)
      <4>1. a \in Seq(Decisions \cup {"cancelled"}) /\ x \in Decisions \cup {"cancelled"}
        BY <1>2, <3>1 DEF TypeOK
      <4>2. b = Append(a, x)
        BY <1>4, <2>1, <3>1
      <4> QED
        BY <4>1, <4>2 DEF Appended
    <3>3. \A rs : Says(b, rs) <=> Says(a, rs) \/ x \in rs
      BY <3>2, AuditGrows
    <3>4. NoDecision(b) <=> NoDecision(a)
      BY <3>1, <3>2, AuditGrows
    <3>5. \A d : OneDecision(a, d) => OneDecision(b, d)
      BY <3>1, <3>2, AuditGrows
    <3>6. NoCorrection(a) => OneCorrection(b)
      BY <3>2, AuditGrows
    <3> QED
      BY <3>1, <3>3, <3>4, <3>5, <3>6
  <2>2. CASE ~ok
    BY <1>4, <2>2 DEF NoCorrection, OneCorrection
  <2> QED
    BY <2>1, <2>2
<1>6. TypeOK'
  BY WithoutHoles, <1>1, <1>2, <1>4 DEF TypeOK, reqVars
<1>7. Idle' /\ Slot' /\ Outstanding'
  BY <1>1, <1>2 DEF Idle, Slot, Outstanding, Up, Failed, reqVars
<1>8. Asked'
  BY <1>1, <1>2, <1>3, <1>4 DEF Asked, Up, reqVars
<1>9. Recording'
  <2> SUFFICES ASSUME NEW q \in Requests PROVE RecordingOf(q)'
    BY DEF Recording
  <2>1. RecordingOf(q)
    BY <1>1, <1>2 DEF Recording
  <2>2. CASE q = r
    <3>1. /\ <<r, "correction">> \notin appends'
          /\ <<r, "decision">> \in appends' <=> <<r, "decision">> \in appends
      BY <1>1
    <3>2. ~Failed => OneCorrection(audit'[r]) /\ r \notin pending \cup flying
      BY <1>1, <1>5, <2>1, <2>2 DEF RecordingOf
    <3> QED
      BY <1>1, <1>5, <2>1, <2>2, <3>1, <3>2 DEF RecordingOf, Failed, reqVars
  <2>3. CASE q # r
    <3>1. \A w : <<q, w>> \in appends' <=> <<q, w>> \in appends
      BY <1>1, <2>3
    <3> QED
      BY <1>1, <1>4, <2>1, <2>3, <3>1 DEF RecordingOf, Failed, reqVars
  <2> QED
    BY <2>2, <2>3
<1>10. Audited'
  <2>1. \A q \in Requests : \A rs : Says(audit[q], rs) => Says(audit'[q], rs)
    BY <1>4, <1>5
  <2>2. targeted \subseteq Requests
    BY <1>2 DEF TypeOK
  <2> QED
    BY <1>1, <1>2, <2>1, <2>2 DEF Audited, reqVars
<1>11. RestartClosesTurns'
  BY <1>1 DEF Up, RestartClosesTurns
<1> QED
  BY <1>1, <1>2, <1>6, <1>7, <1>8, <1>9, <1>10, <1>11 DEF Inv, Written, Up, reqVars

\* The spill fails: the slot is freed, and a turn that still owed is cut.
LEMMA SpillFailsInv ==
  ASSUME Inv, NEW announced \in BOOLEAN, SpillFails(announced)
  PROVE  Inv'
<1> DEFINE start == Position(Started(turn))
           most == IF turn = None \/ announced THEN Len(stream) ELSE start - 1
           least == IF turn # None /\ announced THEN Awaited(Started(turn)) ELSE spilled
           owing == turn # None /\ Of(pending \cup flying, turn) # {}
<1>1. /\ Up /\ ~Failed /\ turn' = None /\ spilled' = least
      /\ fail' = [stage |-> "meta", durable |-> most, owed |-> {},
                  victim |-> IF announced THEN turn ELSE None, queued |-> Len(stream)]
      /\ cut' = IF owing THEN cut \cup {turn} ELSE cut
      /\ UNCHANGED <<server, child, open, resultSeen, pipe, held, reqVars, logVars, stream>>
  BY DEF SpillFails
<1>2. /\ TypeOK /\ Transcript(stream, asked, cut) /\ Idle /\ Slot /\ Asked
      /\ Outstanding /\ Recording /\ Audited /\ stream \in Seq(Envelopes)
  BY <1>1, WhileUp DEF Inv
<1>3. most \in Nat /\ least \in Nat /\ Len(stream) \in Nat
  <2>1. Len(stream) \in Nat /\ spilled \in Nat
    BY <1>1, <1>2, WhileUp DEF TypeOK
  <2>2. turn # None => start \in 1..Len(stream)
    BY <1>1, <1>2, WhileUp DEF Slot
  <2>3. turn # None => Awaited(Started(turn)) \in Nat
    BY <2>1, <2>2 DEF Awaited
  <2>4. start \in 1..Len(stream) => start - 1 \in Nat
    BY <2>1
  <2> QED
    BY <2>1, <2>2, <2>3, <2>4
<1> HIDE DEF most, least, start
<1>4. /\ Failed' /\ fail'.stage = "meta"
      /\ fail'.victim = IF announced THEN turn ELSE None
  BY <1>1 DEF Failed
<1>5. TypeOK'
  <2>1. fail' \in [stage : {"no", "meta", "auditing", "done"}, victim : Turns \cup {None},
                   owed : SUBSET Requests, durable : Nat, queued : Nat]
    BY <1>1, <1>2, <1>3 DEF TypeOK
  <2>2. cut' \subseteq Turns /\ turn' \in Turns \cup {None} /\ spilled' \in Nat
    BY <1>1, <1>2, <1>3 DEF TypeOK
  <2> QED
    BY WithoutHoles, <1>1, <1>2, <2>1, <2>2 DEF TypeOK, reqVars, logVars
<1>6. Transcript(stream', asked', cut')
  <2>1. cut \subseteq cut' /\ UNCHANGED <<stream, asked>>
    BY <1>1 DEF reqVars
  <2> QED
    BY <1>1, <2>1, TranscriptSame
<1>7. Idle'
  BY <1>1, <1>2, <1>4 DEF Idle, Up
<1>8. Slot'
  <2>1. /\ child # None => Has(stream, Started(child))
        /\ fail'.victim # None => Has(stream, Started(fail'.victim))
    BY <1>2, <1>4 DEF Slot
  <2>2. \A t \in Turns : Has(stream, Started(t)) =>
          Has(stream, Ended(t)) \/ fail'.victim \in {t, None}
    BY <1>1, <1>2, <1>4 DEF Slot
  <2> QED
    BY <1>1, <1>4, <2>1, <2>2 DEF Slot
<1>9. Asked' /\ Audited'
  BY <1>1, <1>2, AskedSame, AuditedSame DEF reqVars, logVars
<1>10. Outstanding'
  <2> SUFFICES ASSUME NEW r \in Requests
        PROVE  /\ asked[r] # None /\ asked[r] \notin cut' =>
                    r \notin pending \cup flying /\ HasResolved(stream, r)
               /\ r \in pending \cup flying => ~HasResolved(stream, r)
    BY <1>1 DEF Outstanding, reqVars
  <2>1. ASSUME asked[r] # None, asked[r] \notin cut', r \in pending \cup flying PROVE FALSE
    <3>1. asked[r] = turn
      BY <1>1, <1>2, <2>1 DEF Outstanding
    <3>2. r \in Of(pending \cup flying, turn)
      BY <1>2, <2>1, <3>1 DEF Of, TypeOK
    <3> QED
      BY <1>1, <2>1, <3>1, <3>2
  <2>2. r \in pending \cup flying => ~HasResolved(stream, r)
    BY <1>1, <1>2 DEF Outstanding, Failed
  <2>3. asked[r] # None /\ asked[r] \notin cut' => HasResolved(stream, r)
    BY <1>1, <1>2, <2>1 DEF Outstanding
  <2> QED
    BY <2>1, <2>2, <2>3
<1>11. Recording'
  <2> SUFFICES ASSUME NEW r \in Requests PROVE RecordingOf(r)'
    BY DEF Recording
  <2> QED
    BY <1>1, <1>2, <1>4 DEF Recording, RecordingOf, reqVars, logVars
<1>12. RestartClosesTurns'
  BY <1>1 DEF Up, RestartClosesTurns
<1> QED
  BY <1>1, <1>5, <1>6, <1>7, <1>8, <1>9, <1>10, <1>11, <1>12 DEF Inv, Written, Up

\* meta.json is written: what is still pending is cancelled.
LEMMA FailCancelsInv == ASSUME Inv, FailCancels PROVE Inv'
<1> DEFINE owed == IF fail.victim = None THEN {} ELSE Of(pending, fail.victim)
<1>1. /\ Up /\ fail.stage = "meta" /\ stream' = stream \o Cancelled(owed)
      /\ appends' = appends \cup Corrections(owed)
      /\ fail' = [fail EXCEPT !.stage = "auditing", !.owed = owed]
      /\ UNCHANGED <<server, turnVars, reqVars, audit, reply, spilled, cut>>
  BY DEF FailCancels
<1>2. /\ TypeOK /\ Transcript(stream, asked, cut) /\ Idle /\ Slot /\ Asked
      /\ Outstanding /\ Recording /\ Audited /\ stream \in Seq(Envelopes)
  BY <1>1, WhileUp DEF Inv
<1>3. /\ owed \in SUBSET Requests /\ IsFiniteSet(owed) /\ owed \subseteq pending
      /\ \A r \in owed : asked[r] = fail.victim /\ fail.victim # None
  <2>1. owed \in SUBSET Requests
    BY <1>2 DEF TypeOK, Of
  <2>2. IsFiniteSet(owed)
    BY <2>1, FS_Subset, PermissionAssumption
  <2> QED
    BY <2>1, <2>2 DEF Of
<1> HIDE DEF owed
<1>4. Resolves(stream, stream', owed, "cancelled") /\ stream' \in Seq(Envelopes)
  <2>1. Resolves(stream, stream \o Cancelled(owed), owed, "cancelled")
    BY <1>2, <1>3, CancelledResolves
  <2> QED
    BY <1>1, <2>1 DEF Resolves
<1>5. \A e : Has(stream', e) <=> Has(stream, e) \/ \E r \in owed : e = Resolved(r, "cancelled")
  BY <1>2, <1>4, HasResolves
<1>6. \A r \in owed : Has(stream, Request(r)) /\ ~HasResolved(stream, r)
  BY <1>1, <1>2, <1>3 DEF Asked, Outstanding
<1>7. Transcript(stream', asked', cut')
  <2>1. Transcript(stream', asked, cut)
    BY <1>2, <1>3, <1>4, <1>6, TranscriptResolved DEF Reasons
  <2> QED
    BY <1>1, <2>1 DEF reqVars
<1>8. /\ Failed /\ Failed' /\ fail'.stage = "auditing" /\ fail'.victim = fail.victim
      /\ fail' \in [stage : {"no", "meta", "auditing", "done"}, victim : Turns \cup {None},
                    owed : SUBSET Requests, durable : Nat, queued : Nat]
  BY <1>1, <1>2, <1>3 DEF TypeOK, Failed
<1>9. /\ appends' \subseteq Requests \X {"decision", "correction"}
      /\ \A r \in Requests : /\ <<r, "decision">> \in appends' <=> <<r, "decision">> \in appends
                             /\ <<r, "correction">> \in appends' <=>
                                  <<r, "correction">> \in appends \/ r \in owed
  <2>1. Corrections(owed) \subseteq Requests \X {"decision", "correction"}
    BY <1>3, CorrectionsType
  <2>2. appends' \subseteq Requests \X {"decision", "correction"}
    BY <1>1, <1>2, <2>1 DEF TypeOK
  <2> QED
    BY <1>1, <2>2 DEF Corrections
<1>10. TypeOK'
  BY WithoutHoles, <1>1, <1>2, <1>4, <1>8, <1>9 DEF TypeOK, turnVars, reqVars
<1>11. Idle' /\ Slot'
  <2>1. \A t : /\ Has(stream', Started(t)) <=> Has(stream, Started(t))
               /\ Has(stream', Ended(t)) <=> Has(stream, Ended(t))
    BY <1>5, Kinds
  <2>2. Slot'
    BY <1>1, <1>2, <1>8, <2>1 DEF Slot, Up, turnVars
  <2> QED
    BY <1>1, <1>2, <1>8, <2>2 DEF Idle, Up, turnVars
<1>12. Asked'
  <2>1. \A r \in Requests : Has(stream', Request(r)) <=> Has(stream, Request(r))
    BY <1>5, Kinds
  <2> QED
    BY <1>1, <1>2, <1>3, <1>9, <2>1 DEF Asked, Up, reqVars
<1>13. Outstanding'
  <2>1. \A r \in Requests : HasResolved(stream, r) => HasResolved(stream', r)
    BY <1>5 DEF HasResolved
  <2> QED
    BY <1>1, <1>2, <1>8, <2>1 DEF Outstanding, Up, turnVars, reqVars
<1>14. Recording'
  <2> SUFFICES ASSUME NEW r \in Requests PROVE RecordingOf(r)'
    BY DEF Recording
  <2> QED
    BY <1>1, <1>2, <1>8, <1>9 DEF Recording, RecordingOf, reqVars
<1>15. Audited'
  <2>1. \A r \in Requests : Has(stream', Resolved(r, "answered")) =>
          Has(stream, Resolved(r, "answered"))
    BY <1>5, Kinds
  <2> QED
    BY <1>1, <1>2, <2>1, AuditedSame DEF reqVars
<1>16. RestartClosesTurns'
  BY <1>1 DEF Up, RestartClosesTurns
<1> QED
  BY <1>1, <1>7, <1>10, <1>11, <1>12, <1>13, <1>14, <1>15, <1>16 DEF Inv, Written, Up

\* The turn the failure took out of the slot ends.
LEMMA FailEndsTurnInv == ASSUME Inv, FailEndsTurn PROVE Inv'
<1>1. /\ Up /\ fail.stage = "auditing" /\ fail' = [fail EXCEPT !.stage = "done"]
      /\ stream' = IF fail.victim = None THEN stream ELSE Append(stream, Ended(fail.victim))
      /\ UNCHANGED <<server, turnVars, reqVars, logVars, spilled, cut>>
  BY DEF FailEndsTurn
<1>2. /\ TypeOK /\ Transcript(stream, asked, cut) /\ Idle /\ Slot /\ Asked
      /\ Outstanding /\ Recording /\ Audited /\ stream \in Seq(Envelopes)
  BY <1>1, WhileUp DEF Inv
<1>3. /\ Failed /\ Failed' /\ fail'.stage = "done" /\ fail'.victim = fail.victim
      /\ fail' \in [stage : {"no", "meta", "auditing", "done"}, victim : Turns \cup {None},
                    owed : SUBSET Requests, durable : Nat, queued : Nat]
      /\ fail.victim \in Turns \cup {None} /\ turn = None
  BY <1>1, <1>2 DEF TypeOK, Failed, Idle
<1>4. \A r \in Requests : asked[r] # None /\ asked[r] \notin cut =>
        r \notin pending \cup flying /\ HasResolved(stream, r)
  BY <1>1, <1>2, <1>3 DEF Outstanding
<1>5. /\ Transcript(stream', asked, cut) /\ stream' \in Seq(Envelopes)
      /\ \A e : Has(stream', e) <=>
           Has(stream, e) \/ (fail.victim # None /\ e = Ended(fail.victim))
  <2>1. CASE fail.victim = None
    BY <1>1, <1>2, <2>1
  <2>2. CASE fail.victim # None
    <3>1. PICK t \in Turns : t = fail.victim
      BY <1>3, <2>2
    <3>2. OneMore(stream, stream', Ended(t))
      BY <1>1, <1>2, <2>2, <3>1, AppendIsOneMore, EnvelopeTypes
    <3>3. Has(stream, Started(t))
      BY <1>2, <2>2, <3>1 DEF Slot
    <3>4. \A u \in Turns : Has(stream, Started(u)) => u = t \/ Has(stream, Ended(u))
      BY <1>1, <1>2, <1>3, <2>2, <3>1 DEF Slot, None, Turns
    <3>5. \A r \in Requests : asked[r] = t /\ asked[r] \notin cut /\ Has(stream, Request(r))
            => HasResolved(stream, r)
      BY <1>4, <2>2, <3>1
    <3>6. Transcript(stream', asked, cut)
      BY <1>2, <3>2, <3>3, <3>4, <3>5, TranscriptEnded
    <3>7. \A e : Has(stream', e) <=> Has(stream, e) \/ e = Ended(t)
      BY <1>2, <3>2, HasOneMore
    <3> QED
      BY <2>2, <3>1, <3>2, <3>6, <3>7 DEF OneMore
  <2> QED
    BY <2>1, <2>2
<1>6. TypeOK'
  BY WithoutHoles, <1>1, <1>2, <1>3, <1>5 DEF TypeOK, turnVars, reqVars, logVars
<1>7. Transcript(stream', asked', cut')
  BY <1>1, <1>5 DEF reqVars
<1>8. Idle' /\ Slot'
  <2>1. /\ \A t : Has(stream', Started(t)) <=> Has(stream, Started(t))
        /\ \A t : Has(stream, Ended(t)) => Has(stream', Ended(t))
    BY <1>5, Kinds
  <2>2. Slot'
    BY <1>1, <1>2, <1>3, <2>1 DEF Slot, Up, turnVars
  <2> QED
    BY <1>1, <1>2, <1>3, <2>2 DEF Idle, Up, turnVars, reqVars, logVars
<1>9. Asked' /\ Audited'
  <2>1. /\ \A r \in Requests : Has(stream', Request(r)) <=> Has(stream, Request(r))
        /\ \A r \in Requests : Has(stream', Resolved(r, "answered")) =>
             Has(stream, Resolved(r, "answered"))
    BY <1>5, Kinds
  <2> QED
    BY <1>1, <1>2, <2>1, AskedSame, AuditedSame DEF reqVars, logVars
<1>10. Outstanding'
  <2>1. \A r \in Requests : HasResolved(stream, r) => HasResolved(stream', r)
    BY <1>5 DEF HasResolved
  <2> QED
    BY <1>1, <1>3, <1>4, <2>1 DEF Outstanding, turnVars, reqVars
<1>11. Recording'
  <2> SUFFICES ASSUME NEW r \in Requests PROVE RecordingOf(r)'
    BY DEF Recording
  <2> QED
    BY <1>1, <1>2, <1>3 DEF Recording, RecordingOf, reqVars, logVars
<1>12. RestartClosesTurns'
  BY <1>1 DEF Up, RestartClosesTurns
<1> QED
  BY <1>1, <1>6, <1>7, <1>8, <1>9, <1>10, <1>11, <1>12 DEF Inv, Written, Up

\* The records in flight may land after the crash.
LEMMA AuditLanded ==
  ASSUME NEW X, NEW a \in Seq(X), NEW p \in Seq(X), NEW q \in Seq(X)
  PROVE  /\ a \o p \o q \in Seq(X)
         /\ \A rs : Says(a, rs) => Says(a \o p \o q, rs)
         /\ p = << >> /\ q = << >> => a \o p \o q = a
<1>1. PICK b, c : b = a \o p /\ c = b \o q
  OBVIOUS
<1>2. b \in Seq(X) /\ c \in Seq(X)
  BY <1>1, ConcatProperties
<1>3. /\ Len(a) \in Nat /\ Len(p) \in Nat /\ Len(q) \in Nat
      /\ Len(b) = Len(a) + Len(p) /\ \A i \in 1..Len(a) : b[i] = a[i]
  BY <1>1, ConcatProperties, LenProperties
<1>4. Len(c) = Len(b) + Len(q) /\ \A i \in 1..Len(b) : c[i] = b[i]
  BY <1>1, <1>2, ConcatProperties
<1>5. \A rs : Says(a, rs) => Says(c, rs)
  BY <1>3, <1>4 DEF Says
<1>6. p = << >> /\ q = << >> => c = a
  <2> SUFFICES ASSUME p = << >>, q = << >> PROVE c = a
    OBVIOUS
  <2>1. b = a
    BY <1>1, ConcatEmptySeq
  <2> QED
    BY <1>1, <2>1, ConcatEmptySeq
<1> QED
  BY <1>1, <1>2, <1>5, <1>6

\* Intervals from one with the same elements have the same end.
LEMMA SameEnd ==
  ASSUME NEW k \in Nat, NEW m \in Nat, 1..k = 1..m
  PROVE  k = m
<1>1. CASE k < m
  <2>1. m \in 1..m /\ m \notin 1..k
    BY <1>1
  <2> QED
    BY <2>1
<1>2. CASE m < k
  <2>1. k \in 1..k /\ k \notin 1..m
    BY <1>2
  <2> QED
    BY <2>1
<1> QED
  BY <1>1, <1>2

\* Whether the server is up or not, what is written may be read with holes.
LEMMA InvHoled ==
  ASSUME Inv
  PROVE  Holed(stream, asked, cut) /\ stream \in Seq(Lines) /\ Len(stream) \in Nat
<1>1. Holed(stream, asked, cut)
  BY TranscriptIsHoled DEF Inv, Written
<1> QED
  BY <1>1, LenProperties DEF Holed

\* A crash: what is not durable is lost, and nothing of the session runs on.
LEMMA CrashInv == ASSUME Inv, NEW n \in 0..Len(stream), Crash(n) PROVE Inv'
<1>1. /\ server \in {"up", "booting"} /\ server' = "booting"
      /\ spilled' = n /\ fail' = NoFailure /\ turn' = None /\ child' = None /\ open' = FALSE
      /\ resultSeen' = FALSE /\ pipe' = FALSE /\ held' = {} /\ pending' = {} /\ flying' = {}
      /\ auto' = {} /\ rule' = FALSE /\ appends' = {} /\ targeted' = {}
      /\ UNCHANGED <<asked, choice, reply, cut>>
  BY DEF Crash
<1>2. /\ TypeOK /\ Idle /\ Slot /\ Asked /\ Outstanding /\ Recording /\ Audited
  BY DEF Inv
<1>3. /\ Holed(stream', asked, cut) /\ stream' \in Seq(Lines)
      /\ \A e \in Envelopes : Has(stream', e) => Has(stream, e)
  <2>1. Holed(stream, asked, cut) /\ stream \in Seq(Lines) /\ Len(stream) \in Nat
    BY InvHoled
  <2>2. PICK missing \in SUBSET Missable(n) :
          stream' = [i \in 1..n |-> IF i \in missing THEN Lost(stream[i]) ELSE stream[i]]
    BY DEF Crash
  <2>3. \A i \in 1..n : i \in 1..Len(stream) /\ stream[i] \in Lines
    BY <2>1, ElementOfSeq
  <2>4. missing # {} => \A i \in 1..n : stream[i] \in Envelopes
    <3> SUFFICES ASSUME missing # {} PROVE \A i \in 1..n : stream[i] \in Envelopes
      OBVIOUS
    <3>1. Up
      BY <1>2 DEF Missable, Idle, Failed
    <3> QED
      BY <2>3, <3>1, WhileUp, ElementOfSeq
  <2>5. /\ stream' \in [1..n -> Lines]
        /\ \A i \in 1..n : stream'[i] = stream[i]
                           \/ (stream[i] \in Envelopes /\ stream'[i] = Lost(stream[i]))
    <3>1. \A i \in missing : i \in 1..n => Lost(stream[i]) \in Lines
      BY <2>4 DEF Lines
    <3> QED
      BY <2>2, <2>3, <2>4, <3>1
  <2>6. stream' \in Seq(Lines) /\ Len(stream') = n
    <3>1. n \in Nat
      BY <2>1
    <3>2. stream' \in Seq(Lines)
      BY <2>5, <3>1, SeqDef
    <3>3. DOMAIN stream' = 1..n /\ DOMAIN stream' = 1..Len(stream') /\ Len(stream') \in Nat
      BY <2>5, <3>2, LenProperties
    <3>4. PICK m \in Nat : m = Len(stream')
      BY <3>3
    <3>5. 1..n = 1..m
      BY <3>3, <3>4
    <3> QED
      BY <3>1, <3>2, <3>4, <3>5, SameEnd
  <2>7. Holed(stream', asked, cut) /\ \A e \in Envelopes : Has(stream', e) => Has(stream, e)
    <3>1. PICK u : u = stream'
      OBVIOUS
    <3>2. /\ u \in Seq(Lines) /\ Len(u) <= Len(stream)
          /\ \A i \in 1..Len(u) : u[i] = stream[i]
                                \/ (stream[i] \in Envelopes /\ u[i] = Lost(stream[i]))
      BY <2>1, <2>5, <2>6, <3>1
    <3>3. Holed(u, asked, cut) /\ \A e \in Envelopes : Has(u, e) => Has(stream, e)
      BY <2>1, <3>2, HoledCut
    <3> QED
      BY <3>1, <3>3
  <2> QED
    BY <2>6, <2>7
<1>4. PICK landed \in SUBSET appends :
        audit' = [r \in Requests |->
                    audit[r]
                    \o (IF <<r, "decision">> \in landed THEN <<choice[r]>> ELSE << >>)
                    \o (IF <<r, "correction">> \in landed THEN <<"cancelled">> ELSE << >>)]
  BY DEF Crash
<1>5. /\ \A r \in Requests : /\ audit'[r] \in Seq(Decisions \cup {"cancelled"})
                             /\ \A rs : Says(audit[r], rs) => Says(audit'[r], rs)
                             /\ asked[r] = None => audit'[r] = << >>
  <2> SUFFICES ASSUME NEW r \in Requests
        PROVE  /\ audit'[r] \in Seq(Decisions \cup {"cancelled"})
               /\ \A rs : Says(audit[r], rs) => Says(audit'[r], rs)
               /\ asked[r] = None => audit'[r] = << >>
    OBVIOUS
  <2>1. PICK p, q : /\ p = IF <<r, "decision">> \in landed THEN <<choice[r]>> ELSE << >>
                    /\ q = IF <<r, "correction">> \in landed THEN <<"cancelled">> ELSE << >>
    OBVIOUS
  <2>2. audit'[r] = audit[r] \o p \o q
    BY <1>4, <2>1
  <2>3. <<r, "decision">> \in landed => choice[r] \in Decisions
    <3> SUFFICES ASSUME <<r, "decision">> \in appends PROVE choice[r] \in Decisions
      OBVIOUS
    <3>1. Up
      BY <1>2 DEF Idle
    <3>2. choice[r] # "none"
      BY <1>2, <3>1 DEF Recording, RecordingOf
    <3> QED
      BY <1>2, <3>2 DEF TypeOK
  <2>4. p \in Seq(Decisions \cup {"cancelled"}) /\ q \in Seq(Decisions \cup {"cancelled"})
    BY <2>1, <2>3, EmptySeq
  <2>5. audit[r] \in Seq(Decisions \cup {"cancelled"})
    BY <1>2 DEF TypeOK
  <2>6. PICK a, b : a = audit[r] /\ b = a \o p \o q
    OBVIOUS
  <2>7. /\ b \in Seq(Decisions \cup {"cancelled"})
        /\ \A rs : Says(a, rs) => Says(b, rs)
        /\ p = << >> /\ q = << >> => b = a
    BY <2>4, <2>5, <2>6, AuditLanded
  <2>8. asked[r] = None => p = << >> /\ q = << >> /\ a = << >>
    BY <1>2, <2>1, <2>6 DEF Asked
  <2> QED
    BY <2>2, <2>6, <2>7, <2>8
<1>6. TypeOK'
  <2>1. audit' \in [Requests -> Seq(Decisions \cup {"cancelled"})]
    BY <1>4, <1>5
  <2>2. fail' \in [stage : {"no", "meta", "auditing", "done"}, victim : Turns \cup {None},
                   owed : SUBSET Requests, durable : Nat, queued : Nat]
    BY <1>1 DEF NoFailure
  <2>3. spilled' \in Nat
    BY <1>1
  <2> QED
    BY <1>1, <1>2, <1>3, <2>1, <2>2, <2>3 DEF TypeOK
<1>7. Idle' /\ Slot' /\ Outstanding' /\ Recording' /\ RestartClosesTurns'
  BY <1>1 DEF Idle, Slot, Outstanding, Recording, RestartClosesTurns, Up, Failed, NoFailure
<1>8. Asked'
  BY <1>1, <1>2, <1>3, <1>5, EnvelopeTypes DEF Asked, Up
<1>9. Audited'
  <2>1. \A r \in Requests : Has(stream', Resolved(r, "answered")) =>
          Has(stream, Resolved(r, "answered"))
    BY <1>3, EnvelopeTypes DEF Reasons
  <2> QED
    BY <1>1, <1>2, <1>5, <2>1 DEF Audited
<1> QED
  BY <1>1, <1>3, <1>6, <1>7, <1>8, <1>9 DEF Inv, Written, Up

\* There is at most one turn that the restart finds open; one that has begun and
\* is not open has ended, or its end is a hole in front of a later line.
EndLost(s, t) ==
  \E i, j, k \in 1..Len(s) :
    /\ i < j /\ j < k
    /\ s[i] = Started(t)
    /\ s[j] = Lost(Ended(t))
    /\ s[k].kind \in {"started", "ended"}

LEMMA OpenTurn ==
  ASSUME Holed(stream, asked, cut)
  PROVE  /\ \A t \in Turns : Has(stream, Started(t)) =>
              \/ Has(stream, Ended(t)) \/ EndLost(stream, t)
              \/ \E i \in OpenAt : stream[i] = Started(t)
         /\ \A i, k \in OpenAt : i = k
         /\ \A i \in OpenAt : i \in 1..Len(stream)
<1>1. Len(stream) \in Nat /\ DOMAIN stream = 1..Len(stream)
  BY LenProperties DEF Holed
<1>2. ASSUME NEW t \in Turns, Has(stream, Started(t)), ~Has(stream, Ended(t)),
             ~ \E i \in OpenAt : stream[i] = Started(t)
      PROVE  EndLost(stream, t)
  <2>1. PICK i \in 1..Len(stream) : stream[i] = Started(t)
    BY <1>2 DEF Has
  <2>2. PICK k \in (i + 1)..Len(stream) : stream[k].kind \in {"started", "ended"}
    <3>1. i \notin OpenAt
      BY <1>2, <2>1
    <3> QED
      BY <1>1, <2>1, <3>1, Kinds DEF OpenAt, After
  <2>3. k \in 1..Len(stream) /\ i < k
    BY <1>1, <2>2
  <2>4. PICK j \in (i + 1)..k : stream[j] \in {Ended(t), Lost(Ended(t))}
    BY <2>1, <2>2, <2>3 DEF Holed, EndsBetween
  <2>5. j \in 1..Len(stream)
    BY <1>1, <2>3
  <2>6. stream[j] = Lost(Ended(t))
    BY <1>2, <2>4, <2>5 DEF Has
  <2>7. j # k
    BY <2>2, <2>6, HoleKinds
  <2>8. i < j /\ j < k
    BY <1>1, <2>3, <2>7
  <2> QED
    BY <2>1, <2>2, <2>3, <2>5, <2>6, <2>8 DEF EndLost
<1>3. ASSUME NEW i \in OpenAt, NEW k \in OpenAt, i < k PROVE FALSE
  <2>1. k \in (i + 1)..Len(stream) /\ stream[k].kind = "started"
    BY <1>1, <1>3 DEF OpenAt
  <2>2. stream[k] \in After(i)
    BY <2>1 DEF After
  <2> QED
    BY <2>1, <2>2 DEF OpenAt
<1>4. \A i \in OpenAt : i \in 1..Len(stream)
  BY <1>1 DEF OpenAt
<1> QED
  BY <1>1, <1>2, <1>3, <1>4

\* A resolution of what is asked and not yet resolved.
LEMMA HoledResolved ==
  ASSUME NEW s, NEW n, NEW of, NEW spared, NEW r \in Requests, NEW x \in Reasons,
         Holed(s, of, spared), n = Append(s, Resolved(r, x)), ~HasResolved(s, r)
  PROVE  Holed(n, of, spared)
<1>1. /\ n \in Seq(Lines) /\ Len(s) \in Nat /\ Len(n) = Len(s) + 1
      /\ \A i \in 1..Len(s) : n[i] = s[i]
      /\ n[Len(s) + 1] = Resolved(r, x)
  <2>1. s \in Seq(Lines) /\ Resolved(r, x) \in Envelopes
    BY EnvelopeTypes DEF Holed
  <2> QED
    BY <2>1, BehindHoles
<1>2. EndsBetween(n)
  <2> SUFFICES ASSUME NEW i \in 1..Len(n), NEW k \in 1..Len(n), NEW t \in Turns,
                      i < k, n[i] = Started(t), n[k].kind \in {"started", "ended"}
        PROVE  \E j \in (i + 1)..k : n[j] \in {Ended(t), Lost(Ended(t))}
    BY DEF EndsBetween
  <2>1. k \in 1..Len(s)
    BY <1>1, Kinds
  <2>2. i \in 1..Len(s) /\ s[i] = Started(t) /\ s[k] = n[k]
    BY <1>1, <2>1
  <2>3. PICK j \in (i + 1)..k : s[j] \in {Ended(t), Lost(Ended(t))}
    BY <2>1, <2>2 DEF Holed, EndsBetween
  <2> QED
    BY <1>1, <2>1, <2>2, <2>3
<1>3. ASSUME NEW q \in Requests
      PROVE  /\ Once(n, Request(q))
             /\ of[q] \in Turns => InOrder(n, Started(of[q]), Request(q))
             /\ ResolvedOnce(n, q)
             /\ \A y \in Reasons : InOrder(n, Request(q), Resolved(q, y))
             /\ of[q] \notin spared => SettledOrLost(n, q, of[q])
  <2>1. Once(n, Request(q))
    BY <1>1, Kinds DEF Once, Holed
  <2>2. ASSUME of[q] \in Turns PROVE InOrder(n, Started(of[q]), Request(q))
    BY <1>1, <2>2, Kinds DEF InOrder, Holed
  <2>3. ResolvedOnce(n, q)
    <3>1. CASE q = r
      BY <1>1, <3>1 DEF ResolvedOnce, HasResolved, Has
    <3>2. CASE q # r
      <4>1. \A i \in 1..Len(n) : \A y \in Reasons : n[i] = Resolved(q, y) => i \in 1..Len(s)
        BY <1>1, <3>2, Kinds
      <4>2. ResolvedOnce(s, q)
        BY DEF Holed
      <4> QED
        BY <1>1, <4>1, <4>2 DEF ResolvedOnce
    <3> QED
      BY <3>1, <3>2
  <2>4. ASSUME NEW y \in Reasons PROVE InOrder(n, Request(q), Resolved(q, y))
    <3> SUFFICES ASSUME NEW i \in 1..Len(n), NEW j \in 1..Len(n),
                        n[i] = Request(q), n[j] = Resolved(q, y)
          PROVE  i < j
      BY DEF InOrder
    <3>1. i \in 1..Len(s) /\ s[i] = Request(q)
      BY <1>1, Kinds
    <3>2. CASE j \in 1..Len(s)
      BY <1>1, <3>1, <3>2 DEF InOrder, Holed
    <3>3. CASE j = Len(s) + 1
      BY <1>1, <3>1, <3>3
    <3> QED
      BY <1>1, <3>2, <3>3
  <2>5. ASSUME of[q] \notin spared PROVE SettledOrLost(n, q, of[q])
    <3> SUFFICES ASSUME NEW h \in 1..Len(n), NEW i \in 1..Len(n),
                        n[h] = Request(q), n[i] = Ended(of[q])
          PROVE  \E j \in (h + 1)..(i - 1) : \E y \in Reasons :
                   n[j] \in {Resolved(q, y), Lost(Resolved(q, y))}
      BY DEF SettledOrLost
    <3>1. h \in 1..Len(s) /\ i \in 1..Len(s) /\ s[h] = Request(q) /\ s[i] = Ended(of[q])
      BY <1>1, Kinds
    <3>2. PICK j \in (h + 1)..(i - 1), y \in Reasons :
            s[j] \in {Resolved(q, y), Lost(Resolved(q, y))}
      BY <2>5, <3>1 DEF Holed, SettledOrLost
    <3> QED
      BY <1>1, <3>1, <3>2
  <2> QED
    BY <2>1, <2>2, <2>3, <2>4, <2>5
<1> QED
  BY <1>1, <1>2, <1>3 DEF Holed

\* The open turn ends when what it owes is resolved.
LEMMA HoledEnded ==
  ASSUME Holed(stream, asked, cut), NEW t \in Turns, NEW i \in OpenAt,
         stream[i] = Started(t), Unresolved(i) = {}, NEW n, n = Append(stream, Ended(t))
  PROVE  Holed(n, asked, cut)
<1>1. /\ n \in Seq(Lines) /\ Len(stream) \in Nat /\ Len(n) = Len(stream) + 1
      /\ \A h \in 1..Len(stream) : n[h] = stream[h]
      /\ n[Len(stream) + 1] = Ended(t)
  <2>1. stream \in Seq(Lines) /\ Ended(t) \in Envelopes
    BY EnvelopeTypes DEF Holed
  <2> QED
    BY <2>1, BehindHoles
<1>2. i \in 1..Len(stream) /\ \A k \in (i + 1)..Len(stream) : stream[k].kind \notin {"started", "ended"}
  <2>1. i \in 1..Len(stream)
    BY OpenTurn
  <2> QED
    BY <2>1 DEF OpenAt, After
<1>3. EndsBetween(n)
  <2> SUFFICES ASSUME NEW h \in 1..Len(n), NEW k \in 1..Len(n), NEW u \in Turns,
                      h < k, n[h] = Started(u), n[k].kind \in {"started", "ended"}
        PROVE  \E j \in (h + 1)..k : n[j] \in {Ended(u), Lost(Ended(u))}
    BY DEF EndsBetween
  <2>1. h \in 1..Len(stream) /\ stream[h] = Started(u)
    BY <1>1
  <2>2. ASSUME NEW m \in 1..Len(stream), h < m, stream[m].kind \in {"started", "ended"}, m <= k
        PROVE  \E j \in (h + 1)..k : n[j] \in {Ended(u), Lost(Ended(u))}
    <3>1. PICK j \in (h + 1)..m : stream[j] \in {Ended(u), Lost(Ended(u))}
      BY <2>1, <2>2 DEF Holed, EndsBetween
    <3> QED
      BY <1>1, <2>1, <2>2, <3>1
  <2>3. CASE k \in 1..Len(stream)
    BY <1>1, <2>2, <2>3
  <2>4. CASE k = Len(stream) + 1 /\ h < i
    BY <1>1, <1>2, <2>2, <2>4, Kinds
  <2>5. CASE k = Len(stream) + 1 /\ h = i
    <3>1. u = t
      BY <2>1, <2>5, Kinds
    <3> QED
      BY <1>1, <2>1, <2>5, <3>1
  <2>6. CASE i < h
    <3>1. h \in (i + 1)..Len(stream)
      BY <1>1, <1>2, <2>1, <2>6
    <3> QED
      BY <1>2, <2>1, <3>1, Kinds
  <2> QED
    BY <1>1, <1>2, <2>1, <2>3, <2>4, <2>5, <2>6
<1>4. ASSUME NEW q \in Requests
      PROVE  /\ Once(n, Request(q))
             /\ asked[q] \in Turns => InOrder(n, Started(asked[q]), Request(q))
             /\ ResolvedOnce(n, q)
             /\ \A y \in Reasons : InOrder(n, Request(q), Resolved(q, y))
             /\ asked[q] \notin cut => SettledOrLost(n, q, asked[q])
  <2>1. Once(n, Request(q))
    BY <1>1, Kinds DEF Once, Holed
  <2>2. ASSUME asked[q] \in Turns PROVE InOrder(n, Started(asked[q]), Request(q))
    BY <1>1, <2>2, Kinds DEF InOrder, Holed
  <2>3. ResolvedOnce(n, q)
    BY <1>1, Kinds DEF ResolvedOnce, Holed
  <2>4. ASSUME NEW y \in Reasons PROVE InOrder(n, Request(q), Resolved(q, y))
    BY <1>1, Kinds DEF InOrder, Holed
  <2>5. ASSUME asked[q] \notin cut PROVE SettledOrLost(n, q, asked[q])
    <3> SUFFICES ASSUME NEW h \in 1..Len(n), NEW k \in 1..Len(n),
                        n[h] = Request(q), n[k] = Ended(asked[q])
          PROVE  \E j \in (h + 1)..(k - 1) : \E y \in Reasons :
                   n[j] \in {Resolved(q, y), Lost(Resolved(q, y))}
      BY DEF SettledOrLost
    <3>1. h \in 1..Len(stream) /\ stream[h] = Request(q)
      BY <1>1, Kinds
    <3>2. CASE k \in 1..Len(stream)
      <4>1. PICK j \in (h + 1)..(k - 1), y \in Reasons :
              stream[j] \in {Resolved(q, y), Lost(Resolved(q, y))}
        BY <1>1, <2>5, <3>1, <3>2 DEF Holed, SettledOrLost
      <4> QED
        BY <1>1, <3>1, <3>2, <4>1
    <3>3. CASE k = Len(stream) + 1
      <4>1. asked[q] = t
        BY <1>1, <3>3, Kinds
      <4>2. i < h
        BY <1>2, <3>1, <4>1 DEF Holed, InOrder
      <4>3. h \in (i + 1)..Len(stream)
        BY <1>1, <1>2, <3>1, <4>2
      <4>4. Request(q) \in After(i)
        BY <3>1, <4>3 DEF After
      <4>5. PICK y \in Reasons : Resolved(q, y) \in After(i)
        BY <4>4 DEF Unresolved
      <4>6. PICK j \in (i + 1)..Len(stream) : stream[j] = Resolved(q, y)
        BY <4>5 DEF After
      <4>7. j \in 1..Len(stream)
        BY <1>1, <1>2, <4>6
      <4>8. h < j
        BY <3>1, <4>6, <4>7 DEF Holed, InOrder
      <4> QED
        BY <1>1, <3>1, <3>3, <4>6, <4>7, <4>8
    <3> QED
      BY <1>1, <3>2, <3>3
  <2> QED
    BY <2>1, <2>2, <2>3, <2>4, <2>5
<1> QED
  BY <1>1, <1>3, <1>4 DEF Holed

\* Boot resolves what the open turn owes.
LEMMA BootResolvesInv == ASSUME Inv, NEW r \in Requests, BootResolves(r) PROVE Inv'
<1>1. /\ server = "booting" /\ stream' = Append(stream, Resolved(r, "cancelled"))
      /\ spilled' = Len(stream) + 1
      /\ UNCHANGED <<server, fail, turnVars, reqVars, appends, reply, cut>>
  BY DEF BootResolves
<1>2. /\ TypeOK /\ Holed(stream, asked, cut) /\ Idle /\ Slot /\ Asked
      /\ Outstanding /\ Recording /\ Audited /\ stream \in Seq(Lines)
      /\ Len(stream) \in Nat
  BY InvHoled DEF Inv
<1>3. Resolved(r, "cancelled") \in Envelopes
  BY EnvelopeTypes DEF Reasons
<1>4. /\ stream' \in Seq(Lines)
      /\ \A e : Has(stream', e) <=> Has(stream, e) \/ e = Resolved(r, "cancelled")
  <2>1. PICK e : e = Resolved(r, "cancelled")
    OBVIOUS
  <2>2. PICK n : n = Append(stream, e)
    OBVIOUS
  <2>3. e \in Envelopes
    BY <1>3, <2>1
  <2>4. n \in Seq(Lines) /\ \A f : Has(n, f) <=> Has(stream, f) \/ f = e
    BY <1>2, <2>2, <2>3, BehindHoles
  <2>5. n = stream'
    BY <1>1, <2>1, <2>2
  <2> QED
    BY <2>1, <2>4, <2>5
<1>5. Has(stream, Request(r)) /\ ~HasResolved(stream, r)
  <2>1. PICK i \in OpenAt : r \in Unresolved(i)
    BY DEF BootResolves
  <2>2. PICK h \in (i + 1)..Len(stream) : stream[h] = Request(r)
    BY <2>1 DEF Unresolved, After
  <2>3. i \in 1..Len(stream)
    BY <1>2, OpenTurn
  <2>4. h \in 1..Len(stream)
    BY <1>2, <2>2, <2>3
  <2>5. ASSUME NEW x \in Reasons, NEW j \in 1..Len(stream), stream[j] = Resolved(r, x)
        PROVE  FALSE
    <3>1. h < j
      BY <1>2, <2>2, <2>4, <2>5 DEF Holed, InOrder
    <3>2. j \in (i + 1)..Len(stream)
      BY <1>2, <2>2, <2>3, <3>1
    <3>3. Resolved(r, x) \in After(i)
      BY <2>5, <3>2 DEF After
    <3> QED
      BY <2>1, <3>3 DEF Unresolved
  <2> QED
    BY <2>2, <2>4, <2>5 DEF Has, HasResolved
<1>6. PICK ok \in BOOLEAN :
        audit' = IF ok THEN [audit EXCEPT ![r] = Append(@, "cancelled")] ELSE audit
  BY DEF BootResolves
<1>7. /\ audit' \in [Requests -> Seq(Decisions \cup {"cancelled"})]
      /\ \A q \in Requests : q # r => audit'[q] = audit[q]
      /\ ok => audit'[r] = Append(audit[r], "cancelled")
      /\ ~ok => audit'[r] = audit[r]
  <2>1. PICK x \in Decisions \cup {"cancelled"} : x = "cancelled"
    OBVIOUS
  <2>2. audit' = IF ok THEN [audit EXCEPT ![r] = Append(@, x)] ELSE audit
    BY <1>6, <2>1
  <2> QED
    BY <1>2, <2>1, <2>2, Settles
<1>8. \A q \in Requests : \A rs : Says(audit[q], rs) => Says(audit'[q], rs)
  <2>1. CASE ok
    <3>1. PICK a, x, b : a = audit[r] /\ x = "cancelled" /\ b = audit'[r]
      OBVIOUS
    <3>2. Appended(a, x, b)
      <4>1. a \in Seq(Decisions \cup {"cancelled"}) /\ x \in Decisions \cup {"cancelled"}
        BY <1>2, <3>1 DEF TypeOK
      <4>2. b = Append(a, x)
        BY <1>7, <2>1, <3>1
      <4> QED
        BY <4>1, <4>2 DEF Appended
    <3>3. \A rs : Says(b, rs) <=> Says(a, rs) \/ x \in rs
      BY <3>2, AuditGrows
    <3> QED
      BY <1>7, <3>1, <3>3
  <2>2. CASE ~ok
    BY <1>7, <2>2
  <2> QED
    BY <2>1, <2>2
<1>9. TypeOK'
  BY <1>1, <1>2, <1>4, <1>7 DEF TypeOK, turnVars, reqVars
<1>10. Holed(stream', asked', cut')
  <2>1. PICK x \in Reasons : x = "cancelled"
    BY DEF Reasons
  <2>2. Holed(stream', asked, cut)
    BY <1>1, <1>2, <1>5, <2>1, HoledResolved
  <2> QED
    BY <1>1, <2>2 DEF reqVars
<1>11. ~Up /\ ~Up'
  BY <1>1 DEF Up
<1>12. Idle' /\ Outstanding' /\ Recording'
  BY <1>1, <1>2, <1>11 DEF Idle, Outstanding, Recording, Failed, turnVars, reqVars
<1>13. Slot'
  BY <1>1, <1>2, <1>4, <1>11, Kinds DEF Slot, turnVars
<1>14. Asked'
  <2>1. \A q \in Requests : Has(stream', Request(q)) <=> Has(stream, Request(q))
    BY <1>4, Kinds
  <2>2. asked[r] # None
    BY <1>2, <1>5 DEF Asked
  <2> QED
    BY <1>1, <1>2, <1>7, <1>11, <2>1, <2>2 DEF Asked, reqVars
<1>15. Audited'
  <2>1. \A q \in Requests : Has(stream', Resolved(q, "answered")) =>
          Has(stream, Resolved(q, "answered"))
    BY <1>4, Kinds
  <2>2. targeted \subseteq Requests
    BY <1>2 DEF TypeOK
  <2> QED
    BY <1>1, <1>2, <1>8, <2>1, <2>2 DEF Audited, reqVars
<1>16. RestartClosesTurns'
  BY <1>1 DEF RestartClosesTurns
<1> QED
  BY <1>9, <1>10, <1>11, <1>12, <1>13, <1>14, <1>15, <1>16 DEF Inv, Written

\* Boot ends the open turn, and then a turn has ended or its end is a hole.
LEMMA BootEndsTurnInv == ASSUME Inv, BootEndsTurn PROVE Inv'
<1>1. /\ server = "booting" /\ server' = "booted" /\ \A i \in OpenAt : Unresolved(i) = {}
      /\ UNCHANGED <<fail, turnVars, reqVars, logVars, cut>>
  BY DEF BootEndsTurn
<1>2. /\ TypeOK /\ Holed(stream, asked, cut) /\ Idle /\ Slot /\ Asked
      /\ Outstanding /\ Recording /\ Audited /\ stream \in Seq(Lines)
      /\ Len(stream) \in Nat /\ spilled \in Nat
  BY InvHoled DEF Inv, TypeOK
<1>3. /\ Holed(stream', asked, cut) /\ stream' \in Seq(Lines) /\ spilled' \in Nat
      /\ \A e : Has(stream, e) => Has(stream', e)
      /\ \A e : Has(stream', e) => Has(stream, e) \/ \E t : e = Ended(t)
      /\ \A t \in Turns : Has(stream', Started(t)) =>
           Has(stream', Ended(t)) \/ EndLost(stream', t)
  <2>1. CASE OpenAt = {}
    <3>1. UNCHANGED <<stream, spilled>>
      BY <2>1 DEF BootEndsTurn, outVars
    <3>2. \A t \in Turns : Has(stream, Started(t)) => Has(stream, Ended(t)) \/ EndLost(stream, t)
      BY <1>2, <2>1, OpenTurn
    <3> QED
      BY <1>2, <3>1, <3>2
  <2>2. CASE OpenAt # {}
    <3>1. PICK t \in Turns, i \in OpenAt :
            stream[i] = Started(t) /\ stream' = Append(stream, Ended(t))
            /\ spilled' = Len(stream) + 1
      BY <2>2 DEF BootEndsTurn
    <3>2. /\ stream' \in Seq(Lines) /\ Len(stream') = Len(stream) + 1
          /\ \A h \in 1..Len(stream) : stream'[h] = stream[h]
          /\ \A e : Has(stream', e) <=> Has(stream, e) \/ e = Ended(t)
      <4>1. PICK e : e = Ended(t)
        OBVIOUS
      <4>2. PICK n : n = Append(stream, e)
        OBVIOUS
      <4>3. e \in Envelopes
        BY <4>1, EnvelopeTypes
      <4>4. n \in Seq(Lines) /\ \A f : Has(n, f) <=> Has(stream, f) \/ f = e
        BY <1>2, <4>2, <4>3, BehindHoles
      <4>5. Len(n) = Len(stream) + 1 /\ \A h \in 1..Len(stream) : n[h] = stream[h]
        BY <1>2, <4>2, <4>3, BehindHoles
      <4>6. n = stream'
        BY <3>1, <4>1, <4>2
      <4> QED
        BY <4>1, <4>4, <4>5, <4>6
    <3>3. Holed(stream', asked, cut)
      BY <1>1, <1>2, <3>1, HoledEnded
    <3>4. ASSUME NEW u \in Turns, Has(stream', Started(u)), ~Has(stream', Ended(u))
          PROVE  EndLost(stream', u)
      <4>1. Has(stream, Started(u)) /\ ~Has(stream, Ended(u)) /\ u # t
        BY <3>2, <3>4, Kinds
      <4>2. ~ \E k \in OpenAt : stream[k] = Started(u)
        BY <1>2, <3>1, <4>1, OpenTurn, Kinds
      <4>3. EndLost(stream, u)
        BY <1>2, <4>1, <4>2, OpenTurn
      <4>4. \A h \in 1..Len(stream) : h \in 1..Len(stream')
        BY <1>2, <3>2
      <4> QED
        BY <3>2, <4>3, <4>4 DEF EndLost
    <3> QED
      BY <1>2, <3>1, <3>2, <3>3, <3>4
  <2> QED
    BY <2>1, <2>2
<1>4. ~Up /\ ~Up' /\ turn = None /\ child = None
  BY <1>1, <1>2 DEF Up, Idle
<1>5. TypeOK'
  BY <1>1, <1>2, <1>3 DEF TypeOK, turnVars, reqVars, logVars
<1>6. Idle' /\ Outstanding' /\ Recording'
  BY <1>1, <1>2, <1>4 DEF Idle, Outstanding, Recording, Failed, turnVars, reqVars, logVars
<1>7. Slot'
  BY <1>1, <1>2, <1>3, <1>4 DEF Slot, turnVars
<1>8. Asked'
  <2>1. \A q \in Requests : Has(stream', Request(q)) <=> Has(stream, Request(q))
    BY <1>3, Kinds
  <2> QED
    BY <1>1, <1>2, <1>4, <2>1 DEF Asked, reqVars, logVars
<1>9. Audited'
  <2>1. \A q \in Requests : Has(stream', Resolved(q, "answered")) =>
          Has(stream, Resolved(q, "answered"))
    BY <1>3, Kinds
  <2> QED
    BY <1>1, <1>2, <2>1, AuditedSame DEF reqVars, logVars
<1>10. RestartClosesTurns'
  <2>1. DOMAIN stream' = 1..Len(stream')
    BY <1>3, LenProperties
  <2>2. \A e : e \in Told' <=> Has(stream', e)
    BY <2>1 DEF Told, Has
  <2> QED
    BY <1>3, <2>1, <2>2 DEF RestartClosesTurns, EndLost
<1> QED
  BY <1>1, <1>3, <1>4, <1>5, <1>6, <1>7, <1>8, <1>9, <1>10 DEF Inv, Written, reqVars

\* Boot gives the transcript up as it was read; what is outstanding is recorded.
LEMMA BootFailsInv == ASSUME Inv, BootFails PROVE Inv'
<1>1. /\ server = "booting" /\ server' = "unrepaired"
      /\ UNCHANGED <<fail, turnVars, reqVars, appends, reply, outVars, cut>>
  BY DEF BootFails
<1>2. /\ TypeOK /\ Written /\ Idle /\ Slot /\ Asked /\ Outstanding /\ Recording /\ Audited
  BY DEF Inv
<1>3. ~Up /\ ~Up'
  BY <1>1 DEF Up
<1>4. PICK recorded \in SUBSET UNION {Unresolved(i) : i \in OpenAt} :
        audit' = [r \in Requests |->
                    IF r \in recorded THEN Append(audit[r], "cancelled") ELSE audit[r]]
  BY DEF BootFails
<1>5. ASSUME NEW r \in Requests
      PROVE  /\ audit'[r] \in Seq(Decisions \cup {"cancelled"})
             /\ \A rs : Says(audit[r], rs) => Says(audit'[r], rs)
             /\ asked[r] = None => audit'[r] = audit[r]
  <2>1. CASE r \notin recorded
    BY <1>2, <1>4, <2>1 DEF TypeOK
  <2>2. CASE r \in recorded
    <3>1. PICK i \in OpenAt : r \in Unresolved(i)
      BY <1>4, <2>2
    <3>2. Has(stream, Request(r))
      <4>1. PICK h \in (i + 1)..Len(stream) : stream[h] = Request(r)
        BY <3>1 DEF Unresolved, After
      <4>2. i \in 1..Len(stream) /\ Len(stream) \in Nat
        BY InvHoled, OpenTurn
      <4> QED
        BY <4>1, <4>2 DEF Has
    <3>3. asked[r] # None
      BY <1>2, <3>2 DEF Asked
    <3>4. PICK a, x, b : a = audit[r] /\ x = "cancelled" /\ b = audit'[r]
      OBVIOUS
    <3>5. a \in Seq(Decisions \cup {"cancelled"}) /\ x \in Decisions \cup {"cancelled"}
      BY <1>2, <3>4 DEF TypeOK
    <3>6. b = Append(a, x)
      BY <1>4, <2>2, <3>4
    <3>7. b \in Seq(Decisions \cup {"cancelled"}) /\ Appended(a, x, b)
      BY <3>5, <3>6, AppendProperties DEF Appended
    <3>8. \A rs : Says(b, rs) <=> Says(a, rs) \/ x \in rs
      BY <3>7, AuditGrows
    <3> QED
      BY <3>3, <3>4, <3>7, <3>8
  <2> QED
    BY <2>1, <2>2
<1>6. TypeOK'
  <2>1. audit' \in [Requests -> Seq(Decisions \cup {"cancelled"})]
    BY <1>4, <1>5
  <2> QED
    BY <1>1, <1>2, <2>1 DEF TypeOK, turnVars, reqVars, outVars
<1>7. Written'
  BY <1>1, <1>2, <1>3 DEF Written, reqVars, outVars
<1>8. Idle' /\ Slot' /\ Outstanding' /\ Recording'
  BY <1>1, <1>2, <1>3
     DEF Idle, Slot, Outstanding, Recording, Failed, turnVars, reqVars, outVars
<1>9. Asked'
  BY <1>1, <1>2, <1>3, <1>5 DEF Asked, reqVars, outVars
<1>10. Audited'
  <2>1. targeted \subseteq Requests
    BY <1>2 DEF TypeOK
  <2> QED
    BY <1>1, <1>2, <1>5, <2>1 DEF Audited, reqVars, outVars
<1>11. RestartClosesTurns'
  BY <1>1 DEF RestartClosesTurns
<1> QED
  BY <1>6, <1>7, <1>8, <1>9, <1>10, <1>11 DEF Inv

\* Nothing happens.
LEMMA StutterInv == ASSUME Inv, UNCHANGED vars PROVE Inv'
<1>1. UNCHANGED <<server, fail, turnVars, reqVars, logVars, outVars, cut>>
  BY DEF vars
<1>2. /\ TypeOK /\ Written /\ Idle /\ Slot /\ Asked
      /\ Outstanding /\ Recording /\ Audited /\ RestartClosesTurns
  BY DEF Inv
<1>3. TypeOK'
  BY <1>1, <1>2 DEF TypeOK, turnVars, reqVars, logVars, outVars
<1>4. Written'
  BY <1>1, <1>2 DEF Written, Up, reqVars, outVars
<1>5. Idle' /\ Slot' /\ Outstanding'
  BY <1>1, <1>2 DEF Idle, Slot, Outstanding, Up, Failed, turnVars, reqVars, logVars, outVars
<1>6. Asked' /\ Recording' /\ Audited'
  BY <1>1, <1>2, AskedSame, RecordingSame, AuditedSame DEF reqVars, logVars, outVars
<1>7. RestartClosesTurns'
  BY <1>1, <1>2 DEF RestartClosesTurns, Told, outVars
<1> QED
  BY <1>3, <1>4, <1>5, <1>6, <1>7 DEF Inv

\* Every step keeps the invariant.
LEMMA NextInv == ASSUME Inv, [Next]_vars PROVE Inv'
<1>1. CASE \E t \in Turns : Claim(t)
  BY <1>1, ClaimInv
<1>2. CASE Spawn \/ PipeBreaks \/ RecordEndsTurn \/ ChildCloses
  BY <1>2, SpawnInv, PipeBreaksInv, RecordEndsTurnInv, ChildClosesInv
<1>3. CASE \E r \in Requests : Ask(r) \/ Preapprove(r) \/ BootResolves(r)
  BY <1>3, AskInv, PreapproveInv, BootResolvesInv
<1>4. CASE \E r \in Requests : \E d \in {"allow", "deny", "always"} : Answer(r, d)
  BY <1>4, AnswerInv
<1>5. CASE \E r \in Requests : \E ok \in BOOLEAN :
             DecisionSettles(r, ok) \/ CorrectionSettles(r, ok)
  BY <1>5, DecisionSettlesInv, CorrectionSettlesInv
<1>6. CASE \E n \in 0..Len(stream) : Crash(n)
  BY <1>6, CrashInv
<1>7. CASE \E announced \in BOOLEAN : SpillFails(announced)
  BY <1>7, SpillFailsInv
<1>8. CASE FailCancels \/ FailEndsTurn \/ BootEndsTurn \/ BootFails
  BY <1>8, FailCancelsInv, FailEndsTurnInv, BootEndsTurnInv, BootFailsInv
<1>9. CASE UNCHANGED vars
  BY <1>9, StutterInv
<1> QED
  BY <1>1, <1>2, <1>3, <1>4, <1>5, <1>6, <1>7, <1>8, <1>9 DEF Next

\* What the invariant says of the audit log is what DecisionAudited asks.
LEMMA InvAudited == ASSUME Inv PROVE DecisionAudited
<1>1. /\ TypeOK /\ Recording /\ Audited /\ \A e : e \in Told <=> Has(stream, e)
  BY ToldHas DEF Inv, TypeOK
<1>2. \A r \in Requests : DOMAIN audit[r] = 1..Len(audit[r])
  BY <1>1, LenProperties DEF TypeOK
<1>3. ASSUME NEW r \in Requests
      PROVE  /\ reply[r] = "allow" =>
                  \E i \in DOMAIN audit[r] : audit[r][i] \in {"allow", "always", "standing"}
             /\ Resolved(r, "answered") \in Told =>
                  \E i \in DOMAIN audit[r] : audit[r][i] = choice[r]
  BY <1>1, <1>2 DEF Audited, Says
<1>4. ASSUME NEW r \in Requests, Up, ~Failed,
             NEW i \in DOMAIN audit[r], NEW j \in DOMAIN audit[r],
             (audit[r][i] = "cancelled") = (audit[r][j] = "cancelled")
      PROVE  i = j
  <2>1. OneDecision(audit[r], choice[r]) /\ OneCorrection(audit[r])
    BY <1>1, <1>4 DEF Recording, RecordingOf
  <2>2. i \in 1..Len(audit[r]) /\ j \in 1..Len(audit[r])
    BY <1>2
  <2>3. CASE audit[r][i] = "cancelled"
    <3>1. audit[r][j] = "cancelled"
      BY <1>4, <2>3
    <3> QED
      BY <2>1, <2>2, <2>3, <3>1 DEF OneCorrection
  <2>4. CASE audit[r][i] # "cancelled"
    <3>1. audit[r][j] # "cancelled"
      BY <1>4, <2>4
    <3> QED
      BY <2>1, <2>2, <2>4, <3>1 DEF OneDecision
  <2> QED
    BY <2>3, <2>4
<1>5. rule => \E r \in targeted : \E i \in DOMAIN audit[r] : audit[r][i] = "always"
  <2>1. targeted \subseteq Requests
    BY <1>1 DEF TypeOK
  <2> QED
    BY <1>1, <1>2, <2>1 DEF Audited, Says
<1> QED
  BY <1>3, <1>4, <1>5 DEF DecisionAudited, Up

\* And what it says of the transcript is what PermissionPaired asks.
LEMMA InvPaired == ASSUME Inv PROVE PermissionPaired
<1>1. /\ Holed(stream, asked, cut) /\ Len(stream) \in Nat
      /\ DOMAIN stream = 1..Len(stream)
      /\ \A e : e \in Told <=> Has(stream, e)
  BY InvHoled, ToldHas, LenProperties
<1>2. ASSUME NEW r \in Requests, NEW i \in Resolutions(r), NEW j \in Resolutions(r)
      PROVE  i = j
  BY <1>1 DEF Resolutions, Holed, ResolvedOnce
<1>3. ASSUME NEW r \in Requests, Request(r) \in Told, asked[r] \notin cut,
             \A x \in Reasons : Lost(Resolved(r, x)) \notin Told,
             NEW i \in At(Ended(asked[r]))
      PROVE  \E j \in Resolutions(r) : Position(Request(r)) < j /\ j < i
  <2>1. PICK h : h = Position(Request(r))
    OBVIOUS
  <2>2. h \in 1..Len(stream) /\ stream[h] = Request(r)
    BY <1>1, <1>3, <2>1 DEF Position, Has
  <2>3. i \in 1..Len(stream) /\ stream[i] = Ended(asked[r])
    BY <1>1 DEF At
  <2>4. SettledOrLost(stream, r, asked[r])
    BY <1>1, <1>3 DEF Holed
  <2>5. PICK j \in (h + 1)..(i - 1), x \in Reasons :
          stream[j] \in {Resolved(r, x), Lost(Resolved(r, x))}
    BY <2>2, <2>3, <2>4 DEF SettledOrLost
  <2>7. h < j /\ j < i /\ j \in 1..Len(stream)
    BY <1>1, <2>2, <2>3, <2>5
  <2>8. stream[j] = Resolved(r, x)
    <3>1. stream[j] \in Told
      BY <1>1, <2>7 DEF Told
    <3> QED
      BY <1>3, <2>5, <3>1
  <2>9. j \in Resolutions(r)
    BY <1>1, <2>7, <2>8 DEF Resolutions
  <2> QED
    BY <2>1, <2>7, <2>9
<1> QED
  BY <1>2, <1>3 DEF PermissionPaired

---------------------------------------------------------------------------
(* The theorems. *)

\* Every behaviour satisfies the invariant.
THEOREM PermissionInvariant == Spec => []Inv
<1>1. Init => Inv
  BY InitInv
<1>2. Inv /\ [Next]_vars => Inv'
  BY NextInv
<1> QED
  BY <1>1, <1>2, PTL DEF Spec

\* The requests, their maps, the audit records and the transcript have the
\* types the code gives them, through storage failures and restarts.
THEOREM TypeCorrect == Spec => []TypeOK
<1>1. Inv => TypeOK
  BY DEF Inv
<1> QED
  BY <1>1, PermissionInvariant, PTL

\* What an agent was allowed, what subscribers were told was answered, and what
\* a standing rule was granted by, had been recorded, whatever answers, sweeps,
\* failures and crashes raced with the record (finalizeResolution and
\* respondOrCancel of core/index.ts).
THEOREM AllowedIsAudited == Spec => []DecisionAudited
<1>1. Inv => DecisionAudited
  BY InvAudited
<1> QED
  BY <1>1, PermissionInvariant, PTL

\* A request is resolved at most once, and one of a turn that neither a record
\* of the child nor a storage failure cut is resolved after it was asked and
\* before its turn ends (the `exited` sweep, respondOrCancel, and boot), unless
\* the resolution's own line is a hole a storage failure left in the transcript.
THEOREM RequestsArePaired == Spec => []PermissionPaired
<1>1. Inv => PermissionPaired
  BY InvPaired
<1> QED
  BY <1>1, PermissionInvariant, PTL

\* A restart that could append to the spill leaves no turn open, wherever the
\* crashes before it cut the transcript and whatever a storage failure left out
\* of it, but a turn whose turn.ended is such a hole in front of a later turn's
\* line (boot's close of the unterminated turn, which is the newest).
THEOREM RestartEndsTurns == Spec => []RestartClosesTurns
<1>1. Inv => RestartClosesTurns
  BY DEF Inv
<1> QED
  BY <1>1, PermissionInvariant, PTL

====
