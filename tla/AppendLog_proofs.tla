---- MODULE AppendLog_proofs ----
(***************************************************************************)
(* What the newest line of an id is when a file has grown, for any lines:  *)
(* behind one append, acknowledged or not, and behind the appends a        *)
(* process died in.                                                        *)
(***************************************************************************)
EXTENDS AppendLog, FiniteSetTheorems, FunctionTheorems, SequenceTheorems, WellFoundedInduction, TLAPS

\* A set of positions that is not empty has a last one.
LEMMA MaxIsLast ==
  ASSUME NEW n \in Nat, NEW S \in SUBSET (1..n), S # {}
  PROVE  Max(S) \in S /\ \A i \in S : i <= Max(S)
<1> DEFINE Back == {n - i : i \in S}
<1>1. Back # {} /\ Back \subseteq Nat
  <2>1. PICK i \in S : TRUE
    OBVIOUS
  <2>2. n - i \in Back
    OBVIOUS
  <2>3. Back \subseteq Nat
    OBVIOUS
  <2> QED
    BY <2>2, <2>3
<1>2. PICK b \in Back : \A c \in Back : ~(<<c, b>> \in OpToRel(<, Nat))
  <2> HIDE DEF Back
  <2> QED
    BY <1>1, NatLessThanWellFounded, WFMin
<1>3. \A c \in Back : ~(c < b)
  BY <1>1, <1>2 DEF OpToRel
<1>4. PICK m \in S : b = n - m
  OBVIOUS
<1>5. \A i \in S : m >= i
  <2> SUFFICES ASSUME NEW i \in S PROVE m >= i
    OBVIOUS
  <2>1. ~(n - i < n - m)
    BY <1>3, <1>4
  <2> QED
    BY <2>1
<1>6. Max(S) \in S /\ \A i \in S : Max(S) >= i
  BY <1>5 DEF Max
<1> QED
  BY <1>6

\* The file has grown by some lines.
Grown(log, next, more) == next.lines = log.lines \o more

\* The newest line of an id is what it was, if there was one.
Keeps(log, next, id) ==
  /\ id \in Ids(next) <=> id \in Ids(log)
  /\ id \in Ids(log) => Latest(next, id) = Latest(log, id)

\* An id no appended line has keeps its newest line.
LEMMA LatestOfOthers ==
  ASSUME NEW X, NEW log, NEW next, NEW more, NEW id,
         log.lines \in Seq(X), more \in Seq(X), Grown(log, next, more),
         \A i \in DOMAIN more : more[i].id # id
  PROVE  Keeps(log, next, id)
<1> DEFINE old == log.lines
           new == next.lines
           where(ls) == {i \in DOMAIN ls : ls[i].id = id}
<1>1. /\ Len(old) \in Nat /\ Len(more) \in Nat /\ new \in Seq(X)
      /\ Len(new) = Len(old) + Len(more)
      /\ DOMAIN old = 1..Len(old) /\ DOMAIN more = 1..Len(more) /\ DOMAIN new = 1..Len(new)
  BY ConcatProperties, LenProperties DEF Grown
<1>2. /\ \A i \in 1..Len(old) : new[i] = old[i]
      /\ \A i \in 1..Len(more) : new[Len(old) + i] = more[i]
  BY <1>1, ConcatProperties DEF Grown
<1>3. /\ Latest(log, id) = old[Max(where(old))] /\ Latest(next, id) = new[Max(where(new))]
      /\ id \in Ids(log) <=> where(old) # {}
      /\ id \in Ids(next) <=> where(new) # {}
  BY DEF Latest, Ids
<1>4. where(new) = where(old)
  <2>1. ASSUME NEW i \in where(new) PROVE i \in where(old)
    <3>1. ASSUME i \in (Len(old) + 1)..Len(new) PROVE FALSE
      <4>1. i - Len(old) \in 1..Len(more) /\ i = Len(old) + (i - Len(old))
        BY <1>1, <3>1
      <4>2. new[i] = more[i - Len(old)]
        BY <1>2, <4>1
      <4> QED
        BY <1>1, <2>1, <4>1, <4>2
    <3> QED
      BY <1>1, <1>2, <2>1, <3>1
  <2>2. ASSUME NEW i \in where(old) PROVE i \in where(new)
    BY <1>1, <1>2
  <2> QED
    BY <2>1, <2>2
<1>5. ASSUME where(old) # {} PROVE new[Max(where(old))] = old[Max(where(old))]
  <2>1. Max(where(old)) \in where(old)
    BY <1>1, <1>5, MaxIsLast
  <2> QED
    BY <1>1, <1>2, <2>1
<1> QED
  BY <1>3, <1>4, <1>5 DEF Keeps

\* The newest line of an id some appended lines have is one of them.
LEMMA LatestOfAppended ==
  ASSUME NEW X, NEW log, NEW next, NEW more, NEW id,
         log.lines \in Seq(X), more \in Seq(X), Grown(log, next, more),
         \E i \in DOMAIN more : more[i].id = id
  PROVE  /\ id \in Ids(next)
         /\ Latest(next, id) \in {line \in Range(more) : line.id = id}
<1> DEFINE old == log.lines
           new == next.lines
           where == {i \in DOMAIN new : new[i].id = id}
<1>1. /\ Len(old) \in Nat /\ Len(more) \in Nat /\ new \in Seq(X)
      /\ Len(new) = Len(old) + Len(more)
      /\ DOMAIN more = 1..Len(more) /\ DOMAIN new = 1..Len(new)
  BY ConcatProperties, LenProperties DEF Grown
<1>2. \A i \in 1..Len(more) : new[Len(old) + i] = more[i]
  BY SMTT(30), <1>1, ConcatProperties DEF Grown
<1>3. PICK j \in 1..Len(more) : more[j].id = id
  BY <1>1
<1>4. Len(old) + j \in where
  <2>1. Len(old) + j \in 1..Len(new)
    BY <1>1
  <2> QED
    BY <1>1, <1>2, <1>3, <2>1
<1>5. Max(where) \in where /\ Len(old) + j <= Max(where)
  <2>1. where \in SUBSET (1..Len(new))
    BY <1>1
  <2>2. where # {}
    BY <1>4
  <2>3. Len(new) \in Nat
    BY <1>1
  <2> HIDE DEF where
  <2> QED
    BY <1>4, <2>1, <2>2, <2>3, MaxIsLast
<1> DEFINE i == Max(where) - Len(old)
<1>6. i \in 1..Len(more) /\ Max(where) = Len(old) + i
  <2>1. Max(where) \in 1..Len(new)
    BY <1>1, <1>5
  <2> HIDE DEF where
  <2> QED
    BY <1>1, <1>5, <2>1
<1>7. more[i] = new[Max(where)] /\ more[i].id = id
  BY <1>2, <1>5, <1>6
<1>8. id \in Ids(next) /\ Latest(next, id) = new[Max(where)]
  BY <1>4 DEF Ids, Latest
<1> QED
  BY <1>1, <1>6, <1>7, <1>8 DEF Range

\* The newest line of an id is a line, and of that id.
LEMMA LatestIsLine ==
  ASSUME NEW X, NEW log, log.lines \in Seq(X), NEW id \in Ids(log)
  PROVE  Latest(log, id) \in X /\ Latest(log, id).id = id
<1> DEFINE where == {i \in DOMAIN log.lines : log.lines[i].id = id}
<1>1. DOMAIN log.lines = 1..Len(log.lines) /\ Len(log.lines) \in Nat
  BY LenProperties
<1>2. where # {}
  BY DEF Ids
<1>3. Max(where) \in where
  BY <1>1, <1>2, MaxIsLast
<1> QED
  BY <1>1, <1>3, ElementOfSeq DEF Latest

\* A file one line longer has that line as the newest of its id.
LEMMA LatestOfOne ==
  ASSUME NEW X, NEW log, NEW next, NEW line, line \in X,
         log.lines \in Seq(X), next.lines = Append(log.lines, line)
  PROVE  /\ line.id \in Ids(next) /\ Latest(next, line.id) = line
         /\ \A id : id # line.id => Keeps(log, next, id)
<1> DEFINE more == <<line>>
<1>1. DOMAIN more = {1} /\ more[1] = line
  OBVIOUS
<1>2. more \in Seq(X) /\ Grown(log, next, more)
  BY AppendIsConcat DEF Grown
<1> HIDE DEF more
<1>3. ASSUME NEW id, id # line.id PROVE Keeps(log, next, id)
  <2>1. \A i \in DOMAIN more : more[i].id # id
    BY <1>1, <1>3
  <2> QED
    BY <1>2, <2>1, LatestOfOthers
<1>4. line.id \in Ids(next) /\ Latest(next, line.id) = line
  <2>1. \E i \in DOMAIN more : more[i].id = line.id
    BY <1>1
  <2>2. log.lines \in Seq(X)
    OBVIOUS
  <2>3. line.id \in Ids(next)
    BY <1>2, <2>1, <2>2, LatestOfAppended
  <2>4. Latest(next, line.id) \in {x \in Range(more) : x.id = line.id}
    BY <1>2, <2>1, <2>2, LatestOfAppended
  <2> QED
    BY <1>1, <2>3, <2>4 DEF Range
<1> QED
  BY <1>3, <1>4

\* An append leaves the file as it was, torn, or with its line behind it.
LEMMA AppendOutcome ==
  ASSUME NEW X, NEW log \in [lines : Seq(X), torn : BOOLEAN], NEW line \in X,
         NEW fsync \in BOOLEAN, NEW out \in Appends(log, line, fsync)
  PROVE  /\ out.log \in [lines : Seq(X), torn : BOOLEAN] /\ out.ok \in BOOLEAN
         /\ out.log.lines \in {log.lines, Append(log.lines, line)}
         /\ out.ok /\ ~Glues(log) => out.log.lines = Append(log.lines, line)
         /\ ~out.ok /\ ~fsync => out.log.lines = log.lines
<1>1. /\ Landed(log, line) \in [lines : Seq(X), torn : BOOLEAN]
      /\ Landed(log, line).lines \in {log.lines, Append(log.lines, line)}
      /\ ~Glues(log) => Landed(log, line).lines = Append(log.lines, line)
  <2>1. Append(log.lines, line) \in Seq(X)
    BY AppendProperties
  <2> QED
    BY <2>1 DEF Landed, Glues
<1>2. Torn(log) \in [lines : Seq(X), torn : BOOLEAN] /\ Torn(log).lines = log.lines
  BY DEF Torn
<1>3. CASE out = [log |-> Landed(log, line), ok |-> TRUE]
  <2>1. out.log = Landed(log, line) /\ out.ok = TRUE
    BY <1>3
  <2> QED
    BY <1>1, <2>1
<1>4. CASE out = [log |-> log, ok |-> FALSE]
  <2>1. out.log = log /\ out.ok = FALSE
    BY <1>4
  <2> QED
    BY <2>1
<1>5. CASE out = [log |-> Torn(log), ok |-> FALSE]
  <2>1. out.log = Torn(log) /\ out.ok = FALSE
    BY <1>5
  <2> QED
    BY <1>2, <2>1
<1>6. CASE fsync /\ out = [log |-> Landed(log, line), ok |-> FALSE]
  <2>1. out.log = Landed(log, line) /\ out.ok = FALSE
    BY <1>6
  <2> QED
    BY <1>1, <1>6, <2>1
<1>7. CASE fsync
  BY <1>3, <1>4, <1>5, <1>6, <1>7 DEF Appends
<1>8. CASE ~fsync
  BY <1>3, <1>4, <1>5, <1>8 DEF Appends
<1> QED
  BY <1>7, <1>8

\* The same lines, and a fragment behind them or none.
LEMMA SameLines ==
  ASSUME NEW log, NEW next, next.lines = log.lines
  PROVE  \A id : Keeps(log, next, id)
BY DEF Keeps, Ids, Latest

\* An append leaves the other ids alone; one that is acknowledged, and not
\* behind a fragment, is the newest of its own.
LEMMA AppendSettles ==
  ASSUME NEW X, NEW log, NEW line, NEW fsync, NEW out,
         log \in [lines : Seq(X), torn : BOOLEAN], line \in X, fsync \in BOOLEAN,
         out \in Appends(log, line, fsync)
  PROVE  /\ \A id : id # line.id => Keeps(log, out.log, id)
         /\ out.ok /\ ~Glues(log) =>
              line.id \in Ids(out.log) /\ Latest(out.log, line.id) = line
         /\ ~out.ok /\ ~fsync => Keeps(log, out.log, line.id)
<1>1. /\ out.log.lines \in {log.lines, Append(log.lines, line)}
      /\ out.ok /\ ~Glues(log) => out.log.lines = Append(log.lines, line)
      /\ ~out.ok /\ ~fsync => out.log.lines = log.lines
  BY AppendOutcome
<1>2. PICK next : next = out.log
  OBVIOUS
<1>3. PICK old : old = log
  OBVIOUS
<1>4. old.lines \in Seq(X)
  BY <1>3
<1>5. CASE next.lines = old.lines
  <2>1. \A id : Keeps(old, next, id)
    BY <1>5, SameLines
  <2>2. Append(log.lines, line) # log.lines
    <3>1. Len(Append(log.lines, line)) = Len(log.lines) + 1 /\ Len(log.lines) \in Nat
      BY AppendProperties
    <3> QED
      BY <3>1
  <2>3. ~(out.ok /\ ~Glues(log))
    BY <1>1, <1>2, <1>3, <1>5, <2>2
  <2> QED
    BY <1>2, <1>3, <2>1, <2>3
<1>6. CASE next.lines = Append(old.lines, line)
  <2>1. /\ line.id \in Ids(next) /\ Latest(next, line.id) = line
        /\ \A id : id # line.id => Keeps(old, next, id)
    BY <1>4, <1>6, LatestOfOne
  <2>2. ~out.ok /\ ~fsync => \A id : Keeps(old, next, id)
    BY <1>1, <1>2, <1>3, SameLines
  <2> QED
    BY <1>2, <1>3, <2>1, <2>2
<1> QED
  BY <1>1, <1>2, <1>3, <1>5, <1>6

\* An order of some of a set's lines is a sequence of them.
LEMMA OrderType ==
  ASSUME NEW lines, IsFiniteSet(lines), NEW order \in Orders(lines)
  PROVE  order \in Seq(lines)
<1>1. Cardinality(lines) \in Nat
  BY FS_CardinalityType
<1>2. PICK n \in 0..Cardinality(lines) : order \in [1..n -> lines]
  BY DEF Orders
<1>3. n \in Nat
  BY <1>1
<1> QED
  BY <1>2, <1>3

\* A process that dies in its appends leaves some of their lines behind.
LEMMA InterruptedGrows ==
  ASSUME NEW X, NEW log \in [lines : Seq(X), torn : BOOLEAN], NEW lines \in SUBSET X,
         IsFiniteSet(lines), NEW next \in Interrupted(log, lines)
  PROVE  /\ next \in [lines : Seq(X), torn : BOOLEAN]
         /\ \E more \in Seq(lines) : Grown(log, next, more)
<1>1. PICK order \in Orders(lines) : next \in {Behind(log, order), Torn(Behind(log, order))}
  BY DEF Interrupted
<1>2. order \in Seq(lines)
  BY OrderType
<1>3. PICK more \in Seq(lines) :
        /\ Behind(log, order).lines = log.lines \o more
        /\ Behind(log, order) \in [lines : Seq(X), torn : BOOLEAN]
  <2>1. CASE order = << >>
    <3>1. Behind(log, order) = log
      BY <2>1 DEF Behind
    <3>2. << >> \in Seq(lines) /\ log.lines \o << >> = log.lines
      BY ConcatEmptySeq, EmptySeq
    <3> QED
      BY <3>1, <3>2
  <2>2. CASE order # << >>
    <3> DEFINE more == IF Glues(log) THEN Tail(order) ELSE order
    <3>1. more \in Seq(lines)
      BY <1>2, <2>2, HeadTailProperties
    <3>2. Behind(log, order) = [lines |-> log.lines \o more, torn |-> FALSE]
      BY <2>2 DEF Behind
    <3>3. more \in Seq(X)
      BY <3>1, SeqMonotonic
    <3>4. log.lines \o more \in Seq(X)
      BY <3>3, ConcatProperties
    <3> HIDE DEF more
    <3> QED
      BY <3>1, <3>2, <3>4
  <2> QED
    BY <2>1, <2>2
<1>4. /\ next.lines = log.lines \o more
      /\ next \in [lines : Seq(X), torn : BOOLEAN]
  BY <1>1, <1>3 DEF Torn
<1> QED
  BY <1>4 DEF Grown

\* A process that dies in its appends leaves each id as it was, or one of the
\* lines it was appending as its newest.
LEMMA InterruptedOutcome ==
  ASSUME NEW X, NEW log \in [lines : Seq(X), torn : BOOLEAN], NEW lines \in SUBSET X,
         IsFiniteSet(lines), NEW next \in Interrupted(log, lines)
  PROVE  /\ next \in [lines : Seq(X), torn : BOOLEAN]
         /\ \A id : \/ Keeps(log, next, id)
                    \/ id \in Ids(next)
                       /\ Latest(next, id) \in {line \in lines : line.id = id}
<1>1. PICK more \in Seq(lines) : Grown(log, next, more)
  BY InterruptedGrows
<1>2. next \in [lines : Seq(X), torn : BOOLEAN]
  BY InterruptedGrows
<1>3. Grown(log, next, more) /\ more \in Seq(X)
  BY <1>1, SeqMonotonic
<1>4. Range(more) \subseteq lines
  BY ElementOfSeq, LenProperties DEF Range
<1>5. PICK old : old = log
  OBVIOUS
<1>6. old.lines \in Seq(X) /\ Grown(old, next, more)
  BY <1>3, <1>5
<1>7. ASSUME NEW id
      PROVE  \/ Keeps(old, next, id)
             \/ id \in Ids(next) /\ Latest(next, id) \in {line \in lines : line.id = id}
  <2>1. CASE \A i \in DOMAIN more : more[i].id # id
    BY <1>3, <1>6, <2>1, LatestOfOthers
  <2>2. CASE \E i \in DOMAIN more : more[i].id = id
    <3>1. id \in Ids(next)
      BY ZenonT(60), <1>3, <1>6, <2>2, LatestOfAppended
    <3>2. Latest(next, id) \in {line \in Range(more) : line.id = id}
      BY <1>3, <1>6, <2>2, LatestOfAppended
    <3> QED
      BY <1>4, <3>1, <3>2
  <2> QED
    BY <2>1, <2>2
<1> QED
  BY <1>2, <1>5, <1>7

\* The lines it leaves were there, or were on their way.
LEMMA InterruptedLines ==
  ASSUME NEW X, NEW log \in [lines : Seq(X), torn : BOOLEAN], NEW lines \in SUBSET X,
         IsFiniteSet(lines), NEW next \in Interrupted(log, lines), NEW i \in DOMAIN next.lines
  PROVE  next.lines[i] \in lines \/ \E j \in DOMAIN log.lines : next.lines[i] = log.lines[j]
<1>1. PICK more \in Seq(lines) : Grown(log, next, more)
  BY InterruptedGrows
<1>2. PICK old : old = log.lines
  OBVIOUS
<1>3. old \in Seq(X) /\ more \in Seq(X) /\ next.lines = old \o more
  BY <1>1, <1>2, SeqMonotonic DEF Grown
<1>4. /\ Len(old) \in Nat /\ Len(more) \in Nat /\ DOMAIN old = 1..Len(old)
      /\ DOMAIN more = 1..Len(more) /\ DOMAIN next.lines = 1..(Len(old) + Len(more))
  BY <1>3, ConcatProperties, LenProperties
<1>5. CASE i \in 1..Len(old)
  <2>1. next.lines[i] = old[i]
    BY <1>3, <1>5, ConcatProperties
  <2> QED
    BY <1>2, <1>4, <1>5, <2>1
<1>6. CASE i \notin 1..Len(old)
  <2>1. i \in (Len(old) + 1)..(Len(old) + Len(more)) /\ i - Len(old) \in DOMAIN more
    BY <1>4, <1>6
  <2>2. next.lines[i] = more[i - Len(old)]
    BY <1>3, <1>4, <2>1, ConcatProperties
  <2>3. more[i - Len(old)] \in lines
    BY <1>4, <2>1, ElementOfSeq
  <2> QED
    BY <2>2, <2>3
<1> QED
  BY <1>5, <1>6

\* The lines on their way when a process dies are finitely many.
LEMMA LinesOnTheirWay ==
  ASSUME NEW appends, IsFiniteSet(appends)
  PROVE  IsFiniteSet({a.line : a \in appends})
<1> DEFINE lines == {a.line : a \in appends}
           f == [a \in appends |-> a.line]
<1>1. f \in [appends -> lines] /\ \A t \in lines : \E a \in appends : f[a] = t
  OBVIOUS
<1>2. f \in Surjection(appends, lines)
  BY <1>1, Fun_IsSurj
<1> QED
  BY <1>2, FS_Surjection

\* The ids of a file are those of the lines it may have.
LEMMA IdsType ==
  ASSUME NEW ids, NEW values, NEW log, log.lines \in Seq(values),
         \A v \in values : v.id \in ids
  PROVE  Ids(log) \subseteq ids
<1>1. \A i \in DOMAIN log.lines : log.lines[i] \in values
  BY LenProperties, ElementOfSeq
<1> QED
  BY <1>1 DEF Ids
====
