---- MODULE Host_proofs ----
(***************************************************************************)
(* Proofs about three of the host's parts, and about what of a session a   *)
(* browser shows. Records, for any requisitions, reviews and sessions, any *)
(* number of edits and any number of crashes: its types, that a decision   *)
(* stands, and that a final review stays final. pids.ndjson (ProcessReap), *)
(* for any hosts, pids and images, any number of births, reboots and lives *)
(* of the server: its types, that boot spares strangers, and that it       *)
(* leaves no orphan. The session manager's envelopes (HostEvents, as       *)
(* MCHost instantiates it), for any checklist, budget, log and refusals:   *)
(* that an item's completion is logged once, that a notice follows the     *)
(* crossing of its line, and that the idle time billed is the time between *)
(* turns. And the transcript (LiveView), for any session, lost line,       *)
(* budget of a socket, and number of lost connections and reselections:    *)
(* its types, and that what is on screen is history.                       *)
(***************************************************************************)
EXTENDS MCHost, LiveView, AppendLog_proofs

---------------------------------------------------------------------------
(* The types. *)

\* A function from some of a set.
LEMMA SomeType ==
  ASSUME NEW ids, NEW values, NEW f, f \in Some(ids, values)
  PROVE  DOMAIN f \subseteq ids /\ \A k \in DOMAIN f : f[k] \in values
BY DEF Some

\* It gains an entry, or one is replaced.
LEMMA SomeWith ==
  ASSUME NEW ids, NEW values, NEW f, NEW k, NEW v,
         f \in Some(ids, values), k \in ids, v \in values
  PROVE  With(f, k, v) \in Some(ids, values)
<1>1. PICK some \in SUBSET ids : f \in [some -> values]
  BY DEF Some
<1>2. With(f, k, v) \in [some \cup {k} -> values]
  BY <1>1 DEF With
<1> QED
  BY <1>2 DEF Some

\* It loses one.
LEMMA SomeWithout ==
  ASSUME NEW ids, NEW values, NEW f, NEW k, f \in Some(ids, values)
  PROVE  Without(f, k) \in Some(ids, values) /\ DOMAIN Without(f, k) = DOMAIN f \ {k}
<1>1. PICK some \in SUBSET ids : f \in [some -> values]
  BY DEF Some
<1>2. Without(f, k) \in [some \ {k} -> values]
  BY <1>1 DEF Without
<1> QED
  BY <1>2 DEF Some, Without

\* It has no entry.
LEMMA SomeEmpty ==
  ASSUME NEW ids, NEW values
  PROVE  << >> \in Some(ids, values) /\ DOMAIN << >> = {}
<1>1. << >> = [x \in {} |-> x]
  OBVIOUS
<1>2. << >> \in [{} -> values]
  BY <1>1
<1> QED
  BY <1>1, <1>2 DEF Some

\* What boot reads back: the newest line of each id.
LEMMA Folded ==
  ASSUME NEW ids, NEW values, NEW file, file.lines \in Seq(values), Ids(file) \subseteq ids
  PROVE  /\ [r \in Ids(file) |-> Latest(file, r)] \in Some(ids, values)
         /\ \A r \in Ids(file) : Latest(file, r) \in values /\ Latest(file, r).id = r
<1>1. \A r \in Ids(file) : Latest(file, r) \in values /\ Latest(file, r).id = r
  BY LatestIsLine
<1>2. [r \in Ids(file) |-> Latest(file, r)] \in [Ids(file) -> values]
  BY <1>1
<1> QED
  BY <1>1, <1>2 DEF Some

---------------------------------------------------------------------------
(* Requisitions. *)

\* Each requisition has at most one line on its way, which its operation holds
\* by the registry and by the lock it took.
OneAppend ==
  /\ IsFiniteSet(reqAppends)
  /\ \A a \in reqAppends :
       /\ \A b \in reqAppends : a.line.id = b.line.id => a = b
       /\ \/ /\ a.op = "raise" /\ a.line.state = "open"
             /\ a.line.id \notin DOMAIN reqs
          \/ /\ a.op = "decide" /\ a.line.state \in Verdicts
             /\ a.line.id \in DOMAIN deciding
             /\ a.line.id \in DOMAIN reqs /\ reqs[a.line.id].state = "open"
          \/ /\ a.op = "attach" /\ a.line.state = "consumed"
             /\ a.line.id \in reserved

\* A claim is held on an approved requisition.
Claimed == \A r \in reserved : r \in DOMAIN reqs /\ reqs[r].state = "approved"

\* What may be in the file behind an acknowledged decision.
Follows(state, decided) ==
  state \in {decided} \cup (IF decided = "approved" THEN {"consumed"} ELSE {})

\* The registry is the file's newest lines, and they are behind the decision.
WrittenDown ==
  \A r \in Reqs \ reqGlued :
    /\ up => /\ r \in DOMAIN reqs <=> r \in Ids(reqLog)
             /\ r \in DOMAIN reqs => reqs[r] = Latest(reqLog, r)
    /\ verdict[r] # "none" =>
         r \in Ids(reqLog) /\ Follows(Latest(reqLog, r).state, verdict[r])

Forgotten == ~up => reqs = << >> /\ deciding = << >> /\ reserved = {} /\ reqAppends = {}
Keyed == \A r \in DOMAIN reqs : reqs[r].id = r

ReqInv == ReqTypeOK /\ OneAppend /\ Claimed /\ WrittenDown /\ Forgotten /\ Keyed

\* The invariant says what is promised.
LEMMA ReqInvImplies == ReqInv => DecidedOnce
<1> SUFFICES ASSUME ReqInv, NEW r \in DOMAIN reqs \ reqGlued
      PROVE  /\ verdict[r] # "none" =>
                  reqs[r].state \in {verdict[r]} \cup
                    (IF verdict[r] = "approved" THEN {"consumed"} ELSE {})
             /\ (\A a \in reqAppends : a.line.id # r) =>
                  /\ r \in Ids(reqLog) /\ reqs[r] = Latest(reqLog, r)
                  /\ r \in reserved => reqs[r].state = "approved"
  BY DEF DecidedOnce
<1>1. r \in Reqs
  BY SomeType DEF ReqInv, ReqTypeOK
<1>2. up
  BY SomeEmpty DEF ReqInv, Forgotten, ReqTypeOK
<1> QED
  BY <1>1, <1>2 DEF ReqInv, WrittenDown, Claimed, Follows

\* raise, decide, and what a creation does: the file is left alone.
LEMMA RequisitionCalls ==
  ASSUME ReqInv, up, UNCHANGED up,
         \E r \in Reqs : \/ Raise(r) \/ \E v \in Verdicts : Decide(r, v)
                         \/ Claims(r) \/ GivesBack(r) \/ \E s \in Sessions : Consumes(r, s)
  PROVE  ReqInv'
<1>1. PICK r \in Reqs : \/ Raise(r) \/ \E v \in Verdicts : Decide(r, v)
                        \/ Claims(r) \/ GivesBack(r) \/ \E s \in Sessions : Consumes(r, s)
  OBVIOUS
<1>2. /\ ReqTypeOK /\ OneAppend /\ Claimed /\ WrittenDown /\ Forgotten /\ Keyed
      /\ DOMAIN reqs \subseteq Reqs /\ \A x \in DOMAIN reqs : reqs[x] \in ReqLines
  BY SomeType DEF ReqInv, ReqTypeOK
<1>3. UNCHANGED <<reqLog, reqs, verdict, reqGlued, up>>
  BY <1>1 DEF Raise, Decide, Claims, ClaimReq, GivesBack, ReleaseReq, Consumes, AttachSession
<1>4. WrittenDown' /\ Forgotten' /\ Keyed'
  BY <1>2, <1>3 DEF WrittenDown, Forgotten, Keyed
<1>5. CASE Raise(r)
  <2> DEFINE new == [op |-> "raise", line |-> Requisition(r, "open", NoSession)]
  <2>1. /\ UNCHANGED <<deciding, reserved>> /\ reqAppends' = reqAppends \cup {new}
        /\ r \notin DOMAIN reqs /\ \A a \in reqAppends : a.line.id # r
    BY <1>5 DEF Raise, Known
  <2>2. /\ new \in [op : {"raise", "decide", "attach"}, line : ReqLines]
        /\ new.op = "raise" /\ new.line.id = r /\ new.line.state = "open"
    BY DEF Requisition, ReqLines
  <2> HIDE DEF new
  <2>3. ReqTypeOK'
    BY <1>2, <1>3, <2>1, <2>2 DEF ReqTypeOK
  <2>4. OneAppend'
    BY <1>2, <1>3, <2>1, <2>2, FS_AddElement DEF OneAppend
  <2>5. Claimed'
    BY <1>2, <1>3, <2>1 DEF Claimed
  <2> QED
    BY <1>4, <2>3, <2>4, <2>5 DEF ReqInv
<1>6. CASE \E v \in Verdicts : Decide(r, v)
  <2>1. PICK v \in Verdicts : Decide(r, v)
    BY <1>6
  <2> DEFINE new == [op |-> "decide", line |-> [reqs[r] EXCEPT !.state = v]]
  <2>2. /\ UNCHANGED reserved /\ deciding' = With(deciding, r, v)
        /\ reqAppends' = reqAppends \cup {new}
        /\ r \in DOMAIN reqs /\ reqs[r].state = "open" /\ r \notin DOMAIN deciding
    BY <2>1 DEF Decide, Known, Decidable
  <2>3. /\ new \in [op : {"raise", "decide", "attach"}, line : ReqLines]
        /\ new.op = "decide" /\ new.line.id = r /\ new.line.state \in Verdicts
    <3>1. reqs[r] \in ReqLines /\ reqs[r].id = r
      BY <1>2, <2>2 DEF Keyed
    <3> QED
      BY <3>1 DEF ReqLines
  <2>4. deciding' \in Some(Reqs, Verdicts) /\ DOMAIN deciding' = DOMAIN deciding \cup {r}
    <3>1. deciding \in Some(Reqs, Verdicts) /\ r \in Reqs /\ v \in Verdicts
      BY <1>2 DEF ReqTypeOK
    <3>2. With(deciding, r, v) \in Some(Reqs, Verdicts)
      BY <3>1, SomeWith
    <3> QED
      BY <2>2, <3>2 DEF With
  <2> HIDE DEF new
  <2>5. ReqTypeOK'
    BY <1>2, <1>3, <2>2, <2>3, <2>4 DEF ReqTypeOK
  <2>6. \A a \in reqAppends : a.line.id # r
    BY <1>2, <2>2 DEF OneAppend, Claimed
  <2>7. OneAppend'
    BY <1>2, <1>3, <2>2, <2>3, <2>4, <2>6, FS_AddElement DEF OneAppend
  <2>8. Claimed'
    BY <1>2, <1>3, <2>2 DEF Claimed
  <2> QED
    BY <1>4, <2>5, <2>7, <2>8 DEF ReqInv
<1>7. CASE Claims(r) \/ GivesBack(r)
  <2>1. /\ UNCHANGED <<deciding, reqAppends>>
        /\ \/ reserved' = reserved \cup {r} /\ r \in DOMAIN reqs /\ reqs[r].state = "approved"
           \/ reserved' = reserved \ {r} /\ \A a \in reqAppends : a.line.id # r
    BY <1>7 DEF Claims, Claimable, Known, ClaimReq, GivesBack, Holds, ReleaseReq
  <2>2. ReqTypeOK'
    BY <1>2, <1>3, <2>1 DEF ReqTypeOK
  <2>3. OneAppend'
    BY <1>2, <1>3, <2>1 DEF OneAppend
  <2>4. Claimed'
    BY <1>2, <1>3, <2>1 DEF Claimed
  <2> QED
    BY <1>4, <2>2, <2>3, <2>4 DEF ReqInv
<1>8. CASE \E s \in Sessions : Consumes(r, s)
  <2>1. PICK s \in Sessions : Consumes(r, s)
    BY <1>8
  <2> DEFINE new == [op |-> "attach",
                     line |-> [reqs[r] EXCEPT !.state = "consumed", !.session = s]]
  <2>2. /\ UNCHANGED <<deciding, reserved>> /\ reqAppends' = reqAppends \cup {new}
        /\ r \in reserved /\ \A a \in reqAppends : a.line.id # r
    BY <2>1 DEF Consumes, Holds, AttachSession
  <2>3. /\ new \in [op : {"raise", "decide", "attach"}, line : ReqLines]
        /\ new.op = "attach" /\ new.line.id = r /\ new.line.state = "consumed"
    <3>1. reqs[r] \in ReqLines /\ reqs[r].id = r
      BY <1>2, <2>2 DEF Keyed, Claimed
    <3> QED
      BY <3>1 DEF ReqLines
  <2> HIDE DEF new
  <2>4. ReqTypeOK'
    BY <1>2, <1>3, <2>2, <2>3 DEF ReqTypeOK
  <2>5. OneAppend'
    BY <1>2, <1>3, <2>2, <2>3, FS_AddElement DEF OneAppend
  <2>6. Claimed'
    BY <1>2, <1>3, <2>2 DEF Claimed
  <2> QED
    BY <1>4, <2>4, <2>5, <2>6 DEF ReqInv
<1> QED
  BY <1>1, <1>5, <1>6, <1>7, <1>8

\* An append returns: an acknowledged line is the newest of its requisition, in
\* the file and in the registry, or the requisition lost it to a fragment.
LEMMA RequisitionReturns ==
  ASSUME ReqInv, up, UNCHANGED up, NEW a \in reqAppends,
         NEW out \in Appends(reqLog, a.line, FALSE), ReqReturns(a, out)
  PROVE  ReqInv'
<1> DEFINE r == a.line.id
<1>1. /\ ReqTypeOK /\ OneAppend /\ Claimed /\ WrittenDown /\ Keyed
      /\ DOMAIN reqs \subseteq Reqs /\ \A x \in DOMAIN reqs : reqs[x] \in ReqLines
      /\ a.line \in ReqLines /\ r \in Reqs /\ a.op \in {"raise", "decide", "attach"}
  <2>1. ReqTypeOK /\ OneAppend /\ Claimed /\ WrittenDown /\ Keyed
    BY DEF ReqInv
  <2>2. DOMAIN reqs \subseteq Reqs /\ \A x \in DOMAIN reqs : reqs[x] \in ReqLines
    BY <2>1, SomeType DEF ReqTypeOK
  <2>3. a.line \in ReqLines /\ a.op \in {"raise", "decide", "attach"}
    BY <2>1 DEF ReqTypeOK
  <2>4. r \in Reqs
    BY <2>3 DEF ReqLines
  <2> QED
    BY <2>1, <2>2, <2>3, <2>4
<1>2. /\ reqLog' \in [lines : Seq(ReqLines), torn : BOOLEAN] /\ out.ok \in BOOLEAN
      /\ \A id : id # r => Keeps(reqLog, reqLog', id)
      /\ out.ok /\ ~Glues(reqLog) => r \in Ids(reqLog') /\ Latest(reqLog', r) = a.line
      /\ ~out.ok => Keeps(reqLog, reqLog', r)
  <2>1. reqLog \in [lines : Seq(ReqLines), torn : BOOLEAN] /\ a.line \in ReqLines
        /\ reqLog' = out.log
    BY <1>1 DEF ReqTypeOK, ReqReturns
  <2>2. out.log \in [lines : Seq(ReqLines), torn : BOOLEAN] /\ out.ok \in BOOLEAN
    BY <2>1, AppendOutcome
  <2>3. PICK line, fsync : line = a.line /\ fsync = FALSE
    OBVIOUS
  <2>4. out \in Appends(reqLog, line, fsync) /\ line \in ReqLines /\ fsync \in BOOLEAN
    BY <2>1, <2>3
  <2>5. \A id : id # line.id => Keeps(reqLog, out.log, id)
    BY <2>1, <2>4, AppendSettles
  <2>6. out.ok /\ ~Glues(reqLog) =>
          line.id \in Ids(out.log) /\ Latest(out.log, line.id) = line
    BY <2>1, <2>4, AppendSettles
  <2>7. ~out.ok => Keeps(reqLog, out.log, line.id)
    <3>1. ~fsync
      BY <2>3
    <3> QED
      BY <2>1, <2>4, <3>1, AppendSettles
  <2> QED
    BY <2>1, <2>2, <2>3, <2>5, <2>6, <2>7
<1>3. /\ reqs' \in Some(Reqs, ReqLines)
      /\ \A x \in Reqs \ {r} : /\ x \in DOMAIN reqs' <=> x \in DOMAIN reqs
                               /\ x \in DOMAIN reqs => reqs'[x] = reqs[x]
      /\ out.ok => r \in DOMAIN reqs' /\ reqs'[r] = a.line
      /\ ~out.ok => reqs' = reqs
  <2>1. CASE out.ok
    <3>1. reqs' = With(reqs, r, a.line)
      BY <2>1 DEF ReqReturns, Recorded
    <3>2. reqs \in Some(Reqs, ReqLines)
      BY <1>1 DEF ReqTypeOK
    <3>3. PICK k, v : k = r /\ v = a.line
      OBVIOUS
    <3>4. reqs' = With(reqs, k, v) /\ k \in Reqs /\ v \in ReqLines
      BY <1>1, <3>1, <3>3
    <3>5. With(reqs, k, v) \in Some(Reqs, ReqLines)
      BY <3>2, <3>4, SomeWith
    <3>6. DOMAIN reqs' = DOMAIN reqs \cup {k}
      BY <3>4 DEF With
    <3>7. reqs'[k] = v /\ \A x \in DOMAIN reqs : x # k => reqs'[x] = reqs[x]
      BY <3>4 DEF With
    <3> QED
      BY <2>1, <3>3, <3>4, <3>5, <3>6, <3>7
  <2>2. CASE ~out.ok
    <3>1. reqs' = reqs
      BY <2>2 DEF ReqReturns, Recorded
    <3> QED
      BY <1>1, <2>2, <3>1 DEF ReqTypeOK
  <2> QED
    BY <1>2, <2>1, <2>2
<1>4. /\ reqAppends' = reqAppends \ {a}
      /\ reserved' = IF a.op = "attach" /\ out.ok THEN reserved \ {r} ELSE reserved
      /\ verdict' = IF a.op = "decide" /\ out.ok
                    THEN [verdict EXCEPT ![r] = a.line.state] ELSE verdict
      /\ reqGlued' = IF out.ok /\ Glues(reqLog) THEN reqGlued \cup {r} ELSE reqGlued
  BY DEF ReqReturns
<1>5. /\ deciding' \in Some(Reqs, Verdicts)
      /\ \A x \in DOMAIN deciding : x # r => x \in DOMAIN deciding'
  <2>1. deciding \in Some(Reqs, Verdicts)
    BY <1>1 DEF ReqTypeOK
  <2>2. /\ Without(deciding, r) \in Some(Reqs, Verdicts)
        /\ DOMAIN Without(deciding, r) = DOMAIN deciding \ {r}
    BY <2>1, SomeWithout
  <2>3. deciding' \in {Without(deciding, r), deciding}
    BY DEF ReqReturns
  <2> QED
    BY <2>1, <2>2, <2>3
<1>6. \A b \in reqAppends' : b \in reqAppends /\ b.line.id # r /\ b.line.id \in Reqs
  BY <1>1, <1>4 DEF OneAppend, ReqTypeOK, ReqLines
<1>7. a.op = "decide" => a.line.state \in Verdicts
  BY <1>1 DEF OneAppend
<1> HIDE DEF r
<1>8. ReqTypeOK'
  BY <1>1, <1>2, <1>3, <1>4, <1>5, <1>7 DEF ReqTypeOK
<1>9. OneAppend'
  <2>1. IsFiniteSet(reqAppends')
    BY <1>1, <1>4, FS_RemoveElement DEF OneAppend
  <2>2. ASSUME NEW b \in reqAppends'
        PROVE  /\ \A c \in reqAppends' : b.line.id = c.line.id => b = c
               /\ \/ /\ b.op = "raise" /\ b.line.state = "open"
                     /\ b.line.id \notin DOMAIN reqs'
                  \/ /\ b.op = "decide" /\ b.line.state \in Verdicts
                     /\ b.line.id \in DOMAIN deciding'
                     /\ b.line.id \in DOMAIN reqs' /\ reqs'[b.line.id].state = "open"
                  \/ /\ b.op = "attach" /\ b.line.state = "consumed"
                     /\ b.line.id \in reserved'
    BY <1>1, <1>3, <1>4, <1>5, <1>6 DEF OneAppend
  <2> QED
    BY <2>1, <2>2 DEF OneAppend
<1>10. Claimed'
  <2>1. ASSUME NEW x \in reserved', x # r
        PROVE  x \in DOMAIN reqs' /\ reqs'[x].state = "approved"
    BY <1>1, <1>3, <1>4, <2>1 DEF Claimed
  <2>2. ASSUME r \in reserved' PROVE r \in DOMAIN reqs' /\ reqs'[r].state = "approved"
    BY <1>1, <1>3, <1>4, <2>2 DEF Claimed, OneAppend, r
  <2> QED
    BY <2>1, <2>2 DEF Claimed
<1>11. WrittenDown'
  <2>1. ASSUME NEW x \in Reqs \ reqGlued', x # r
        PROVE  /\ x \in DOMAIN reqs' <=> x \in Ids(reqLog')
               /\ x \in DOMAIN reqs' => reqs'[x] = Latest(reqLog', x)
               /\ verdict'[x] # "none" =>
                    x \in Ids(reqLog') /\ Follows(Latest(reqLog', x).state, verdict'[x])
    <3>1. Keeps(reqLog, reqLog', x) /\ x \in Reqs \ reqGlued /\ verdict'[x] = verdict[x]
      BY <1>1, <1>2, <1>4, <2>1 DEF ReqTypeOK
    <3> QED
      BY <1>1, <1>3, <2>1, <3>1 DEF WrittenDown, Keeps
  <2>2. ASSUME r \in Reqs \ reqGlued'
        PROVE  /\ r \in DOMAIN reqs' <=> r \in Ids(reqLog')
               /\ r \in DOMAIN reqs' => reqs'[r] = Latest(reqLog', r)
               /\ verdict'[r] # "none" =>
                    r \in Ids(reqLog') /\ Follows(Latest(reqLog', r).state, verdict'[r])
    <3>1. CASE ~out.ok
      <4>1. Keeps(reqLog, reqLog', r) /\ r \notin reqGlued /\ verdict' = verdict
        BY <1>2, <1>4, <2>2, <3>1
      <4> QED
        BY <1>1, <1>3, <3>1, <4>1 DEF WrittenDown, Keeps
    <3>2. CASE out.ok
      <4>1. /\ r \in Ids(reqLog') /\ Latest(reqLog', r) = a.line
            /\ r \in DOMAIN reqs' /\ reqs'[r] = a.line /\ r \notin reqGlued
        BY <1>2, <1>3, <1>4, <2>2, <3>2
      <4>2. verdict'[r] # "none" => Follows(a.line.state, verdict'[r])
        <5>1. CASE a.op = "decide"
          <6>1. verdict'[r] = a.line.state
            BY <1>1, <1>4, <3>2, <5>1 DEF ReqTypeOK
          <6> QED
            BY <6>1 DEF Follows
        <5>2. CASE a.op = "attach"
          <6>1. a.line.state = "consumed" /\ reqs[r].state = "approved" /\ r \in DOMAIN reqs
            BY <1>1, <5>2 DEF OneAppend, Claimed, r
          <6>2. verdict' = verdict
            BY <1>4, <5>2
          <6> QED
            BY <1>1, <4>1, <6>1, <6>2 DEF WrittenDown, Follows
        <5>3. CASE a.op = "raise"
          <6>1. r \notin DOMAIN reqs
            BY <1>1, <5>3 DEF OneAppend, r
          <6>2. verdict' = verdict
            BY <1>4, <5>3
          <6> QED
            BY <1>1, <4>1, <6>1, <6>2 DEF WrittenDown
        <5> QED
          BY <1>1, <5>1, <5>2, <5>3
      <4> QED
        BY <4>1, <4>2
    <3> QED
      BY <1>2, <3>1, <3>2
  <2> QED
    BY <2>1, <2>2 DEF WrittenDown
<1>12. Forgotten'
  BY DEF Forgotten
<1>13. Keyed'
  <2>1. \A x \in DOMAIN reqs' : x \in Reqs
    BY <1>3, SomeType
  <2> QED
    BY <1>1, <1>2, <1>3, <2>1 DEF Keyed, r
<1> QED
  BY <1>8, <1>9, <1>10, <1>11, <1>12, <1>13 DEF ReqInv

\* A crash may leave the line of an operation in the file that the registry
\* never showed: it is one that may follow the acknowledged decision.
LEMMA RequisitionCrash ==
  ASSUME ReqInv, up, ~up', ReqCrash
  PROVE  ReqInv'
<1>1. /\ ReqTypeOK /\ OneAppend /\ Claimed /\ WrittenDown
      /\ reqs' = << >> /\ deciding' = << >> /\ reserved' = {} /\ reqAppends' = {}
      /\ UNCHANGED <<verdict, reqGlued>>
  BY DEF ReqInv, ReqCrash
<1>2. PICK lines : lines = {a.line : a \in reqAppends}
  OBVIOUS
<1>3. IsFiniteSet(lines) /\ lines \subseteq ReqLines
  <2>1. IsFiniteSet(reqAppends)
    BY <1>1 DEF OneAppend
  <2>2. IsFiniteSet(lines)
    BY <1>2, <2>1, LinesOnTheirWay
  <2>3. lines \subseteq ReqLines
    BY <1>1, <1>2 DEF ReqTypeOK
  <2> QED
    BY <2>2, <2>3
<1>4. /\ reqLog \in [lines : Seq(ReqLines), torn : BOOLEAN]
      /\ reqLog' \in Interrupted(reqLog, lines)
  BY <1>1, <1>2 DEF ReqTypeOK, ReqCrash
<1>5. reqLog' \in [lines : Seq(ReqLines), torn : BOOLEAN]
  BY <1>3, <1>4, InterruptedOutcome
<1>6. \A id : \/ Keeps(reqLog, reqLog', id)
              \/ id \in Ids(reqLog') /\ Latest(reqLog', id) \in {line \in lines : line.id = id}
  BY <1>3, <1>4, InterruptedOutcome
<1>7. ReqTypeOK'
  BY <1>1, <1>5, SomeEmpty DEF ReqTypeOK
<1>8. OneAppend'
  BY <1>1, FS_EmptySet DEF OneAppend
<1>9. Claimed' /\ Forgotten' /\ Keyed'
  BY <1>1, SomeEmpty DEF Claimed, Forgotten, Keyed
<1>10. WrittenDown'
  <2> SUFFICES ASSUME NEW r \in Reqs \ reqGlued, verdict[r] # "none"
        PROVE  r \in Ids(reqLog') /\ Follows(Latest(reqLog', r).state, verdict[r])
    BY <1>1 DEF WrittenDown
  <2>1. /\ r \in Ids(reqLog) /\ Follows(Latest(reqLog, r).state, verdict[r])
        /\ r \in DOMAIN reqs /\ reqs[r] = Latest(reqLog, r) /\ verdict[r] \in Verdicts
    BY <1>1 DEF WrittenDown, ReqTypeOK
  <2>2. CASE Keeps(reqLog, reqLog', r)
    BY <2>1, <2>2 DEF Keeps
  <2>3. CASE /\ r \in Ids(reqLog')
             /\ Latest(reqLog', r) \in {line \in lines : line.id = r}
    <3>1. PICK a \in reqAppends : Latest(reqLog', r) = a.line /\ a.line.id = r
      BY <1>2, <2>3
    <3>2. a.op # "raise"
      BY <1>1, <2>1, <3>1 DEF OneAppend
    <3>3. a.op # "decide"
      <4>1. reqs[r].state # "open"
        BY <2>1 DEF Follows, Verdicts
      <4> QED
        BY <1>1, <3>1, <4>1 DEF OneAppend
    <3>4. a.line.state = "consumed" /\ r \in reserved
      BY <1>1, <3>1, <3>2, <3>3 DEF OneAppend
    <3>5. reqs[r].state = "approved"
      BY <1>1, <3>4 DEF Claimed
    <3>6. verdict[r] = "approved"
      BY <2>1, <3>5 DEF Follows
    <3> QED
      BY <2>3, <3>1, <3>4, <3>6 DEF Follows
  <2> QED
    BY <1>6, <2>2, <2>3
<1> QED
  BY <1>7, <1>8, <1>9, <1>10 DEF ReqInv

\* Boot reads the newest lines back.
LEMMA RequisitionBoot ==
  ASSUME ReqInv, ~up, up', ReqBoot
  PROVE  ReqInv'
<1>1. /\ ReqTypeOK /\ OneAppend /\ WrittenDown
      /\ reserved = {} /\ reqAppends = {}
      /\ reqs' = [r \in Ids(reqLog) |-> Latest(reqLog, r)]
      /\ UNCHANGED <<reqLog, deciding, reserved, reqAppends, verdict, reqGlued>>
  BY DEF ReqInv, Forgotten, ReqBoot
<1>2. reqLog.lines \in Seq(ReqLines)
  BY <1>1 DEF ReqTypeOK
<1>3. \A v \in ReqLines : v.id \in Reqs
  BY DEF ReqLines
<1>4. Ids(reqLog) \subseteq Reqs
  BY <1>2, <1>3, IdsType
<1>5. reqs' \in Some(Reqs, ReqLines)
  BY <1>1, <1>2, <1>4, Folded
<1>6. \A r \in Ids(reqLog) : Latest(reqLog, r).id = r
  BY <1>2, <1>4, Folded
<1>7. ReqTypeOK'
  BY <1>1, <1>5 DEF ReqTypeOK
<1>8. OneAppend' /\ Claimed' /\ Forgotten' /\ Keyed'
  BY <1>1, <1>6 DEF OneAppend, Claimed, Forgotten, Keyed
<1>9. WrittenDown'
  BY <1>1 DEF WrittenDown
<1> QED
  BY <1>7, <1>8, <1>9 DEF ReqInv

\* A step of the reviews leaves the requisitions alone.
LEMMA RequisitionsStutter ==
  ASSUME ReqInv, UNCHANGED <<reqVars, up>>
  PROVE  ReqInv'
BY DEF ReqInv, ReqTypeOK, OneAppend, Claimed, WrittenDown, Forgotten, Keyed, reqVars

---------------------------------------------------------------------------
(* Reviews. *)

\* Each review has at most one line on its way, of a revision of a draft.
Editing ==
  /\ IsFiniteSet(revAppends)
  /\ \A a \in revAppends :
       /\ \A b \in revAppends : a.id = b.id => a = b
       /\ up
       /\ a.id \in DOMAIN revs => revs[a.id].state = "draft"

\* The registry of a review its author was told is final is its newest line,
\* the one that was acknowledged.
Finals ==
  \A r \in Revs \ revGlued : finalised[r] # 0 =>
    /\ r \in Ids(revLog)
    /\ Latest(revLog, r).state = "final" /\ Latest(revLog, r).revision = finalised[r]
    /\ up => r \in DOMAIN revs /\ revs[r] = Latest(revLog, r)

RevForgotten == ~up => revs = << >>
RevKeyed == \A r \in DOMAIN revs : revs[r].id = r

RevInv == RevTypeOK /\ Editing /\ Finals /\ RevForgotten /\ RevKeyed

\* The invariant says what is promised.
LEMMA RevInvImplies == RevInv => FinalStays
<1> SUFFICES ASSUME RevInv, NEW r \in DOMAIN revs \ revGlued, finalised[r] # 0
      PROVE  revs[r].state = "final" /\ revs[r].revision = finalised[r]
  BY DEF FinalStays
<1>1. r \in Revs
  BY SomeType DEF RevInv, RevTypeOK
<1>2. up
  BY SomeEmpty DEF RevInv, RevForgotten, RevTypeOK
<1> QED
  BY <1>1, <1>2 DEF RevInv, Finals

\* create, append and finalise: the file is left alone.
LEMMA ReviewCalls ==
  ASSUME RevInv, up, UNCHANGED up,
         \E r \in Revs : CreateReview(r) \/ AppendReview(r) \/ FinaliseReview(r)
  PROVE  RevInv'
<1>1. PICK r \in Revs : CreateReview(r) \/ AppendReview(r) \/ FinaliseReview(r)
  OBVIOUS
<1>2. /\ ~Mutating(r)
      /\ r \in DOMAIN revs => revs[r].state = "draft"
      /\ Mutation(r, "draft") \/ Mutation(r, "final")
  BY <1>1 DEF CreateReview, AppendReview, FinaliseReview, Mutable
<1>3. PICK state \in {"draft", "final"} : Mutation(r, state)
  BY <1>2
<1>4. RevTypeOK /\ Editing /\ Finals /\ RevForgotten /\ RevKeyed
  BY DEF RevInv
<1> DEFINE new == Review(r, state, tried'[r])
<1>5. /\ revAppends' = revAppends \cup {new}
      /\ UNCHANGED <<revLog, revs, finalised, revGlued>>
  BY <1>3 DEF Mutation
<1>6. tried' \in [Revs -> Nat]
  BY <1>3, <1>4 DEF Mutation, RevTypeOK
<1>7. new \in RevLines /\ new.id = r
  BY <1>6 DEF Review, RevLines
<1> HIDE DEF new
<1>8. RevTypeOK'
  BY <1>4, <1>5, <1>6, <1>7 DEF RevTypeOK
<1>9. Editing'
  <2>1. IsFiniteSet(revAppends')
    BY <1>4, <1>5, FS_AddElement DEF Editing
  <2>2. \A a \in revAppends : a.id # r
    BY <1>2 DEF Mutating
  <2> QED
    BY <1>2, <1>4, <1>5, <1>7, <2>1, <2>2 DEF Editing
<1>10. Finals' /\ RevForgotten' /\ RevKeyed'
  BY <1>4, <1>5 DEF Finals, RevForgotten, RevKeyed
<1> QED
  BY <1>8, <1>9, <1>10 DEF RevInv

\* An append returns.  A review that was finalised has none.
LEMMA ReviewReturns ==
  ASSUME RevInv, up, UNCHANGED up, NEW line \in revAppends,
         NEW out \in Appends(revLog, line, TRUE), RevReturns(line, out)
  PROVE  RevInv'
<1> DEFINE r == line.id
<1>1. /\ RevTypeOK /\ Editing /\ Finals /\ RevKeyed
      /\ line \in RevLines /\ r \in Revs
  BY DEF RevInv, RevTypeOK, RevLines
<1>2. /\ revLog' = out.log /\ revAppends' = revAppends \ {line} /\ tried' = tried
      /\ finalised' = IF out.ok /\ line.state = "final"
                      THEN [finalised EXCEPT ![r] = line.revision] ELSE finalised
      /\ revGlued' = IF out.ok /\ Glues(revLog) THEN revGlued \cup {r} ELSE revGlued
  BY DEF RevReturns
<1>3. PICK fsync : fsync = TRUE
  OBVIOUS
<1>4. /\ revLog \in [lines : Seq(RevLines), torn : BOOLEAN]
      /\ out \in Appends(revLog, line, fsync) /\ fsync \in BOOLEAN
  BY <1>1, <1>3 DEF RevTypeOK
<1>5. revLog' \in [lines : Seq(RevLines), torn : BOOLEAN] /\ out.ok \in BOOLEAN
  BY <1>1, <1>2, <1>4, AppendOutcome
<1>6. \A id : id # r => Keeps(revLog, revLog', id)
  <2>1. PICK l : l = line
    OBVIOUS
  <2>2. \A id : id # l.id => Keeps(revLog, out.log, id)
    BY <1>1, <1>4, <2>1, AppendSettles
  <2> QED
    BY <1>2, <2>1, <2>2
<1>7. out.ok /\ ~Glues(revLog) => r \in Ids(revLog') /\ Latest(revLog', r) = line
  <2>1. out.ok /\ ~Glues(revLog) => line.id \in Ids(out.log) /\ Latest(out.log, line.id) = line
    BY <1>1, <1>4, AppendSettles
  <2> QED
    BY <1>2, <2>1
<1>8. /\ revs' \in Some(Revs, RevLines)
      /\ \A x \in DOMAIN revs : x # r => x \in DOMAIN revs' /\ revs'[x] = revs[x]
      /\ \A x \in DOMAIN revs' : x # r => x \in DOMAIN revs
      /\ out.ok => r \in DOMAIN revs' /\ revs'[r] = line
      /\ ~out.ok => revs' = revs
  <2>1. CASE out.ok
    <3>1. PICK k, v : k = r /\ v = line
      OBVIOUS
    <3>2. revs' = With(revs, k, v) /\ k \in Revs /\ v \in RevLines
      BY <1>1, <2>1, <3>1 DEF RevReturns, With
    <3>3. revs \in Some(Revs, RevLines)
      BY <1>1 DEF RevTypeOK
    <3>4. With(revs, k, v) \in Some(Revs, RevLines)
      BY <3>2, <3>3, SomeWith
    <3>5. DOMAIN revs' = DOMAIN revs \cup {k}
      BY <3>2 DEF With
    <3>6. revs'[k] = v /\ \A x \in DOMAIN revs : x # k => revs'[x] = revs[x]
      BY <3>2 DEF With
    <3> QED
      BY <2>1, <3>1, <3>2, <3>4, <3>5, <3>6
  <2>2. CASE ~out.ok
    BY <1>1, <2>2 DEF RevReturns, RevTypeOK
  <2> QED
    BY <1>5, <2>1, <2>2
<1>9. \A b \in revAppends' : b \in revAppends /\ b.id # r
  BY <1>1, <1>2 DEF Editing
<1>10. line.state \in {"draft", "final"} /\ line.revision \in Nat /\ line.id = r
  BY <1>1 DEF RevLines
<1> HIDE DEF r
<1>11. RevTypeOK'
  BY <1>1, <1>2, <1>5, <1>8, <1>10 DEF RevTypeOK
<1>12. Editing'
  <2>1. IsFiniteSet(revAppends')
    BY <1>1, <1>2, FS_RemoveElement DEF Editing
  <2> QED
    BY <1>1, <1>8, <1>9, <2>1 DEF Editing
<1>13. Finals'
  <2> SUFFICES ASSUME NEW x \in Revs \ revGlued', finalised'[x] # 0
        PROVE  /\ x \in Ids(revLog') /\ Latest(revLog', x).state = "final"
               /\ Latest(revLog', x).revision = finalised'[x]
               /\ x \in DOMAIN revs' /\ revs'[x] = Latest(revLog', x)
    BY DEF Finals
  <2>1. x \notin revGlued
    BY <1>2
  <2>2. CASE x # r
    <3>1. finalised'[x] = finalised[x] /\ Keeps(revLog, revLog', x)
      BY <1>1, <1>2, <1>6, <2>2 DEF RevTypeOK
    <3> QED
      BY <1>1, <1>8, <2>1, <2>2, <3>1 DEF Finals, Keeps
  <2>3. CASE x = r
    <3>1. finalised[r] = 0
      <4>1. r \in DOMAIN revs => revs[r].state = "draft"
        BY <1>1, <1>10 DEF Editing
      <4> QED
        BY <1>1, <2>1, <2>3, <4>1 DEF Finals
    <3>2. out.ok /\ line.state = "final" /\ finalised'[r] = line.revision
      BY <1>1, <1>2, <2>3, <3>1 DEF RevTypeOK
    <3>3. ~Glues(revLog)
      BY <1>2, <2>3, <3>2
    <3> QED
      BY <1>7, <1>8, <2>3, <3>2, <3>3
  <2> QED
    BY <2>2, <2>3
<1>14. RevForgotten'
  BY DEF RevForgotten
<1>15. RevKeyed'
  BY <1>1, <1>5, <1>8, <1>10 DEF RevKeyed
<1> QED
  BY <1>11, <1>12, <1>13, <1>14, <1>15 DEF RevInv

\* A crash leaves no line behind a final one.
LEMMA ReviewCrash ==
  ASSUME RevInv, up, ~up', RevCrash
  PROVE  RevInv'
<1>1. /\ RevTypeOK /\ Editing /\ Finals
      /\ revs' = << >> /\ revAppends' = {} /\ UNCHANGED <<tried, finalised, revGlued>>
      /\ revLog' \in Interrupted(revLog, revAppends)
  BY DEF RevInv, RevCrash
<1>2. /\ revLog \in [lines : Seq(RevLines), torn : BOOLEAN]
      /\ revAppends \subseteq RevLines /\ IsFiniteSet(revAppends)
  BY <1>1 DEF RevTypeOK, Editing
<1>3. revLog' \in [lines : Seq(RevLines), torn : BOOLEAN]
  BY <1>1, <1>2, InterruptedOutcome
<1>4. \A id : \/ Keeps(revLog, revLog', id)
              \/ id \in Ids(revLog')
                 /\ Latest(revLog', id) \in {line \in revAppends : line.id = id}
  BY <1>1, <1>2, InterruptedOutcome
<1>5. RevTypeOK'
  BY <1>1, <1>3, SomeEmpty DEF RevTypeOK
<1>6. Editing'
  BY <1>1, FS_EmptySet DEF Editing
<1>7. RevForgotten' /\ RevKeyed'
  BY <1>1, SomeEmpty DEF RevForgotten, RevKeyed
<1>8. Finals'
  <2> SUFFICES ASSUME NEW r \in Revs \ revGlued, finalised[r] # 0
        PROVE  /\ r \in Ids(revLog') /\ Latest(revLog', r).state = "final"
               /\ Latest(revLog', r).revision = finalised[r]
    BY <1>1 DEF Finals
  <2>1. /\ r \in Ids(revLog) /\ Latest(revLog, r).state = "final"
        /\ Latest(revLog, r).revision = finalised[r]
        /\ r \in DOMAIN revs /\ revs[r] = Latest(revLog, r)
    BY <1>1 DEF Finals
  <2>2. \A a \in revAppends : a.id # r
    BY <1>1, <2>1 DEF Editing
  <2>3. Keeps(revLog, revLog', r)
    BY <1>4, <2>2
  <2> QED
    BY <2>1, <2>3 DEF Keeps
<1> QED
  BY <1>5, <1>6, <1>7, <1>8 DEF RevInv

\* Boot reads the newest lines back.
LEMMA ReviewBoot ==
  ASSUME RevInv, ~up, up', RevBoot
  PROVE  RevInv'
<1>1. /\ RevTypeOK /\ Editing /\ Finals
      /\ revs' = [r \in Ids(revLog) |-> Latest(revLog, r)]
      /\ UNCHANGED <<revLog, revAppends, tried, finalised, revGlued>>
  BY DEF RevInv, RevBoot
<1>2. revLog.lines \in Seq(RevLines)
  BY <1>1 DEF RevTypeOK
<1>3. \A v \in RevLines : v.id \in Revs
  BY DEF RevLines
<1>4. Ids(revLog) \subseteq Revs
  BY <1>2, <1>3, IdsType
<1>5. revs' \in Some(Revs, RevLines)
  BY <1>1, <1>2, <1>4, Folded
<1>6. \A r \in Ids(revLog) : Latest(revLog, r).id = r
  BY <1>2, <1>4, Folded
<1>7. revAppends = {}
  BY <1>1 DEF Editing
<1>8. RevTypeOK'
  BY <1>1, <1>5 DEF RevTypeOK
<1>9. Editing' /\ RevForgotten' /\ RevKeyed'
  BY <1>1, <1>6, <1>7 DEF Editing, RevForgotten, RevKeyed
<1>10. Finals'
  BY <1>1 DEF Finals
<1> QED
  BY <1>8, <1>9, <1>10 DEF RevInv

\* A step of the requisitions leaves the reviews alone.
LEMMA ReviewsStutter ==
  ASSUME RevInv, UNCHANGED <<revVars, up>>
  PROVE  RevInv'
BY DEF RevInv, RevTypeOK, Editing, Finals, RevForgotten, RevKeyed, revVars

---------------------------------------------------------------------------
(* The registry. *)

Inv == up \in BOOLEAN /\ crashes \in Nat /\ ReqInv /\ RevInv

\* Nothing is written yet.
LEMMA InitInv == ASSUME Init PROVE Inv
<1>1. EmptyLog \in [lines : Seq(ReqLines), torn : BOOLEAN]
      /\ EmptyLog \in [lines : Seq(RevLines), torn : BOOLEAN] /\ Ids(EmptyLog) = {}
  BY EmptySeq DEF EmptyLog, Ids
<1>2. ReqTypeOK
  BY <1>1, SomeEmpty DEF Init, ReqInit, ReqTypeOK
<1>3. RevTypeOK
  BY <1>1, SomeEmpty DEF Init, RevInit, RevTypeOK
<1>4. OneAppend /\ Editing
  BY FS_EmptySet DEF Init, ReqInit, RevInit, OneAppend, Editing
<1>5. Claimed /\ Forgotten /\ RevForgotten /\ Keyed /\ RevKeyed
  BY SomeEmpty DEF Init, ReqInit, RevInit, Claimed, Forgotten, RevForgotten, Keyed, RevKeyed
<1>6. WrittenDown /\ Finals
  BY <1>1, SomeEmpty DEF Init, ReqInit, RevInit, WrittenDown, Finals
<1> QED
  BY <1>2, <1>3, <1>4, <1>5, <1>6 DEF Init, Inv, ReqInv, RevInv

\* Every step keeps the invariant.
LEMMA NextInv == ASSUME Inv, [Next]_vars PROVE Inv'
<1>1. CASE up /\ RequisitionStep /\ UNCHANGED <<revVars, up, crashes>>
  <2>1. UNCHANGED <<revVars, up>> /\ UNCHANGED up /\ crashes' = crashes
    BY <1>1
  <2>2. RevInv'
    BY <2>1, ReviewsStutter DEF Inv
  <2>3. \/ \E r \in Reqs : \/ Raise(r) \/ \E v \in Verdicts : Decide(r, v)
                           \/ Claims(r) \/ GivesBack(r) \/ \E s \in Sessions : Consumes(r, s)
        \/ \E a \in reqAppends : \E out \in Appends(reqLog, a.line, FALSE) : ReqReturns(a, out)
    BY <1>1 DEF RequisitionStep
  <2>4. ReqInv'
    BY <1>1, <2>1, <2>3, RequisitionCalls, RequisitionReturns DEF Inv
  <2> QED
    BY <2>1, <2>2, <2>4 DEF Inv
<1>2. CASE up /\ ReviewStep /\ UNCHANGED <<reqVars, up, crashes>>
  <2>1. UNCHANGED <<reqVars, up>> /\ UNCHANGED up /\ crashes' = crashes
    BY <1>2
  <2>2. ReqInv'
    BY <2>1, RequisitionsStutter DEF Inv
  <2>3. \/ \E r \in Revs : CreateReview(r) \/ AppendReview(r) \/ FinaliseReview(r)
        \/ \E line \in revAppends : \E out \in Appends(revLog, line, TRUE) : RevReturns(line, out)
    BY <1>2 DEF ReviewStep
  <2>4. RevInv'
    <3>1. CASE \E r \in Revs : CreateReview(r) \/ AppendReview(r) \/ FinaliseReview(r)
      BY <1>2, <2>1, <3>1, ReviewCalls DEF Inv
    <3>2. CASE \E line \in revAppends :
                 \E out \in Appends(revLog, line, TRUE) : RevReturns(line, out)
      BY <1>2, <2>1, <3>2, ReviewReturns DEF Inv
    <3> QED
      BY <2>3, <3>1, <3>2
  <2> QED
    BY <2>1, <2>2, <2>4 DEF Inv
<1>3. CASE Crash
  <2>1. ReqInv'
    BY <1>3, RequisitionCrash DEF Inv, Crash
  <2>2. RevInv'
    BY <1>3, ReviewCrash DEF Inv, Crash
  <2> QED
    <3>1. crashes \in Nat /\ crashes' = crashes + 1
      BY <1>3 DEF Inv, Crash
    <3>2. crashes' \in Nat
      BY <3>1
    <3>3. up' = FALSE
      BY <1>3 DEF Crash
    <3> QED
      BY <2>1, <2>2, <3>2, <3>3 DEF Inv
<1>4. CASE Boot
  <2>1. ReqInv'
    BY <1>4, RequisitionBoot DEF Inv, Boot
  <2>2. RevInv'
    BY <1>4, ReviewBoot DEF Inv, Boot
  <2> QED
    BY <1>4, <2>1, <2>2 DEF Inv, Boot
<1>5. CASE UNCHANGED vars
  <2>1. ReqInv' /\ RevInv'
    BY <1>5, RequisitionsStutter, ReviewsStutter DEF Inv, vars
  <2> QED
    BY <1>5, <2>1 DEF Inv, vars
<1> QED
  BY <1>1, <1>2, <1>3, <1>4, <1>5 DEF Next

\* Every behaviour satisfies the invariant.
THEOREM RecordsInvariant == Spec => []Inv
<1>1. Init => Inv
  BY InitInv
<1>2. Inv /\ [Next]_vars => Inv'
  BY NextInv
<1> QED
  BY <1>1, <1>2, PTL DEF Spec

\* The two registries, their files and the appends on their way have the types
\* the code gives them, through any crash (records/index.ts).
THEOREM TypeCorrect == Spec => []TypeOK
<1>1. Inv => TypeOK
  BY DEF Inv, ReqInv, RevInv, TypeOK
<1> QED
  BY <1>1, RecordsInvariant, PTL

\* An acknowledged decision stands: no later decision, failed append, session
\* or restart changes it, and a claim is on an approved requisition
\* (records/index.ts:125-195).
THEOREM DecisionsStand == Spec => []DecidedOnce
<1>1. Inv => DecidedOnce
  BY ReqInvImplies DEF Inv
<1> QED
  BY <1>1, RecordsInvariant, PTL

\* A review its author was told is final stays final, at that revision: no edit
\* races past it and no restart reverts it (records/index.ts:236-281).
THEOREM FinalReviewStays == Spec => []FinalStays
<1>1. Inv => FinalStays
  BY RevInvImplies DEF Inv
<1> QED
  BY <1>1, RecordsInvariant, PTL

---------------------------------------------------------------------------
(* The processes of ProcessReap.                                           *)

\* A birth is one process's, and a child runs the CLI.
Births ==
  /\ \A h \in Hosts, p \in Pids :
       /\ proc[h][p].birth <= births
       /\ proc[h][p].birth = 0 => proc[h][p] = Nobody
       /\ proc[h][p].life # 0 => proc[h][p].image = CLI
       /\ proc[h][p].life <= life
  /\ \A g, h \in Hosts, p, q \in Pids :
       proc[g][p].birth = proc[h][q].birth /\ proc[g][p].birth # 0 => g = h /\ p = q

\* While no pid changed hands unseen: who is waited for, doomed or recorded is a
\* child as long as it lives.
Ours(p) == proc[at][p].birth # 0 => proc[at][p].life # 0
OfChild(b) ==
  /\ b \in 0..births
  /\ \A h \in Hosts, p \in Pids : proc[h][p].birth = b /\ b # 0 => proc[h][p].life # 0
Unraced ==
  ~raced =>
    /\ strangers = {}
    /\ \A c \in reading : Ours(c.pid)
    /\ \A p \in doomed : Ours(p)
    /\ \A i \in DOMAIN ledger.lines : OfChild(ledger.lines[i].osCreatedAt)

\* Which phase has what; a record to reap is its pid's newest line, and the one
\* pid that is doomed has a record of this host.
Phases ==
  /\ phase \in {"down", "reaping"} => reading = {}
  /\ phase # "reaping" => toReap = {} /\ doomed = {}
  /\ \A r \in toReap : r.id \in Ids(ledger) /\ r = Latest(ledger, r.id) /\ ~r.exited
  /\ \A p \in doomed : doomed = {p} /\ \E r \in toReap : r.id = p /\ r.hostname = at

\* A child whose creation time is being read is of this life, and where its
\* record will say.
Readings ==
  \A c \in reading :
    /\ c.birth \in 1..births
    /\ \A h \in Hosts, p \in Pids :
         proc[h][p].birth = c.birth => h = at /\ p = c.pid /\ proc[h][p].life = life

\* A child whose record landed has it as its pid's newest line, or its pid was
\* recorded again.
Counted(h, p) == proc[h][p].birth \in recorded \ writtenOff
Findable(h, p) ==
  /\ p \in Ids(ledger)
  /\ Latest(ledger, p) =
       [id |-> p, exited |-> FALSE, hostname |-> h, boot |-> reboots[h],
        osCreatedAt |-> proc[h][p].birth]
Traced(h, p) == RecordedAgain(p, proc[h][p].birth) \/ Findable(h, p)
Ledgered ==
  /\ recorded \subseteq 1..births
  /\ \A h \in Hosts, p \in Pids : Counted(h, p) => proc[h][p].life # 0 /\ Traced(h, p)

\* Boot has yet to look at the record of an earlier life's child; once it
\* serves there is none.
Orphan(p) == Counted(at, p) /\ proc[at][p].life < life
Reaping ==
  phase = "reaping" =>
    \A p \in Pids :
      Orphan(p) => RecordedAgain(p, proc[at][p].birth) \/ Latest(ledger, p) \in toReap
Reaped ==
  phase = "serving" => \A p \in Pids : Orphan(p) => RecordedAgain(p, proc[at][p].birth)

ReapInv ==
  ReapTypeOK /\ Births /\ Unraced /\ Phases /\ Readings /\ Ledgered /\ Reaping /\ Reaped

\* A pid that is free.
LEMMA NobodyIs ==
  /\ Nobody \in Processes /\ Nobody.birth = 0 /\ Nobody.life = 0
  /\ Births => \A h \in Hosts, p \in Pids : Alive(h, p) <=> proc[h][p].birth # 0
<1>1. Nobody \in Processes /\ Nobody.birth = 0 /\ Nobody.life = 0
  BY ReapAssumption DEF Nobody, Processes
<1> QED
  BY <1>1 DEF Births, Alive

LEMMA ReapInitInv == ReapInit => ReapInv
<1> SUFFICES ASSUME ReapInit PROVE ReapInv
  OBVIOUS
<1>1. \A h \in Hosts, p \in Pids : proc[h][p] = Nobody
  BY DEF ReapInit
<1>2. ledger \in [lines : Seq(ProcessLines), torn : BOOLEAN] /\ ledger.lines = << >>
  BY EmptySeq DEF ReapInit, EmptyLog
<1>3. ReapTypeOK
  <2>1. [h \in Hosts |-> [p \in Pids |-> Nobody]] \in [Hosts -> [Pids -> Processes]]
    BY NobodyIs
  <2>2. [h \in Hosts |-> 1] \in [Hosts -> Nat]
    OBVIOUS
  <2>3. proc \in [Hosts -> [Pids -> Processes]] /\ reboots \in [Hosts -> Nat]
    BY <2>1, <2>2 DEF ReapInit
  <2>4. /\ births = 0 /\ at \in Hosts /\ phase = "serving" /\ life = 1 /\ raced = FALSE
        /\ reading = {} /\ doomed = {} /\ toReap = {}
        /\ recorded = {} /\ writtenOff = {} /\ strangers = {}
    BY DEF ReapInit
  <2>5. births \in Nat /\ life \in Nat \ {0} /\ phase \in {"down", "reaping", "serving", "muted"}
    BY <2>4
  <2>6. reading \subseteq [pid : Pids, birth : Nat]
    BY <2>4
  <2>7. toReap \subseteq ProcessLines /\ doomed \subseteq Pids
    BY <2>4
  <2>8. recorded \subseteq Nat /\ writtenOff \subseteq Nat /\ strangers \subseteq Nat
    BY <2>4
  <2>9. raced \in BOOLEAN
    BY <2>4
  <2> QED
    BY <1>2, <2>3, <2>4, <2>5, <2>6, <2>7, <2>8, <2>9 DEF ReapTypeOK
<1>4. Births
  BY <1>1, <1>3, NobodyIs DEF ReapInit, ReapTypeOK, Births
<1>5. Phases /\ Readings /\ Ledgered /\ Reaping /\ Reaped
  BY <1>3 DEF ReapInit, ReapTypeOK, Phases, Readings, Ledgered, Reaping, Reaped, Counted, Orphan
<1>6. Unraced
  BY <1>2 DEF ReapInit, Unraced
<1> QED
  BY <1>3, <1>4, <1>5, <1>6 DEF ReapInv

---------------------------------------------------------------------------
(* What a step does to the processes, ...                                   *)

\* Some of them end.
LEMMA Fewer ==
  ASSUME ReapInv, UNCHANGED <<births, at, life>>,
         \A h \in Hosts, p \in Pids : proc'[h][p] \in {proc[h][p], Nobody}
  PROVE  /\ Births'
         /\ \A b : OfChild(b) => OfChild(b)'
         /\ \A p \in Pids : Ours(p) => Ours(p)'
         /\ reading' \subseteq reading => Readings'
<1> USE NobodyIs DEF ReapInv
<1>0. \A h \in Hosts, p \in Pids : proc[h][p].birth \in Nat /\ births \in Nat /\ life \in Nat \ {0}
  BY DEF ReapTypeOK, Processes
<1>1. Births'
  BY <1>0 DEF Births
<1>2. \A b : OfChild(b) => OfChild(b)'
  BY DEF OfChild
<1>3. \A p \in Pids : Ours(p) => Ours(p)'
  BY DEF Ours, ReapTypeOK
<1>4. reading' \subseteq reading => Readings'
  BY <1>0 DEF Readings
<1> QED
  BY <1>1, <1>2, <1>3, <1>4

\* One begins.
LEMMA OneMore ==
  ASSUME ReapInv, NEW h \in Hosts, NEW p \in Pids, NEW new \in Processes, Starts(h, p, new),
         new.birth = births + 1, new.life # 0 => new.image = CLI, new.life <= life,
         UNCHANGED <<at, life>>
  PROVE  /\ proc' \in [Hosts -> [Pids -> Processes]] /\ births' = births + 1
         /\ proc'[h][p] = new
         /\ \A g \in Hosts, q \in Pids : g # h \/ q # p => proc'[g][q] = proc[g][q]
         /\ Births'
         /\ \A b : OfChild(b) => OfChild(b)'
<1> USE DEF ReapInv
<1>0. \A g \in Hosts, q \in Pids : proc[g][q].birth \in Nat /\ births \in Nat /\ life \in Nat \ {0}
  BY DEF ReapTypeOK, Processes
<1>1. proc' \in [Hosts -> [Pids -> Processes]] /\ births' = births + 1 /\ proc'[h][p] = new
  BY DEF Starts, ReapTypeOK
<1>2. ASSUME NEW g \in Hosts, NEW q \in Pids, g # h \/ q # p
      PROVE  proc'[g][q] = proc[g][q]
  BY <1>2 DEF Starts, ReapTypeOK
<1>3. Births'
  <2>1. new.birth # 0 /\ new.birth <= births'
    BY <1>0, <1>1
  <2>2. ASSUME NEW g \in Hosts, NEW q \in Pids
        PROVE  /\ proc'[g][q].birth <= births'
               /\ proc'[g][q].birth = 0 => proc'[g][q] = Nobody
               /\ proc'[g][q].life # 0 => proc'[g][q].image = CLI
               /\ proc'[g][q].life <= life'
    BY <1>0, <1>1, <1>2, <2>1 DEF Births
  <2>3. ASSUME NEW g \in Hosts, NEW q \in Pids, NEW i \in Hosts, NEW r \in Pids,
               proc'[g][q].birth = proc'[i][r].birth, proc'[g][q].birth # 0
        PROVE  g = i /\ q = r
    BY <1>0, <1>1, <1>2, <2>1, <2>3 DEF Births
  <2> QED
    BY <2>2, <2>3 DEF Births
<1>4. ASSUME NEW b, OfChild(b) PROVE OfChild(b)'
  <2>1. b \in 0..births
    BY <1>4 DEF OfChild
  <2>2. ASSUME NEW g \in Hosts, NEW q \in Pids, proc'[g][q].birth = b, b # 0
        PROVE  proc'[g][q].life # 0
    <3>1. ~(births + 1 <= births)
      BY <1>0
    <3>2. g # h \/ q # p
      BY <1>1, <2>1, <2>2, <3>1
    <3> QED
      BY <1>2, <1>4, <2>2, <3>2 DEF OfChild
  <2>3. b \in 0..births'
    BY <1>0, <1>1, <2>1
  <2> QED
    BY <2>2, <2>3 DEF OfChild
<1> QED
  BY <1>1, <1>2, <1>3, <1>4

---------------------------------------------------------------------------
(* ... and to the file.                                                     *)

\* What was recorded again stays so; a pid no new line has keeps its newest.
LEMMA GrownLedger ==
  ASSUME ReapTypeOK, NEW more \in Seq(ProcessLines), Grown(ledger, ledger', more)
  PROVE  /\ \A p, b : RecordedAgain(p, b) => RecordedAgain(p, b)'
         /\ \A p : (\A i \in DOMAIN more : more[i].id # p) => Keeps(ledger, ledger', p)
         /\ \A i \in DOMAIN ledger'.lines :
              \/ i \in DOMAIN ledger.lines /\ ledger'.lines[i] = ledger.lines[i]
              \/ \E j \in DOMAIN more : ledger'.lines[i] = more[j]
<1>1. ledger.lines \in Seq(ProcessLines) /\ ledger'.lines = ledger.lines \o more
  BY DEF ReapTypeOK, Grown
<1>2. /\ Len(ledger'.lines) = Len(ledger.lines) + Len(more)
      /\ \A i \in 1..Len(ledger.lines) : ledger'.lines[i] = ledger.lines[i]
      /\ DOMAIN ledger.lines = 1..Len(ledger.lines) /\ DOMAIN ledger'.lines = 1..Len(ledger'.lines)
      /\ DOMAIN more = 1..Len(more) /\ Len(ledger.lines) \in Nat /\ Len(more) \in Nat
  BY <1>1
<1>3. ASSUME NEW p, NEW b, RecordedAgain(p, b) PROVE RecordedAgain(p, b)'
  <2>1. PICK i \in DOMAIN ledger.lines : \E j \in 1..(i - 1) :
          /\ ledger.lines[i].id = p /\ ~ledger.lines[i].exited
          /\ ledger.lines[j].id = p /\ ledger.lines[j].osCreatedAt = b
    BY <1>3 DEF RecordedAgain
  <2>4. PICK j \in 1..(i - 1) : ledger.lines[j].id = p /\ ledger.lines[j].osCreatedAt = b
    BY <2>1
  <2>2. i \in DOMAIN ledger'.lines /\ j \in 1..Len(ledger.lines)
    BY <1>2
  <2>3. ledger'.lines[i] = ledger.lines[i] /\ ledger'.lines[j] = ledger.lines[j]
    BY <1>2, <2>2
  <2> QED
    BY <2>1, <2>2, <2>3, <2>4 DEF RecordedAgain
<1>4. ASSUME NEW p, \A i \in DOMAIN more : more[i].id # p PROVE Keeps(ledger, ledger', p)
  BY <1>1, <1>4, LatestOfOthers
<1>5. ASSUME NEW i \in DOMAIN ledger'.lines, i \notin 1..Len(ledger.lines)
      PROVE  \E j \in DOMAIN more : ledger'.lines[i] = more[j]
  <2>1. i - Len(ledger.lines) \in 1..Len(more)
    BY <1>2, <1>5
  <2>2. ledger'.lines[i] = more[i - Len(ledger.lines)]
    BY <1>1, <1>2, <1>5
  <2> QED
    BY <1>2, <2>1, <2>2
<1> QED
  BY <1>2, <1>3, <1>4, <1>5

\* One line was appended, or the append failed.
LEMMA OneLine ==
  ASSUME ReapTypeOK, NEW line \in ProcessLines, NEW out \in Appends(ledger, line, FALSE),
         ledger' = out.log
  PROVE  /\ ledger' \in [lines : Seq(ProcessLines), torn : BOOLEAN]
         /\ \A p, b : RecordedAgain(p, b) => RecordedAgain(p, b)'
         /\ \A p : p # line.id => Keeps(ledger, ledger', p)
         /\ \/ ledger'.lines = ledger.lines /\ Keeps(ledger, ledger', line.id)
            \/ /\ ledger'.lines = Append(ledger.lines, line)
               /\ line.id \in Ids(ledger') /\ Latest(ledger', line.id) = line
         /\ \A i \in DOMAIN ledger'.lines :
              \/ i \in DOMAIN ledger.lines /\ ledger'.lines[i] = ledger.lines[i]
              \/ ledger'.lines[i] = line
<1>1. ledger \in [lines : Seq(ProcessLines), torn : BOOLEAN]
  BY DEF ReapTypeOK
<1>2. /\ ledger' \in [lines : Seq(ProcessLines), torn : BOOLEAN]
      /\ ledger'.lines \in {ledger.lines, Append(ledger.lines, line)}
  BY <1>1, AppendOutcome
<1>3. CASE ledger'.lines = ledger.lines
  <2>1. \A p : Keeps(ledger, ledger', p)
    BY <1>3, SameLines
  <2>2. \A p, b : RecordedAgain(p, b) => RecordedAgain(p, b)'
    BY <1>3 DEF RecordedAgain
  <2> QED
    BY <1>2, <1>3, <2>1, <2>2
<1>4. CASE ledger'.lines = Append(ledger.lines, line)
  <2>1. <<line>> \in Seq(ProcessLines) /\ Grown(ledger, ledger', <<line>>)
        /\ DOMAIN <<line>> = {1} /\ <<line>>[1] = line
    BY <1>1, <1>4 DEF Grown
  <2>2. line.id \in Ids(ledger') /\ Latest(ledger', line.id) = line
    <3> DEFINE old == ledger
               next == ledger'
    <3>1. old.lines \in Seq(ProcessLines) /\ next.lines = Append(old.lines, line)
      BY <1>1, <1>4
    <3>3. line \in ProcessLines
      OBVIOUS
    <3> HIDE DEF old, next
    <3>2. /\ line.id \in Ids(next) /\ Latest(next, line.id) = line
          /\ \A id : id # line.id => Keeps(old, next, id)
      BY <3>1, <3>3, LatestOfOne
    <3> QED
      BY <3>2 DEF next
  <2>3. /\ \A p, b : RecordedAgain(p, b) => RecordedAgain(p, b)'
        /\ \A p : p # line.id => Keeps(ledger, ledger', p)
        /\ \A i \in DOMAIN ledger'.lines :
             \/ i \in DOMAIN ledger.lines /\ ledger'.lines[i] = ledger.lines[i]
             \/ ledger'.lines[i] = line
    <3>1. PICK more \in Seq(ProcessLines) :
            Grown(ledger, ledger', more) /\ DOMAIN more = {1} /\ more[1] = line
      BY <2>1
    <3>2. \A p, b : RecordedAgain(p, b) => RecordedAgain(p, b)'
      BY <3>1, GrownLedger
    <3>3. \A p : (\A i \in DOMAIN more : more[i].id # p) => Keeps(ledger, ledger', p)
      BY <3>1, GrownLedger
    <3>4. \A i \in DOMAIN ledger'.lines :
            \/ i \in DOMAIN ledger.lines /\ ledger'.lines[i] = ledger.lines[i]
            \/ \E j \in DOMAIN more : ledger'.lines[i] = more[j]
      BY <3>1, GrownLedger
    <3>5. \A p : p # line.id => Keeps(ledger, ledger', p)
      BY <3>1, <3>3
    <3>6. \A i \in DOMAIN ledger'.lines :
            \/ i \in DOMAIN ledger.lines /\ ledger'.lines[i] = ledger.lines[i]
            \/ ledger'.lines[i] = line
      BY <3>1, <3>4
    <3> QED
      BY <3>2, <3>5, <3>6
  <2> QED
    BY <1>2, <1>4, <2>2, <2>3
<1> QED
  BY <1>2, <1>3, <1>4

\* Fragment or not, the same lines.
LEMMA SameLedger ==
  ASSUME ledger'.lines = ledger.lines
  PROVE  /\ \A p, b : RecordedAgain(p, b) <=> RecordedAgain(p, b)'
         /\ \A p : Keeps(ledger, ledger', p)
         /\ Ids(ledger') = Ids(ledger) /\ \A p : Latest(ledger', p) = Latest(ledger, p)
<1>1. \A p : Keeps(ledger, ledger', p)
  BY SameLines
<1>2. Ids(ledger') = Ids(ledger) /\ \A p : Latest(ledger', p) = Latest(ledger, p)
  BY DEF Ids, Latest
<1> QED
  BY <1>1, <1>2 DEF RecordedAgain

\* A child that goes on where it was, and whose pid keeps its newest line, is
\* known as before.
LEMMA StaysTraced ==
  ASSUME NEW h \in Hosts, NEW p \in Pids, Traced(h, p),
         proc'[h][p] = proc[h][p], reboots'[h] = reboots[h],
         Keeps(ledger, ledger', p),
         \A b : RecordedAgain(p, b) => RecordedAgain(p, b)'
  PROVE  Traced(h, p)'
BY DEF Traced, Findable, Keeps

\* So the file keeps every child it has to keep, ...
LEMMA StaysLedgered ==
  ASSUME ReapInv, recorded' \subseteq 1..births',
         \A h \in Hosts, p \in Pids : Counted(h, p)' =>
           /\ Counted(h, p) /\ proc'[h][p] = proc[h][p]
           /\ reboots'[h] = reboots[h]
           /\ Keeps(ledger, ledger', p) \/ RecordedAgain(p, proc[h][p].birth),
         \A p, b : RecordedAgain(p, b) => RecordedAgain(p, b)'
  PROVE  Ledgered'
<1> SUFFICES ASSUME NEW h \in Hosts, NEW p \in Pids, Counted(h, p)'
             PROVE  proc'[h][p].life # 0 /\ Traced(h, p)'
  BY DEF Ledgered
<1>1. /\ Counted(h, p) /\ proc'[h][p] = proc[h][p]
      /\ reboots'[h] = reboots[h]
      /\ Keeps(ledger, ledger', p) \/ RecordedAgain(p, proc[h][p].birth)
  OBVIOUS
<1>2. proc[h][p].life # 0 /\ Traced(h, p)
  BY <1>1 DEF ReapInv, Ledgered
<1>3. Traced(h, p)'
  BY <1>1, <1>2, StaysTraced DEF Traced
<1> QED
  BY <1>1, <1>2, <1>3

\* ... and boot finds the orphans it found.
LEMMA StaysReaped ==
  ASSUME ReapInv, ledger'.lines = ledger.lines, UNCHANGED <<at, phase, life, toReap>>,
         \A p \in Pids : Orphan(p)' => Orphan(p) /\ proc'[at][p] = proc[at][p]
  PROVE  Reaping' /\ Reaped'
<1>1. /\ \A p, b : RecordedAgain(p, b) <=> RecordedAgain(p, b)'
      /\ \A p : Latest(ledger', p) = Latest(ledger, p)
  BY SameLedger
<1> QED
  BY <1>1 DEF ReapInv, Reaping, Reaped

---------------------------------------------------------------------------
(* A child is spawned, ...                                                  *)
LEMMA SpawnInv ==
  ASSUME ReapInv, NEW p \in Pids, Spawn(p)
  PROVE  ReapInv'
<1> DEFINE new(deaf) == Process(CLI, life, deaf)
<1>1. PICK deaf \in BOOLEAN : Starts(at, p, new(deaf))
  BY DEF Spawn
<1>2. /\ ReapTypeOK /\ Unraced /\ Phases /\ Readings /\ Ledgered /\ Reaped
      /\ at \in Hosts /\ life \in Nat \ {0} /\ births \in Nat
  BY DEF ReapInv, ReapTypeOK
<1>3. /\ phase = "serving" /\ toReap = {} /\ doomed = {}
      /\ UNCHANGED <<reboots, at, phase, life, ledger, doomed, toReap, recorded, writtenOff, raced, strangers>>
      /\ reading' \in {reading, reading \cup {[pid |-> p, birth |-> births + 1]}}
  BY <1>1, <1>2 DEF Spawn, Starts, serverVars, history, Phases
<1>4. /\ new(deaf) \in Processes /\ new(deaf).birth = births + 1 /\ new(deaf).life = life
      /\ new(deaf).image = CLI
  BY <1>2, ReapAssumption DEF Process, Processes
<1> HIDE DEF new
<1>5. /\ proc' \in [Hosts -> [Pids -> Processes]] /\ births' = births + 1
      /\ proc'[at][p] = new(deaf)
      /\ \A g \in Hosts, q \in Pids : g # at \/ q # p => proc'[g][q] = proc[g][q]
      /\ Births'
      /\ \A b : OfChild(b) => OfChild(b)'
  <2>1. new(deaf).life <= life
    BY <1>2, <1>4
  <2> QED
    BY <1>1, <1>2, <1>3, <1>4, <2>1, OneMore
<1>6. ReapTypeOK'
  BY <1>2, <1>3, <1>5 DEF ReapTypeOK
<1>7. Unraced'
  <2>1. \A q \in Pids : Ours(q) => Ours(q)'
    BY <1>2, <1>3, <1>4, <1>5 DEF Ours
  <2>2. Ours(p)'
    BY <1>2, <1>3, <1>4, <1>5 DEF Ours
  <2>3. \A c \in reading' : c.pid = p \/ (c \in reading /\ c.pid \in Pids)
    BY <1>2, <1>3 DEF ReapTypeOK
  <2>4. ~raced => \A c \in reading' : Ours(c.pid)'
    BY <1>2, <2>1, <2>2, <2>3 DEF Unraced
  <2> QED
    BY <1>2, <1>3, <1>5, <2>4 DEF Unraced
<1>8. Phases'
  BY <1>3 DEF Phases
<1>9. Readings'
  <2> DEFINE Right(c) ==
               /\ c.birth \in 1..(births + 1)
               /\ \A g \in Hosts, q \in Pids :
                    proc'[g][q].birth = c.birth => g = at /\ q = c.pid /\ proc'[g][q].life = life
  <2>1. \A g \in Hosts, q \in Pids : proc[g][q].birth <= births /\ proc[g][q].birth \in Nat
    BY DEF ReapInv, Births, ReapTypeOK, Processes
  <2>2. ASSUME NEW c \in reading PROVE Right(c)
    <3>1. c.birth \in 1..births
      BY <1>2, <2>2 DEF Readings
    <3>2. ASSUME NEW g \in Hosts, NEW q \in Pids, proc'[g][q].birth = c.birth
          PROVE  g = at /\ q = c.pid /\ proc'[g][q].life = life
      <4>1. g # at \/ q # p
        BY <1>2, <1>4, <1>5, <3>1, <3>2
      <4> QED
        BY <1>2, <1>5, <2>2, <3>2, <4>1 DEF Readings
    <3> QED
      BY <1>2, <3>1, <3>2
  <2>3. Right([pid |-> p, birth |-> births + 1])
    BY <1>2, <1>4, <1>5, <2>1
  <2>4. \A c \in reading' : Right(c)
    BY <1>3, <2>2, <2>3
  <2> QED
    BY <1>3, <1>5, <2>4 DEF Readings
<1>10. \A g \in Hosts, q \in Pids :
         Counted(g, q)' => proc'[g][q] = proc[g][q] /\ Counted(g, q)
  BY <1>2, <1>3, <1>4, <1>5 DEF Counted, Ledgered
<1>11. Ledgered'
  <2>1. recorded' \subseteq 1..births'
    BY <1>2, <1>3, <1>5 DEF Ledgered
  <2> QED
    BY <1>3, <1>10, <2>1, SameLedger, StaysLedgered
<1>12. Reaping' /\ Reaped'
  BY <1>2, <1>3, <1>10, StaysReaped DEF Orphan
<1> QED
  BY <1>5, <1>6, <1>7, <1>8, <1>9, <1>11, <1>12 DEF ReapInv

\* ... behind the mute too, where it is killed at once.
LEMMA SpawnMutedInv ==
  ASSUME ReapInv, NEW p \in Pids, SpawnMuted(p)
  PROVE  ReapInv'
<1>1. /\ births' = births + 1 /\ phase = "muted"
      /\ UNCHANGED <<proc, reboots, at, phase, life, ledger, reading, doomed, toReap, recorded, writtenOff, raced, strangers>>
  BY DEF SpawnMuted, serverVars, history
<1>2. \A h \in Hosts, q \in Pids : proc[h][q].birth \in Nat /\ births \in Nat
  BY DEF ReapInv, ReapTypeOK, Processes
<1>3. ReapTypeOK' /\ Births' /\ Readings' /\ Phases'
  BY <1>1, <1>2 DEF ReapInv, ReapTypeOK, Births, Readings, Phases
<1>4. \A b : OfChild(b) => OfChild(b)'
  <2>1. births \in Nat /\ \A b : b \in 0..births => b \in 0..births'
    BY <1>1 DEF ReapInv, ReapTypeOK
  <2> QED
    BY <1>1, <2>1 DEF OfChild
<1>5. Unraced'
  BY <1>1, <1>4 DEF ReapInv, Unraced, Ours
<1>6. Ledgered'
  <2>1. recorded' \subseteq 1..births'
    BY <1>1, <1>2 DEF ReapInv, ReapTypeOK, Ledgered
  <2>2. \A h \in Hosts, q \in Pids : Counted(h, q)' => Counted(h, q)
    BY <1>1 DEF Counted
  <2> QED
    BY <1>1, <2>1, <2>2, SameLedger, StaysLedgered
<1>7. Reaping' /\ Reaped'
  BY <1>1, StaysReaped DEF Orphan, Counted
<1> QED
  BY <1>3, <1>5, <1>6, <1>7 DEF ReapInv

\* A stranger gets a free pid, which the server may be about to use.
LEMMA StrangerInv ==
  ASSUME ReapInv, NEW h \in Hosts, NEW p \in Pids, NEW image \in Images, Stranger(h, p, image)
  PROVE  ReapInv'
<1> DEFINE new == Process(image, 0, FALSE)
<1>1. Starts(h, p, new)
  BY DEF Stranger
<1>2. /\ ReapTypeOK /\ Unraced /\ Phases /\ Readings /\ Ledgered /\ Reaping /\ Reaped
      /\ at \in Hosts /\ life \in Nat \ {0} /\ births \in Nat
  BY DEF ReapInv, ReapTypeOK
<1>3. /\ UNCHANGED <<reboots, at, phase, life, ledger, reading, doomed, toReap, recorded, writtenOff, strangers>>
      /\ raced' = (raced \/ (h = at /\ (p \in doomed \/ \E c \in reading : c.pid = p)))
  BY DEF Stranger, serverVars
<1>4. new \in Processes /\ new.birth = births + 1 /\ new.life = 0
  BY <1>2 DEF Process, Processes
<1> HIDE DEF new
<1>5. /\ proc' \in [Hosts -> [Pids -> Processes]] /\ births' = births + 1
      /\ proc'[h][p] = new
      /\ \A g \in Hosts, q \in Pids : g # h \/ q # p => proc'[g][q] = proc[g][q]
      /\ Births'
      /\ \A b : OfChild(b) => OfChild(b)'
  <2>1. new.life <= life
    BY <1>2, <1>4
  <2> QED
    BY <1>1, <1>2, <1>3, <1>4, <2>1, OneMore
<1>6. ReapTypeOK'
  BY <1>2, <1>3, <1>5 DEF ReapTypeOK
<1>7. Unraced'
  <2> SUFFICES ASSUME ~raced'
               PROVE  /\ strangers' = {}
                      /\ \A c \in reading' : Ours(c.pid)'
                      /\ \A q \in doomed' : Ours(q)'
                      /\ \A i \in DOMAIN ledger'.lines : OfChild(ledger.lines[i].osCreatedAt)'
    BY DEF Unraced
  <2>1. ~raced /\ (h = at => p \notin doomed /\ \A c \in reading : c.pid # p)
    BY <1>3
  <2>2. \A q \in Pids : h # at \/ q # p => (Ours(q) => Ours(q)')
    BY <1>2, <1>3, <1>5 DEF Ours
  <2>3. (\A c \in reading : c.pid \in Pids) /\ doomed \subseteq Pids
    BY <1>2 DEF ReapTypeOK
  <2>4. /\ \A c \in reading' : Ours(c.pid)'
        /\ \A q \in doomed' : Ours(q)'
    BY <1>2, <1>3, <2>1, <2>2, <2>3 DEF Unraced
  <2> QED
    BY <1>2, <1>3, <1>5, <2>1, <2>4 DEF Unraced
<1>8. Phases'
  BY <1>2, <1>3 DEF Phases
<1>9. Readings'
  <2> SUFFICES ASSUME NEW c \in reading, NEW g \in Hosts, NEW q \in Pids
               PROVE  /\ c.birth \in 1..births'
                      /\ proc'[g][q].birth = c.birth => g = at /\ q = c.pid /\ proc'[g][q].life = life
    BY <1>3 DEF Readings
  <2> QED
    BY <1>2, <1>4, <1>5 DEF Readings
<1>10. \A g \in Hosts, q \in Pids :
         Counted(g, q)' => proc'[g][q] = proc[g][q] /\ Counted(g, q)
  BY <1>2, <1>3, <1>4, <1>5 DEF Counted, Ledgered
<1>11. Ledgered'
  <2>1. recorded' \subseteq 1..births'
    BY <1>2, <1>3, <1>5 DEF Ledgered
  <2> QED
    BY <1>3, <1>10, <2>1, SameLedger, StaysLedgered
<1>12. Reaping' /\ Reaped'
  BY <1>2, <1>3, <1>10, StaysReaped DEF Orphan
<1> QED
  BY <1>5, <1>6, <1>7, <1>8, <1>9, <1>11, <1>12 DEF ReapInv

\* Processes end, one by one or with their machine.
LEMMA Ended ==
  ASSUME ReapInv, proc' \in [Hosts -> [Pids -> Processes]], reboots' \in [Hosts -> Nat],
         \A h \in Hosts, p \in Pids : proc'[h][p] \in {proc[h][p], Nobody},
         \A h \in Hosts : reboots'[h] = reboots[h] \/ \A p \in Pids : proc'[h][p] = Nobody,
         UNCHANGED <<births, at, phase, life, ledger, reading, doomed, toReap, history>>
  PROVE  ReapInv'
<1>1. /\ ReapTypeOK /\ Unraced /\ Phases /\ Readings /\ Ledgered
      /\ UNCHANGED <<births, at, phase, life, ledger, reading, doomed, toReap, recorded, writtenOff, raced, strangers>>
  BY DEF ReapInv, history
<1>2. ReapTypeOK'
  BY <1>1 DEF ReapTypeOK
<1>3. /\ Births' /\ Readings'
      /\ \A b : OfChild(b) => OfChild(b)'
      /\ \A p \in Pids : Ours(p) => Ours(p)'
  BY <1>1, Fewer
<1>4. Unraced'
  BY <1>1, <1>3 DEF Unraced, ReapTypeOK
<1>5. Phases'
  BY <1>1 DEF Phases
<1>6. ASSUME NEW h \in Hosts, NEW p \in Pids, Counted(h, p)'
      PROVE  Counted(h, p) /\ proc'[h][p] = proc[h][p] /\ reboots'[h] = reboots[h]
  <2>1. Nobody.birth \notin recorded
    BY <1>1, NobodyIs DEF Ledgered, ReapTypeOK
  <2>2. proc'[h][p] # Nobody
    BY <1>1, <1>6, <2>1 DEF Counted
  <2> QED
    BY <1>1, <1>6, <2>2 DEF Counted
<1>7. Ledgered'
  <2>1. recorded' \subseteq 1..births'
    BY <1>1 DEF Ledgered
  <2> QED
    BY <1>1, <1>6, <2>1, SameLedger, StaysLedgered
<1>8. Reaping' /\ Reaped'
  BY <1>1, <1>6, StaysReaped DEF Orphan, ReapTypeOK
<1> QED
  BY <1>2, <1>3, <1>4, <1>5, <1>7, <1>8 DEF ReapInv

LEMMA ExitInv ==
  ASSUME ReapInv, NEW h \in Hosts, NEW p \in Pids, Exit(h, p)
  PROVE  ReapInv'
<1>1. /\ proc' = [proc EXCEPT ![h][p] = Nobody]
      /\ UNCHANGED <<births, reboots, at, phase, life, ledger, reading, doomed, toReap, history>>
  BY DEF Exit, Kill, serverVars
<1>2. ReapTypeOK /\ Nobody \in Processes
  BY NobodyIs DEF ReapInv
<1>3. proc' \in [Hosts -> [Pids -> Processes]]
  BY <1>1, <1>2 DEF ReapTypeOK
<1>4. \A g \in Hosts, q \in Pids : proc'[g][q] \in {proc[g][q], Nobody}
  BY <1>1, <1>2 DEF ReapTypeOK
<1>5. reboots' \in [Hosts -> Nat] /\ \A g \in Hosts : reboots'[g] = reboots[g]
  BY <1>1, <1>2 DEF ReapTypeOK
<1> QED
  BY <1>1, <1>3, <1>4, <1>5, Ended

LEMMA RebootInv ==
  ASSUME ReapInv, NEW h \in Hosts, Reboot(h)
  PROVE  ReapInv'
<1> DEFINE all == [p \in Pids |-> Nobody]
<1>1. /\ proc' = [proc EXCEPT ![h] = all] /\ reboots' = [reboots EXCEPT ![h] = @ + 1]
      /\ UNCHANGED <<births, at, phase, life, ledger, reading, doomed, toReap, history>>
  BY DEF Reboot, serverVars
<1>2. ReapTypeOK /\ all \in [Pids -> Processes] /\ \A p \in Pids : all[p] = Nobody
  BY NobodyIs DEF ReapInv
<1> HIDE DEF all
<1>3. proc' \in [Hosts -> [Pids -> Processes]]
  BY <1>1, <1>2 DEF ReapTypeOK
<1>4. \A g \in Hosts, q \in Pids : proc'[g][q] \in {proc[g][q], Nobody}
  BY <1>1, <1>2 DEF ReapTypeOK
<1>5. reboots' \in [Hosts -> Nat]
  BY <1>1, <1>2 DEF ReapTypeOK
<1>6. \A g \in Hosts : reboots'[g] = reboots[g] \/ \A p \in Pids : proc'[g][p] = Nobody
  BY <1>1, <1>2 DEF ReapTypeOK
<1> QED
  BY <1>1, <1>3, <1>4, <1>5, <1>6, Ended

---------------------------------------------------------------------------
(* The server's own steps.                                                  *)

\* A pid's newest line is one of the file's.
LEMMA NewestIsLine ==
  ASSUME ReapTypeOK, NEW p \in Ids(ledger)
  PROVE  /\ Latest(ledger, p) \in ProcessLines /\ Latest(ledger, p).id = p
         /\ \E i \in DOMAIN ledger.lines : Latest(ledger, p) = ledger.lines[i]
<1> DEFINE where == {i \in DOMAIN ledger.lines : ledger.lines[i].id = p}
<1>1. ledger.lines \in Seq(ProcessLines)
  BY DEF ReapTypeOK
<1>2. DOMAIN ledger.lines = 1..Len(ledger.lines) /\ Len(ledger.lines) \in Nat
  BY <1>1, LenProperties
<1>3. where # {} /\ where \subseteq 1..Len(ledger.lines)
  BY <1>2 DEF Ids
<1>4. Max(where) \in where
  BY <1>2, <1>3, MaxIsLast
<1>5. Latest(ledger, p) = ledger.lines[Max(where)]
  BY DEF Latest
<1> QED
  BY <1>1, <1>4, <1>5, LatestIsLine

LEMMA StopInv ==
  ASSUME ReapInv, Stop
  PROVE  ReapInv'
<1>1. /\ ReapTypeOK /\ Births /\ Unraced /\ Ledgered
      /\ UNCHANGED <<proc, births, reboots, at, life, recorded, writtenOff, raced, strangers>>
      /\ phase' = "down" /\ reading' = {} /\ doomed' = {} /\ toReap' = {}
      /\ ledger' \in {ledger, Torn(ledger)}
  BY DEF ReapInv, Stop, osVars, history
<1>2. /\ ledger' \in [lines : Seq(ProcessLines), torn : BOOLEAN]
      /\ ledger'.lines = ledger.lines
  BY <1>1 DEF ReapTypeOK, Torn
<1>3. ReapTypeOK'
  BY <1>1, <1>2 DEF ReapTypeOK
<1>4. Births' /\ Phases' /\ Readings' /\ Reaping' /\ Reaped'
  BY <1>1 DEF Births, Phases, Readings, Reaping, Reaped
<1>5. Unraced'
  BY <1>1, <1>2 DEF Unraced, OfChild
<1>6. Ledgered'
  <2>1. recorded' \subseteq 1..births'
    BY <1>1 DEF Ledgered
  <2>2. \A h \in Hosts, p \in Pids : Counted(h, p)' => Counted(h, p)
    BY <1>1 DEF Counted
  <2> QED
    BY <1>1, <1>2, <2>1, <2>2, SameLedger, StaysLedgered
<1> QED
  BY <1>3, <1>4, <1>5, <1>6 DEF ReapInv

\* The next boot has every orphan's record before it, wherever it runs.
LEMMA ReapBootInv ==
  ASSUME ReapInv, NEW h \in Hosts, ReapBoot(h)
  PROVE  ReapInv'
<1>1. /\ ReapTypeOK /\ Births /\ Unraced /\ Phases /\ Ledgered
      /\ UNCHANGED <<proc, births, reboots, ledger, reading, doomed, recorded, writtenOff, raced, strangers>>
      /\ phase = "down" /\ phase' = "reaping" /\ at' = h /\ life' = life + 1
      /\ toReap' = {Latest(ledger, p) : p \in OpenPids}
  BY DEF ReapInv, ReapBoot, osVars, history
<1>2. reading = {} /\ doomed = {}
  BY <1>1 DEF Phases
<1>3. \A p \in OpenPids :
        /\ p \in Ids(ledger) /\ Latest(ledger, p) \in ProcessLines
        /\ Latest(ledger, p).id = p /\ ~Latest(ledger, p).exited
  BY <1>1, NewestIsLine DEF OpenPids
<1>4. ReapTypeOK'
  <2>1. toReap' \subseteq ProcessLines
    BY <1>1, <1>3
  <2> QED
    BY <1>1, <2>1 DEF ReapTypeOK
<1>5. Births'
  BY <1>1 DEF Births, ReapTypeOK, Processes
<1>6. Unraced'
  BY <1>1, <1>2 DEF Unraced, OfChild
<1>7. Phases'
  BY <1>1, <1>2, <1>3 DEF Phases
<1>8. Readings' /\ Reaped'
  BY <1>1, <1>2 DEF Readings, Reaped
<1>9. Ledgered'
  <2>1. recorded' \subseteq 1..births'
    BY <1>1 DEF Ledgered
  <2>2. \A g \in Hosts, p \in Pids : Counted(g, p)' => Counted(g, p)
    BY <1>1 DEF Counted
  <2> QED
    BY <1>1, <2>1, <2>2, SameLedger, StaysLedgered
<1>10. Reaping'
  <2> SUFFICES ASSUME NEW p \in Pids, Orphan(p)', ~RecordedAgain(p, proc[h][p].birth)
               PROVE  Latest(ledger, p) \in toReap'
    BY <1>1 DEF Reaping, RecordedAgain
  <2>1. Counted(h, p)
    BY <1>1 DEF Orphan, Counted
  <2>2. Findable(h, p)
    BY <1>1, <2>1 DEF Ledgered, Traced
  <2>3. p \in OpenPids
    BY <2>2 DEF Findable, OpenPids
  <2> QED
    BY <1>1, <2>3
<1> QED
  BY <1>4, <1>5, <1>6, <1>7, <1>8, <1>9, <1>10 DEF ReapInv

\* A record of another host is no orphan's of this one.
LEMMA LeaveInv ==
  ASSUME ReapInv, NEW record \in toReap, Leave(record)
  PROVE  ReapInv'
<1>1. /\ ReapTypeOK /\ Births /\ Unraced /\ Phases /\ Readings /\ Ledgered /\ Reaping /\ Reaped
      /\ UNCHANGED <<proc, births, reboots, at, phase, life, ledger, reading, doomed, recorded, writtenOff, raced, strangers>>
      /\ record.hostname # at /\ toReap' = toReap \ {record}
  BY DEF ReapInv, Leave, SameHost, osVars, serverVars, history
<1>2. ReapTypeOK' /\ Births' /\ Readings'
  BY <1>1 DEF ReapTypeOK, Births, Readings
<1>3. Unraced'
  BY <1>1 DEF Unraced, Ours, OfChild
<1>4. Phases'
  BY <1>1 DEF Phases
<1>5. Ledgered'
  BY <1>1 DEF Ledgered, Counted, Traced, Findable, RecordedAgain
<1>6. \A p \in Pids : Orphan(p) /\ ~RecordedAgain(p, proc[at][p].birth) => Latest(ledger, p) # record
  BY <1>1 DEF Orphan, Ledgered, Traced, Findable, ReapTypeOK
<1>7. Reaping' /\ Reaped'
  BY <1>1, <1>6 DEF Reaping, Reaped, Orphan, Counted, RecordedAgain
<1> QED
  BY <1>2, <1>3, <1>4, <1>5, <1>7 DEF ReapInv

\* Who is cleared for killing is a child: its birth is a recorded one.
LEMMA ClearInv ==
  ASSUME ReapInv, NEW record \in toReap, Clear(record)
  PROVE  ReapInv'
<1>1. /\ ReapTypeOK /\ Births /\ Unraced /\ Phases /\ Readings /\ Ledgered /\ Reaping /\ Reaped
      /\ UNCHANGED <<proc, births, reboots, at, phase, life, ledger, reading, toReap, recorded, writtenOff, raced, strangers>>
      /\ record.hostname = at /\ doomed' = {record.id}
      /\ record.osCreatedAt = proc[at][record.id].birth
  BY DEF ReapInv, Clear, SameHost, IsChild, osVars, serverVars, history
<1>2. /\ record.id \in Ids(ledger) /\ record = Latest(ledger, record.id)
      /\ record.id \in Pids /\ at \in Hosts /\ phase = "reaping"
  BY <1>1 DEF Phases, ReapTypeOK, ProcessLines
<1>3. PICK i \in DOMAIN ledger.lines : record = ledger.lines[i]
  BY <1>1, <1>2, NewestIsLine
<1>4. ~raced => Ours(record.id)
  BY <1>1, <1>2, <1>3 DEF Unraced, Ours, OfChild
<1>5. ReapTypeOK' /\ Births' /\ Readings'
  BY <1>1, <1>2 DEF ReapTypeOK, Births, Readings
<1>6. Unraced'
  BY <1>1, <1>4 DEF Unraced, Ours, OfChild
<1>7. Phases'
  BY <1>1, <1>2 DEF Phases
<1>8. Ledgered'
  BY <1>1 DEF Ledgered, Counted, Traced, Findable, RecordedAgain
<1>9. Reaping' /\ Reaped'
  BY <1>1 DEF Reaping, Reaped, Orphan, Counted, RecordedAgain
<1> QED
  BY <1>5, <1>6, <1>7, <1>8, <1>9 DEF ReapInv

LEMMA ServeInv ==
  ASSUME ReapInv, Serve
  PROVE  ReapInv'
<1>1. /\ ReapTypeOK /\ Births /\ Unraced /\ Phases /\ Readings /\ Ledgered /\ Reaping
      /\ UNCHANGED <<proc, births, reboots, at, life, ledger, reading, doomed, toReap, recorded, writtenOff, raced, strangers>>
      /\ phase = "reaping" /\ phase' = "serving" /\ toReap = {}
  BY DEF ReapInv, Serve, osVars, history
<1>2. doomed = {}
  BY <1>1 DEF Phases
<1>3. ReapTypeOK' /\ Births' /\ Readings' /\ Phases'
  BY <1>1, <1>2 DEF ReapTypeOK, Births, Readings, Phases
<1>4. Unraced'
  BY <1>1 DEF Unraced, Ours, OfChild
<1>5. Ledgered'
  BY <1>1 DEF Ledgered, Counted, Traced, Findable, RecordedAgain
<1>6. Reaping' /\ Reaped'
  BY <1>1 DEF Reaping, Reaped, Orphan, Counted, RecordedAgain
<1> QED
  BY <1>3, <1>4, <1>5, <1>6 DEF ReapInv

\* Behind the guard a record gets its tombstone, the append permitting: the
\* other pids keep their newest lines, and no new line names a birth.
LEMMA TombstoneLine ==
  ASSUME ReapInv, NEW record \in toReap, Tombstoned(record)
  PROVE  /\ record \in ProcessLines /\ record.id \in Pids /\ record.id \in Ids(ledger)
         /\ record = Latest(ledger, record.id) /\ ~record.exited
         /\ toReap' = toReap \ {record}
         /\ ledger' \in [lines : Seq(ProcessLines), torn : BOOLEAN]
         /\ \A p, b : RecordedAgain(p, b) => RecordedAgain(p, b)'
         /\ \A p : p # record.id => Keeps(ledger, ledger', p)
         /\ \A i \in DOMAIN ledger'.lines :
              \/ i \in DOMAIN ledger.lines /\ ledger'.lines[i] = ledger.lines[i]
              \/ ledger'.lines[i].osCreatedAt = 0
<1>1. ReapTypeOK /\ Phases
  BY DEF ReapInv
<1>2. /\ record \in ProcessLines /\ record.id \in Pids /\ record.id \in Ids(ledger)
      /\ record = Latest(ledger, record.id) /\ ~record.exited
  BY <1>1 DEF ReapTypeOK, Phases, ProcessLines
<1>3. ProcessTombstone(record.id) \in ProcessLines
  BY <1>1, <1>2 DEF ProcessTombstone, ProcessLines, ReapTypeOK
<1>4. /\ ProcessTombstone(record.id).id = record.id
      /\ ProcessTombstone(record.id).osCreatedAt = 0
  BY DEF ProcessTombstone
<1> DEFINE line == ProcessTombstone(record.id)
<1>5. PICK out \in Appends(ledger, line, FALSE) : ledger' = out.log
  BY DEF Tombstoned
<1> HIDE DEF line
<1>6. line \in ProcessLines /\ line.id = record.id /\ line.osCreatedAt = 0
  BY <1>3, <1>4 DEF line
<1>7. /\ ledger' \in [lines : Seq(ProcessLines), torn : BOOLEAN]
      /\ \A p, b : RecordedAgain(p, b) => RecordedAgain(p, b)'
      /\ \A p : p # line.id => Keeps(ledger, ledger', p)
      /\ \A i \in DOMAIN ledger'.lines :
           \/ i \in DOMAIN ledger.lines /\ ledger'.lines[i] = ledger.lines[i]
           \/ ledger'.lines[i] = line
  BY <1>1, <1>5, <1>6, OneLine
<1>8. toReap' = toReap \ {record}
  BY DEF Tombstoned
<1> QED
  BY <1>2, <1>6, <1>7, <1>8

\* Who is to be reaped keeps its place among them.
LEMMA TombstonePhases ==
  ASSUME ReapInv, NEW record \in toReap, Tombstoned(record), phase = "reaping",
         UNCHANGED <<phase, reading>>, doomed' = {}
  PROVE  Phases'
<1>1. /\ toReap' = toReap \ {record} /\ record = Latest(ledger, record.id)
      /\ \A p : p # record.id => Keeps(ledger, ledger', p)
  BY TombstoneLine
<1>2. \A r \in toReap' : r.id # record.id /\ r.id \in Ids(ledger) /\ r = Latest(ledger, r.id) /\ ~r.exited
  BY <1>1 DEF ReapInv, Phases
<1>3. \A r \in toReap' : r.id \in Ids(ledger') /\ r = Latest(ledger', r.id) /\ ~r.exited
  BY <1>1, <1>2 DEF Keeps
<1>4. phase' = "reaping" /\ reading' = {}
  BY DEF ReapInv, Phases
<1> QED
  BY <1>3, <1>4 DEF Phases

LEMMA ReapRecordInv ==
  ASSUME ReapInv, NEW record \in toReap, Reap(record)
  PROVE  ReapInv'
<1> DEFINE id == record.id
<1>1. /\ ReapTypeOK /\ Births /\ Unraced /\ Phases /\ Readings /\ Ledgered /\ Reaping
      /\ UNCHANGED <<births, reboots, at, phase, life, reading, recorded, writtenOff, raced>>
      /\ id \in doomed /\ doomed' = {} /\ proc' = [proc EXCEPT ![at][id] = Nobody]
      /\ strangers' = IF Alive(at, id) /\ proc[at][id].life = 0
                      THEN strangers \cup {proc[at][id].birth} ELSE strangers
      /\ Tombstoned(record)
  BY DEF ReapInv, Reap, Kill, serverVars
<1>2. /\ id \in Pids /\ id \in Ids(ledger) /\ record = Latest(ledger, id) /\ record \in ProcessLines
      /\ toReap' = toReap \ {record}
      /\ ledger' \in [lines : Seq(ProcessLines), torn : BOOLEAN]
      /\ \A p, b : RecordedAgain(p, b) => RecordedAgain(p, b)'
      /\ \A p : p # id => Keeps(ledger, ledger', p)
      /\ \A i \in DOMAIN ledger'.lines :
           \/ i \in DOMAIN ledger.lines /\ ledger'.lines[i] = ledger.lines[i]
           \/ ledger'.lines[i].osCreatedAt = 0
  BY <1>1, TombstoneLine
<1> HIDE DEF id
<1>3. /\ at \in Hosts /\ births \in Nat /\ Nobody \in Processes
      /\ proc \in [Hosts -> [Pids -> Processes]] /\ proc[at][id].birth \in Nat
  BY <1>1, <1>2, NobodyIs DEF ReapTypeOK, Processes
<1>4. /\ proc' \in [Hosts -> [Pids -> Processes]] /\ proc'[at][id] = Nobody
      /\ \A h \in Hosts, p \in Pids : proc'[h][p] \in {proc[h][p], Nobody}
  BY <1>1, <1>2, <1>3
<1>5. phase = "reaping" /\ reading = {} /\ record.hostname = at
  BY <1>1, <1>2 DEF Phases
<1>6. /\ Births' /\ Readings'
      /\ \A b : OfChild(b) => OfChild(b)'
  BY <1>1, <1>4, Fewer
<1>7. ReapTypeOK'
  <2>1. strangers' \subseteq Nat
    BY <1>1, <1>3 DEF ReapTypeOK
  <2>2. toReap' \subseteq ProcessLines /\ doomed' \subseteq Pids
    BY <1>1, <1>2 DEF ReapTypeOK
  <2> QED
    BY <1>1, <1>2, <1>4, <2>1, <2>2 DEF ReapTypeOK
<1>8. Unraced'
  <2> SUFFICES ASSUME ~raced
               PROVE  strangers' = {} /\ \A i \in DOMAIN ledger'.lines : OfChild(ledger.lines[i].osCreatedAt)'
    BY <1>1, <1>5 DEF Unraced
  <2>1. strangers' = {}
    <3>1. proc[at][id].birth # 0 => proc[at][id].life # 0
      BY <1>1 DEF Unraced, Ours
    <3>2. Alive(at, id) <=> proc[at][id].birth # 0
      BY <1>1, <1>2, <1>3, NobodyIs
    <3> QED
      BY <1>1, <3>1, <3>2 DEF Unraced
  <2>2. OfChild(0)'
    BY <1>1, <1>3 DEF OfChild
  <2> QED
    BY <1>1, <1>2, <1>6, <2>1, <2>2 DEF Unraced
<1>9. Phases'
  BY <1>1, <1>5, TombstonePhases
<1>10. ASSUME NEW h \in Hosts, NEW p \in Pids, Counted(h, p)'
       PROVE  Counted(h, p) /\ proc'[h][p] = proc[h][p] /\ (h # at \/ p # id)
  <2>1. Nobody.birth \notin recorded
    BY <1>1, NobodyIs DEF Ledgered, ReapTypeOK
  <2>2. proc'[h][p] # Nobody
    BY <1>1, <1>10, <2>1 DEF Counted
  <2> QED
    BY <1>1, <1>4, <1>10, <2>2 DEF Counted
<1>11. \A h \in Hosts, p \in Pids : Counted(h, p) /\ h # at =>
         Keeps(ledger, ledger', p) \/ RecordedAgain(p, proc[h][p].birth)
  BY <1>1, <1>2, <1>5 DEF Ledgered, Traced, Findable
<1>12. Ledgered'
  <2>1. recorded' \subseteq 1..births'
    BY <1>1 DEF Ledgered
  <2>2. \A h \in Hosts, p \in Pids : Counted(h, p)' =>
           /\ Counted(h, p) /\ proc'[h][p] = proc[h][p]
           /\ reboots'[h] = reboots[h]
           /\ Keeps(ledger, ledger', p) \/ RecordedAgain(p, proc[h][p].birth)
    BY <1>1, <1>2, <1>10, <1>11
  <2> QED
    BY <1>2, <2>1, <2>2, StaysLedgered
<1>13. Reaping'
  <2> SUFFICES ASSUME NEW p \in Pids, Orphan(p)', ~RecordedAgain(p, proc[at][p].birth)'
               PROVE  Latest(ledger', p) \in toReap'
    BY DEF Reaping
  <2>1. Orphan(p) /\ proc'[at][p] = proc[at][p] /\ p # id
    BY <1>1, <1>3, <1>10 DEF Orphan
  <2>5. proc'[at'][p] = proc[at][p]
    BY <1>1, <2>1
  <2>6. \A b : RecordedAgain(p, b) => RecordedAgain(p, b)'
    BY <1>2
  <2>2. ~RecordedAgain(p, proc[at][p].birth)
    BY <2>5, <2>6 DEF RecordedAgain
  <2>3. Findable(at, p) /\ Latest(ledger, p) \in toReap
    BY <1>1, <1>3, <1>5, <2>1, <2>2 DEF Reaping, Orphan, Ledgered, Traced
  <2>4. Latest(ledger, p).id = p /\ Latest(ledger', p) = Latest(ledger, p)
    BY <1>2, <2>1, <2>3 DEF Findable, Keeps
  <2> QED
    BY <1>2, <2>1, <2>3, <2>4 DEF id
<1>14. Reaped'
  BY <1>1, <1>5 DEF Reaped
<1> QED
  BY <1>6, <1>7, <1>8, <1>9, <1>12, <1>13, <1>14 DEF ReapInv

\* A record the guard spares is not that of the orphan who holds its pid.
LEMMA SpareInv ==
  ASSUME ReapInv, NEW record \in toReap, Spare(record)
  PROVE  ReapInv'
<1> DEFINE id == record.id
<1>1. /\ ReapTypeOK /\ Births /\ Unraced /\ Phases /\ Readings /\ Ledgered /\ Reaping
      /\ UNCHANGED <<proc, births, reboots, at, phase, life, reading, doomed, recorded, writtenOff, raced, strangers>>
      /\ record.hostname = at /\ doomed = {} /\ ~IsChild(record) /\ Tombstoned(record)
  BY DEF ReapInv, Spare, SameHost, osVars, serverVars, history
<1>2. /\ id \in Pids /\ id \in Ids(ledger) /\ record = Latest(ledger, id) /\ record \in ProcessLines
      /\ toReap' = toReap \ {record}
      /\ ledger' \in [lines : Seq(ProcessLines), torn : BOOLEAN]
      /\ \A p, b : RecordedAgain(p, b) => RecordedAgain(p, b)'
      /\ \A p : p # id => Keeps(ledger, ledger', p)
      /\ \A i \in DOMAIN ledger'.lines :
           \/ i \in DOMAIN ledger.lines /\ ledger'.lines[i] = ledger.lines[i]
           \/ ledger'.lines[i].osCreatedAt = 0
  BY <1>1, TombstoneLine
<1> HIDE DEF id
<1>3. /\ at \in Hosts /\ births \in Nat /\ phase = "reaping" /\ reading = {}
  BY <1>1 DEF ReapTypeOK, Phases
<1>4. ReapTypeOK'
  <2>1. toReap' \subseteq ProcessLines
    BY <1>1, <1>2 DEF ReapTypeOK
  <2> QED
    BY <1>1, <1>2, <2>1 DEF ReapTypeOK
<1>5. Births' /\ Readings' /\ Reaped'
  BY <1>1, <1>3 DEF Births, Readings, Reaped
<1>6. Phases'
  BY <1>1, <1>3, TombstonePhases
<1>7. Unraced'
  <2>1. \A b : OfChild(b) => OfChild(b)'
    BY <1>1 DEF OfChild
  <2>2. OfChild(0)'
    BY <1>1, <1>3 DEF OfChild
  <2>3. ~raced => \A i \in DOMAIN ledger'.lines : OfChild(ledger.lines[i].osCreatedAt)'
    BY <1>1, <1>2, <2>1, <2>2 DEF Unraced
  <2> QED
    BY <1>1, <1>3, <2>3 DEF Unraced
<1>8. ASSUME NEW h \in Hosts, Counted(h, id) PROVE RecordedAgain(id, proc[h][id].birth)
  <2> SUFFICES ASSUME Findable(h, id) PROVE FALSE
    BY <1>1, <1>2, <1>8 DEF Ledgered, Traced
  <2>1. h = at /\ record.boot = reboots[at] /\ record.osCreatedAt = proc[at][id].birth
    BY <1>1, <1>2 DEF Findable
  <2>2. proc[at][id].birth # 0 /\ proc[at][id].image = CLI
    BY <1>1, <1>2, <1>3, <1>8, <2>1 DEF Ledgered, Counted, Births, ReapTypeOK
  <2>3. Alive(at, id)
    BY <1>1, <1>2, <1>3, <2>2, NobodyIs
  <2> QED
    BY <1>1, <2>1, <2>2, <2>3 DEF IsChild, id
<1>9. Ledgered'
  <2>1. recorded' \subseteq 1..births'
    BY <1>1 DEF Ledgered
  <2>2. \A h \in Hosts, p \in Pids : Counted(h, p)' =>
           /\ Counted(h, p) /\ proc'[h][p] = proc[h][p]
           /\ reboots'[h] = reboots[h]
           /\ Keeps(ledger, ledger', p) \/ RecordedAgain(p, proc[h][p].birth)
    BY <1>1, <1>2, <1>8 DEF Counted
  <2> QED
    BY <1>2, <2>1, <2>2, StaysLedgered
<1>10. Reaping'
  <2> SUFFICES ASSUME NEW p \in Pids, Orphan(p)', ~RecordedAgain(p, proc[at][p].birth)'
               PROVE  Latest(ledger', p) \in toReap'
    BY DEF Reaping
  <2>1. Orphan(p)
    BY <1>1 DEF Orphan, Counted
  <2>5. UNCHANGED <<proc, at>>
    BY <1>1
  <2>6. \A b : RecordedAgain(p, b) => RecordedAgain(p, b)'
    BY <1>2
  <2>2. ~RecordedAgain(p, proc[at][p].birth)
    BY <2>5, <2>6 DEF RecordedAgain
  <2>3. Findable(at, p) /\ Latest(ledger, p) \in toReap /\ p # id
    BY <1>1, <1>3, <1>8, <2>1, <2>2 DEF Reaping, Orphan, Ledgered, Traced
  <2>4. Latest(ledger, p).id = p /\ Latest(ledger', p) = Latest(ledger, p)
    BY <1>2, <2>3 DEF Findable, Keeps
  <2> QED
    BY <1>2, <2>3, <2>4 DEF id
<1> QED
  BY <1>4, <1>5, <1>6, <1>7, <1>9, <1>10 DEF ReapInv

---------------------------------------------------------------------------
(* What the server writes while it serves, and as it shuts down.            *)

\* The spawned handler's record is its child's, or a stranger got the pid; and
\* the child an older record was of is recorded again.
LEMMA RecordInv ==
  ASSUME ReapInv, NEW child \in reading, Record(child)
  PROVE  ReapInv'
<1> DEFINE p == child.pid
<1>1. /\ ReapTypeOK /\ Births /\ Unraced /\ Phases /\ Readings /\ Ledgered /\ Reaped
      /\ UNCHANGED <<proc, births, reboots, at, phase, life, doomed, toReap, writtenOff, raced, strangers>>
      /\ reading' = reading \ {child}
  BY DEF ReapInv, Record, osVars, serverVars
<1>0. PICK birth \in CreatedAt(at, p) :
        \E out \in Appends(ledger, ProcessRecord(p, birth), FALSE) :
          /\ ledger' = out.log
          /\ recorded' = IF out.ok /\ ~Glues(ledger) /\ birth = child.birth
                         THEN recorded \cup {birth} ELSE recorded
  BY DEF Record
<1>2. PICK out \in Appends(ledger, ProcessRecord(p, birth), FALSE) :
        /\ ledger' = out.log
        /\ recorded' = IF out.ok /\ ~Glues(ledger) /\ birth = child.birth
                       THEN recorded \cup {birth} ELSE recorded
  BY <1>0
<1>3. /\ p \in Pids /\ at \in Hosts /\ births \in Nat /\ life \in Nat \ {0}
      /\ birth \in Nat /\ reboots[at] \in Nat /\ child.birth \in 1..births
  BY <1>1 DEF ReapTypeOK, Processes, CreatedAt, Readings
<1>4. phase # "reaping" /\ phase # "down" /\ toReap = {} /\ doomed = {}
  BY <1>1 DEF Phases
<1> DEFINE line == ProcessRecord(p, birth)
<1>5. line = [id |-> p, exited |-> FALSE, hostname |-> at, boot |-> reboots[at], osCreatedAt |-> birth]
  BY DEF ProcessRecord
<1>6. out \in Appends(ledger, line, FALSE)
  OBVIOUS
<1> HIDE DEF p, line
<1>7. line \in ProcessLines /\ line.id = p /\ ~line.exited /\ line.osCreatedAt = birth
  BY <1>3, <1>5 DEF ProcessLines
<1>8. /\ ledger' \in [lines : Seq(ProcessLines), torn : BOOLEAN]
      /\ \A q, b : RecordedAgain(q, b) => RecordedAgain(q, b)'
      /\ \A q : q # p => Keeps(ledger, ledger', q)
      /\ \/ ledger'.lines = ledger.lines /\ Keeps(ledger, ledger', p)
         \/ /\ ledger'.lines = Append(ledger.lines, line)
            /\ p \in Ids(ledger') /\ Latest(ledger', p) = line
      /\ \A i \in DOMAIN ledger'.lines :
           \/ i \in DOMAIN ledger.lines /\ ledger'.lines[i] = ledger.lines[i]
           \/ ledger'.lines[i] = line
  BY <1>1, <1>2, <1>6, <1>7, OneLine
<1>9. \/ recorded' = recorded
      \/ /\ recorded' = recorded \cup {birth} /\ birth = child.birth
         /\ p \in Ids(ledger') /\ Latest(ledger', p) = line
  <2> SUFFICES ASSUME out.ok, ~Glues(ledger), birth = child.birth
               PROVE  p \in Ids(ledger') /\ Latest(ledger', p) = line
    BY <1>2
  <2>1. ledger \in [lines : Seq(ProcessLines), torn : BOOLEAN]
    BY <1>1 DEF ReapTypeOK
  <2>2. ledger'.lines = Append(ledger.lines, line)
    BY <1>2, <1>6, <1>7, <2>1, AppendOutcome
  <2>3. Len(ledger'.lines) = Len(ledger.lines) + 1 /\ Len(ledger.lines) \in Nat
    BY <2>1, <2>2
  <2>4. ledger'.lines # ledger.lines
    BY <2>3
  <2> QED
    BY <1>8, <2>4
<1>10. ReapTypeOK'
  <2>1. recorded' \subseteq Nat
    BY <1>1, <1>2, <1>3 DEF ReapTypeOK
  <2> QED
    BY <1>1, <1>8, <2>1 DEF ReapTypeOK
<1>11. Births' /\ Readings'
  BY <1>1 DEF Births, Readings
<1>12. Phases' /\ Reaping'
  BY <1>1, <1>4 DEF Phases, Reaping
<1>13. Unraced'
  <2>1. \A b : OfChild(b) => OfChild(b)'
    BY <1>1 DEF OfChild
  <2>2. ~raced => OfChild(birth)
    <3>1. birth = 0 \/ birth = proc[at][p].birth
      BY <1>2 DEF CreatedAt
    <3>2. birth \in 0..births
      BY <1>1, <1>3, <3>1 DEF Births
    <3>3. ~raced => Ours(p)
      BY <1>1 DEF Unraced, p
    <3> QED
      BY <1>1, <1>3, <3>1, <3>2, <3>3 DEF Ours, OfChild, Births
  <2>3. ~raced => \A i \in DOMAIN ledger'.lines : OfChild(ledger.lines[i].osCreatedAt)'
    BY <1>1, <1>7, <1>8, <2>1, <2>2 DEF Unraced
  <2> QED
    BY <1>1, <1>4, <2>3 DEF Unraced, Ours
<1>14. ASSUME NEW h \in Hosts, NEW q \in Pids, Counted(h, q)', ~Counted(h, q)
       PROVE  /\ h = at /\ q = p /\ proc[h][q].birth = birth /\ proc[h][q].life = life
              /\ p \in Ids(ledger') /\ Latest(ledger', p) = line
  <2>1. /\ recorded' = recorded \cup {birth} /\ birth = child.birth /\ proc[h][q].birth = birth
        /\ p \in Ids(ledger') /\ Latest(ledger', p) = line
    BY <1>1, <1>9, <1>14 DEF Counted
  <2> QED
    BY <1>1, <2>1 DEF Readings, p
<1>15. ASSUME NEW h \in Hosts, Counted(h, p) PROVE Traced(h, p)'
  <2>1. Traced(h, p)
    BY <1>1, <1>3, <1>15 DEF Ledgered
  <2>0. \A b : RecordedAgain(p, b) => RecordedAgain(p, b)'
    BY <1>8
  <2>4. CASE RecordedAgain(p, proc[h][p].birth)
    <3>1. RecordedAgain(p, proc[h][p].birth)'
      BY <1>1, <2>0, <2>4 DEF RecordedAgain
    <3> QED
      BY <3>1 DEF Traced
  <2>2. CASE Keeps(ledger, ledger', p)
    BY <1>1, <1>3, <2>0, <2>1, <2>2, StaysTraced
  <2>3. CASE /\ Findable(h, p) /\ ledger'.lines = Append(ledger.lines, line)
    <3>1. PICK j \in DOMAIN ledger.lines : Latest(ledger, p) = ledger.lines[j]
      BY <1>1, <2>3, NewestIsLine DEF Findable
    <3>2. ledger.lines[j].id = p /\ ledger.lines[j].osCreatedAt = proc[h][p].birth
      BY <2>3, <3>1 DEF Findable
    <3>3. ledger.lines \in Seq(ProcessLines)
      BY <1>1 DEF ReapTypeOK
    <3> DEFINE i == Len(ledger.lines) + 1
    <3>4. /\ i \in DOMAIN ledger'.lines /\ ledger'.lines[i] = line
          /\ j \in 1..(i - 1) /\ ledger'.lines[j] = ledger.lines[j]
      BY <1>7, <2>3, <3>3
    <3> HIDE DEF i
    <3>5. RecordedAgain(p, proc[h][p].birth)'
      BY <1>1, <1>7, <3>2, <3>4 DEF RecordedAgain
    <3> QED
      BY <3>5 DEF Traced
  <2> QED
    BY <1>8, <2>1, <2>2, <2>3, <2>4 DEF Traced
<1>16. Ledgered'
  <2>1. recorded' \subseteq 1..births'
    BY <1>1, <1>2, <1>3 DEF Ledgered
  <2>2. ASSUME NEW h \in Hosts, NEW q \in Pids, Counted(h, q)'
        PROVE  proc'[h][q].life # 0 /\ Traced(h, q)'
    <3>1. CASE ~Counted(h, q)
      <4>1. /\ h = at /\ q = p /\ proc[h][q].birth = birth /\ proc[h][q].life = life
            /\ p \in Ids(ledger') /\ Latest(ledger', p) = line
        BY <1>14, <2>2, <3>1
      <4>2. Findable(h, q)'
        BY <1>1, <1>5, <4>1 DEF Findable
      <4> QED
        BY <1>1, <1>3, <4>1, <4>2 DEF Traced
    <3>2. CASE Counted(h, q) /\ q # p
      BY <1>1, <1>8, <3>2, StaysTraced DEF Ledgered
    <3>3. CASE Counted(h, q) /\ q = p
      BY <1>1, <1>15, <3>3 DEF Ledgered
    <3> QED
      BY <3>1, <3>2, <3>3
  <2> QED
    BY <2>1, <2>2 DEF Ledgered
<1>17. Reaped'
  <2> SUFFICES ASSUME phase = "serving", NEW q \in Pids, Orphan(q)'
               PROVE  RecordedAgain(q, proc[at][q].birth)'
    BY <1>1 DEF Reaped
  <2>1. UNCHANGED <<proc, at, life>>
    BY <1>1
  <2>2. Counted(at, q)
    <3> SUFFICES ASSUME ~Counted(at, q) PROVE FALSE
      OBVIOUS
    <3>1. Counted(at, q)' /\ proc[at][q].life < life
      BY <2>1 DEF Orphan, Counted
    <3>2. \A h \in Hosts : Counted(h, q)' /\ ~Counted(h, q) => proc[h][q].life = life
      BY <1>14
    <3>3. Counted(at, q)' => proc[at][q].life = life
      BY <1>3, <2>1, <3>2 DEF Counted
    <3> QED
      BY <1>3, <3>1, <3>3
  <2>3. RecordedAgain(q, proc[at][q].birth)
    BY <1>1, <2>1, <2>2 DEF Reaped, Orphan
  <2>4. \A b : RecordedAgain(q, b) => RecordedAgain(q, b)'
    BY <1>8
  <2> QED
    BY <2>1, <2>3, <2>4 DEF RecordedAgain
<1> QED
  BY <1>10, <1>11, <1>12, <1>13, <1>16, <1>17 DEF ReapInv

\* A tombstone writes its pid off, on every host.
LEMMA ShutdownInv ==
  ASSUME ReapInv, Shutdown
  PROVE  ReapInv'
<1> DEFINE children == {p \in Pids : proc[at][p].life = life}
           tombstones == {ProcessTombstone(p) : p \in children}
           left == [p \in Pids |-> IF p \in children /\ ~proc[at][p].deaf THEN Nobody ELSE proc[at][p]]
<1>1. /\ ReapTypeOK /\ Births /\ Unraced /\ Phases /\ Readings /\ Ledgered
      /\ UNCHANGED <<births, reboots, at, life, reading, doomed, toReap, recorded, raced, strangers>>
      /\ phase = "serving" /\ phase' = "muted"
      /\ proc' = [proc EXCEPT ![at] = left] /\ ledger' \in Interrupted(ledger, tombstones)
      /\ writtenOff' = writtenOff \cup {proc'[h][p].birth : h \in Hosts, p \in Added(ledger, ledger')}
  BY DEF ReapInv, Shutdown
<1>2. /\ at \in Hosts /\ births \in Nat /\ proc \in [Hosts -> [Pids -> Processes]]
      /\ ledger \in [lines : Seq(ProcessLines), torn : BOOLEAN]
  BY <1>1 DEF ReapTypeOK
<1>3. left \in [Pids -> Processes] /\ \A p \in Pids : left[p] \in {proc[at][p], Nobody}
  BY <1>2, NobodyIs
<1>4. children \subseteq Pids /\ IsFiniteSet(tombstones)
  <2>1. IsFiniteSet(children)
    BY ReapAssumption, FS_Subset
  <2> DEFINE f == [p \in children |-> ProcessTombstone(p)]
  <2>2. f \in [children -> tombstones] /\ \A t \in tombstones : \E p \in children : f[p] = t
    OBVIOUS
  <2> HIDE DEF children, tombstones, f
  <2>3. f \in Surjection(children, tombstones)
    BY <2>2, Fun_IsSurj
  <2>4. IsFiniteSet(tombstones)
    BY <2>1, <2>3, FS_Surjection
  <2> QED
    BY <2>4 DEF children
<1>5. tombstones \subseteq ProcessLines /\ \A line \in tombstones : line.osCreatedAt = 0
  <2>1. ASSUME NEW p \in Pids
        PROVE  ProcessTombstone(p) \in ProcessLines /\ ProcessTombstone(p).osCreatedAt = 0
    BY <1>2 DEF ProcessTombstone, ProcessLines
  <2> QED
    BY <2>1
<1> HIDE DEF children, tombstones, left
<1>6. PICK more \in Seq(tombstones) : Grown(ledger, ledger', more)
  BY <1>1, <1>2, <1>4, <1>5, InterruptedGrows
<1>7. ledger' \in [lines : Seq(ProcessLines), torn : BOOLEAN]
  BY <1>1, <1>2, <1>4, <1>5, InterruptedGrows
<1>8. more \in Seq(ProcessLines) /\ \A j \in DOMAIN more : more[j] \in tombstones
  BY <1>5, <1>6, SeqMonotonic
<1>9. /\ \A p, b : RecordedAgain(p, b) => RecordedAgain(p, b)'
      /\ \A p : (\A i \in DOMAIN more : more[i].id # p) => Keeps(ledger, ledger', p)
      /\ \A i \in DOMAIN ledger'.lines :
           \/ i \in DOMAIN ledger.lines /\ ledger'.lines[i] = ledger.lines[i]
           \/ \E j \in DOMAIN more : ledger'.lines[i] = more[j]
  BY <1>1, <1>6, <1>8, GrownLedger
<1>10. Added(ledger, ledger') \subseteq Pids /\ \A j \in DOMAIN more : more[j].id \in Added(ledger, ledger')
  <2>1. /\ ledger'.lines = ledger.lines \o more
        /\ DOMAIN ledger.lines = 1..Len(ledger.lines) /\ DOMAIN more = 1..Len(more)
        /\ DOMAIN ledger'.lines = 1..(Len(ledger.lines) + Len(more))
        /\ Len(ledger.lines) \in Nat /\ Len(more) \in Nat
    BY <1>2, <1>6, <1>8 DEF Grown
  <2>2. ASSUME NEW j \in DOMAIN more PROVE more[j].id \in Added(ledger, ledger')
    <3>1. /\ Len(ledger.lines) + j \in DOMAIN ledger'.lines \ DOMAIN ledger.lines
          /\ ledger'.lines[Len(ledger.lines) + j] = more[j]
      BY <1>2, <1>8, <2>1
    <3> QED
      BY <3>1 DEF Added
  <2>3. ASSUME NEW i \in DOMAIN ledger'.lines PROVE ledger'.lines[i].id \in Pids
    <3>1. ledger'.lines \in Seq(ProcessLines)
      BY <1>7
    <3>2. ledger'.lines[i] \in ProcessLines
      BY <3>1
    <3> QED
      BY <3>2 DEF ProcessLines
  <2> QED
    BY <2>2, <2>3 DEF Added
<1>11. /\ proc' \in [Hosts -> [Pids -> Processes]]
       /\ \A h \in Hosts, p \in Pids : proc'[h][p] \in {proc[h][p], Nobody}
  BY <1>1, <1>2, <1>3
<1>12. /\ Births' /\ Readings'
       /\ \A b : OfChild(b) => OfChild(b)'
       /\ \A p \in Pids : Ours(p) => Ours(p)'
  BY <1>1, <1>11, Fewer
<1>13. ReapTypeOK'
  <2>0. \A h \in Hosts, p \in Pids : proc'[h][p].birth \in Nat
    BY <1>11 DEF Processes
  <2> DEFINE counted == {proc'[h][p].birth : h \in Hosts, p \in Added(ledger, ledger')}
  <2>2. counted \subseteq Nat
    BY <1>10, <2>0
  <2>3. writtenOff' = writtenOff \cup counted /\ writtenOff \subseteq Nat
    BY <1>1 DEF ReapTypeOK
  <2> HIDE DEF counted
  <2>1. writtenOff' \subseteq Nat
    BY <2>2, <2>3
  <2> QED
    BY <1>1, <1>7, <1>11, <2>1 DEF ReapTypeOK
<1>14. Unraced'
  <2>1. OfChild(0)'
    BY <1>1, <1>2 DEF OfChild
  <2>2. ~raced => \A i \in DOMAIN ledger'.lines : OfChild(ledger.lines[i].osCreatedAt)'
    BY <1>1, <1>5, <1>8, <1>9, <1>12, <2>1 DEF Unraced
  <2>3. (\A c \in reading : c.pid \in Pids) /\ doomed \subseteq Pids
    BY <1>1 DEF ReapTypeOK
  <2> QED
    BY <1>1, <1>12, <2>2, <2>3 DEF Unraced
<1>15. Phases' /\ Reaping' /\ Reaped'
  BY <1>1 DEF Phases, Reaping, Reaped
<1>16. ASSUME NEW h \in Hosts, NEW p \in Pids, Counted(h, p)'
       PROVE  /\ Counted(h, p) /\ proc'[h][p] = proc[h][p]
              /\ Keeps(ledger, ledger', p)
  <2>1. Nobody.birth \notin recorded
    BY <1>1, NobodyIs DEF Ledgered, ReapTypeOK
  <2>2. proc'[h][p] = proc[h][p]
    BY <1>1, <1>11, <1>16, <2>1 DEF Counted
  <2>3. p \notin Added(ledger, ledger')
    BY <1>1, <1>16 DEF Counted
  <2>4. Keeps(ledger, ledger', p)
    BY <1>9, <1>10, <2>3
  <2> QED
    BY <1>1, <1>16, <2>2, <2>4 DEF Counted
<1>17. Ledgered'
  <2>1. recorded' \subseteq 1..births'
    BY <1>1 DEF Ledgered
  <2> QED
    BY <1>1, <1>9, <1>16, <2>1, StaysLedgered
<1> QED
  BY <1>12, <1>13, <1>14, <1>15, <1>17 DEF ReapInv

---------------------------------------------------------------------------
LEMMA ReapNextInv == ASSUME ReapInv, [ReapNext]_reapVars PROVE ReapInv'
<1>1. CASE UNCHANGED reapVars
  <2>1. /\ UNCHANGED <<proc, births, reboots, at, phase, life, ledger, reading, doomed, toReap>>
        /\ UNCHANGED <<recorded, writtenOff, raced, strangers>>
    BY <1>1 DEF reapVars, osVars, serverVars, history
  <2>2. proc' \in [Hosts -> [Pids -> Processes]] /\ reboots' \in [Hosts -> Nat]
    BY <2>1 DEF ReapInv, ReapTypeOK
  <2> QED
    BY <2>1, <2>2, Ended DEF history
<1>2. CASE \E p \in Pids : Spawn(p) \/ SpawnMuted(p)
  BY <1>2, SpawnInv, SpawnMutedInv
<1>3. CASE \E child \in reading : Record(child)
  BY <1>3, RecordInv
<1>4. CASE \E h \in Hosts : Reboot(h) \/ ReapBoot(h)
  BY <1>4, RebootInv, ReapBootInv
<1>5. CASE \E h \in Hosts, p \in Pids : Exit(h, p) \/ \E image \in Images : Stranger(h, p, image)
  BY <1>5, ExitInv, StrangerInv
<1>6. CASE Shutdown \/ Stop \/ Serve
  BY <1>6, ShutdownInv, StopInv, ServeInv
<1>7. CASE \E record \in toReap : Leave(record) \/ Clear(record) \/ Reap(record) \/ Spare(record)
  BY <1>7, LeaveInv, ClearInv, ReapRecordInv, SpareInv
<1> QED
  BY <1>1, <1>2, <1>3, <1>4, <1>5, <1>6, <1>7 DEF ReapNext

\* The inductive invariant.
THEOREM ReapInvariant == ReapSpec => []ReapInv
BY ReapInitInv, ReapNextInv, PTL DEF ReapSpec

\* The ledger, the processes and the phases of boot keep their types, whatever
\* pids are handed out again and whenever the server or its machine goes down.
THEOREM ReapTypeCorrect == ReapSpec => []ReapTypeOK
<1>1. ReapInv => ReapTypeOK
  BY DEF ReapInv
<1> QED
  BY <1>1, ReapInvariant, PTL

\* I19: boot kills no process the server did not spawn, unless a pid changed
\* hands in one of the two windows (core:508, core:1800).
THEOREM StrangersAreSpared == ReapSpec => []StrangersSpared
<1>1. ReapInv => StrangersSpared
  BY DEF ReapInv, Unraced, StrangersSpared
<1> QED
  BY <1>1, ReapInvariant, PTL

\* I50 and D23: once a server serves, no recorded child of an earlier life runs
\* beside it, but for those written off and those whose pid was recorded again.
THEOREM OrphansAreReaped == ReapSpec => []OrphansReaped
<1>1. ReapInv => OrphansReaped
  <2> SUFFICES ASSUME ReapInv, phase = "serving", NEW p \in Pids,
                      proc[at][p].life \in 1..(life - 1),
                      proc[at][p].birth \in recorded \ writtenOff
               PROVE  RecordedAgain(p, proc[at][p].birth)
    BY DEF OrphansReaped
  <2>1. Orphan(p)
    BY DEF ReapInv, ReapTypeOK, Processes, Orphan, Counted
  <2> QED
    BY <2>1 DEF ReapInv, Reaped
<1> QED
  BY <1>1, ReapInvariant, PTL

---------------------------------------------------------------------------
(* HostEvents: the session's log and what ticks promise of it. *)

Kinds ==
  {"lost", "turn.started", "turn.ended", "usage", "budget_warning", "budget_exhausted",
   "server_restart", "checklist.item.completed"}
Envelopes == [kind : Kinds, of : Nat \cup Items, n : {0} \cup Burns]
Promises == [at : {"free", "reading", "appending", "done"}, seq : Nat]
EventsTypeOK ==
  /\ session \in {"live", "ended", "removed"}
  /\ log \in Seq(Envelopes) /\ durable \in Nat /\ durable <= Len(log)
  /\ turn \in Nat /\ failed \in BOOLEAN
  /\ claims \in [Items -> Promises] /\ told \subseteq Items

\* The log holds an item's completion at most once; while the session takes
\* appends, the item's promise stands from then on; the append a call waits for
\* is the completion; and what was answered ok is on disk.
Once(item) ==
  /\ \A i, j \in 1..Len(log) : log[i] = E!Completed(item) /\ log[j] = E!Completed(item) => i = j
  /\ session = "live" /\ (\E i \in 1..Len(log) : log[i] = E!Completed(item)) =>
       claims[item].at \in {"appending", "done"}
  /\ ~failed /\ claims[item].at = "appending" =>
       claims[item].seq \in 1..Len(log) /\ log[claims[item].seq] = E!Completed(item)
  /\ item \in told => \E i \in 1..durable : log[i] = E!Completed(item)
EventsInv ==
  /\ EventsTypeOK
  /\ failed => session # "live"
  /\ \A item \in Items : Once(item)

---------------------------------------------------------------------------
\* A set in some order.
LEMMA EventsInOrder ==
  ASSUME NEW S, IsFiniteSet(S)
  PROVE  E!SetToSeq(S) \in Seq(S)
<1> DEFINE n == Cardinality(S)
<1>1. n \in Nat /\ ExistsBijection(1..n, S)
  BY FS_CardinalityType
<1>2. PICK f \in Bijection(1..n, S) : TRUE
  BY <1>1 DEF ExistsBijection
<1>3. f \in [1..n -> S] /\ E!IsInjective(f)
  BY <1>2 DEF Bijection, Injection, IsInjective, E!IsInjective
<1>5. E!Cardinality(S) = n
  BY DEF E!Cardinality, Cardinality, E!IsFiniteSet, IsFiniteSet
<1>4. E!SetToSeq(S) \in [1..n -> S]
  BY <1>3, <1>5 DEF E!SetToSeq
<1> QED
  BY <1>1, <1>4

\* The first envelopes of a log.
LEMMA SpillIs ==
  ASSUME EventsTypeOK
  PROVE  /\ E!spill \in Seq(Envelopes) /\ Len(E!spill) = durable
         /\ \A i \in 1..durable : E!spill[i] = log[i]
<1>1. log \in Seq(Envelopes) /\ durable \in Nat /\ durable <= Len(log) /\ Len(log) \in Nat
  BY DEF EventsTypeOK
<1>2. PICK l \in Seq(Envelopes) : l = log
  BY <1>1
<1>3. PICK k \in Nat : k = durable
  BY <1>1
<1>4. k <= Len(l) /\ Len(l) \in Nat
  BY <1>1, <1>2, <1>3
<1>5. SubSeq(l, 1, k) \in Seq(Envelopes) /\ Len(SubSeq(l, 1, k)) = k
      /\ \A i \in 1..k : SubSeq(l, 1, k)[i] = l[i]
  BY <1>4
<1> QED
  BY <1>2, <1>3, <1>5 DEF E!spill

\* Completions differ from one another and from everything else.
LEMMA CompletedIs ==
  ASSUME NEW item
  PROVE  /\ E!Completed(item).kind = "checklist.item.completed" /\ E!Completed(item).of = item
         /\ item \in Items => E!Completed(item) \in Envelopes
BY DEF E!Completed, E!Envelope, Envelopes, Kinds

---------------------------------------------------------------------------
(* What the log's changes leave of what an item's calls rely on.            *)

\* Nothing the item depends on changes.
LEMMA OnceStays ==
  ASSUME NEW item \in Items, Once(item), UNCHANGED <<log, durable, failed>>,
         claims'[item] = claims[item], item \in told' => item \in told,
         session' = "live" => session = "live"
  PROVE  Once(item)'
BY CompletedIs DEF Once

\* An envelope that is no completion of it is appended.
LEMMA OnceOnAppend ==
  ASSUME EventsTypeOK, NEW item \in Items, Once(item), NEW e \in Envelopes, e # E!Completed(item),
         log' = Append(log, e), UNCHANGED <<durable, failed, session>>,
         claims'[item] = claims[item], item \in told' => item \in told
  PROVE  Once(item)'
<1>1. log \in Seq(Envelopes) /\ Len(log) \in Nat /\ durable \in Nat /\ durable <= Len(log)
  BY DEF EventsTypeOK
<1>2. /\ Len(log') = Len(log) + 1 /\ \A i \in 1..Len(log) : log'[i] = log[i]
      /\ log'[Len(log) + 1] = e
  BY <1>1
<1>3. PICK n \in Nat : n = Len(log)
  BY <1>1
<1>4. \A i \in 1..Len(log') : log'[i] = E!Completed(item) => i \in 1..Len(log) /\ log[i] = E!Completed(item)
  BY <1>2, <1>3
<1>5. E!Completed(item)' = E!Completed(item)
  BY DEF E!Completed, E!Envelope
<1> DEFINE c == E!Completed(item)
<1>6. \A i, j \in 1..Len(log') : log'[i] = c /\ log'[j] = c => i = j
  BY <1>4 DEF Once
<1>7. session' = "live" /\ (\E i \in 1..Len(log') : log'[i] = c) => claims'[item].at \in {"appending", "done"}
  BY <1>4 DEF Once
<1>8. ~failed' /\ claims'[item].at = "appending" =>
        claims'[item].seq \in 1..Len(log') /\ log'[claims'[item].seq] = c
  BY <1>2, <1>3 DEF Once
<1>9. item \in told' => \E i \in 1..durable' : log'[i] = c
  BY <1>1, <1>2 DEF Once
<1> QED
  BY <1>5, <1>6, <1>7, <1>8, <1>9 DEF Once

\* An append fails: its line is lost, the session ends and takes no more.
LEMMA OnceOnFailure ==
  ASSUME EventsTypeOK, NEW item \in Items, Once(item), durable < Len(log),
         log' = [log EXCEPT ![durable + 1] = E!Lost], durable' = durable + 1,
         failed' = TRUE, session' = "ended", UNCHANGED <<claims, told>>
  PROVE  Once(item)'
<1>1. log \in Seq(Envelopes) /\ Len(log) \in Nat /\ durable \in Nat
  BY DEF EventsTypeOK
<1>2. PICK n \in Nat, k \in Nat : n = Len(log) /\ k = durable
  BY <1>1
<1>3. /\ Len(log') = n /\ log'[k + 1] = E!Lost /\ k + 1 \in 1..n
      /\ \A i \in 1..n : i # k + 1 => log'[i] = log[i]
  BY <1>1, <1>2
<1> DEFINE c == E!Completed(item)
<1>4. c # E!Lost /\ E!Completed(item)' = c
  BY DEF E!Completed, E!Envelope, E!Lost
<1> HIDE DEF c
<1>5. \A i \in 1..n : log'[i] = c => log[i] = c
  BY <1>3, <1>4
<1>6. \A i, j \in 1..Len(log') : log'[i] = c /\ log'[j] = c => i = j
  BY <1>2, <1>3, <1>5 DEF Once, c
<1>7. item \in told' => \E i \in 1..durable' : log'[i] = c
  <2> SUFFICES ASSUME item \in told' PROVE \E i \in 1..durable' : log'[i] = c
    OBVIOUS
  <2>1. PICK i \in 1..k : log[i] = c
    BY <1>2 DEF Once, c
  <2>2. i \in 1..n /\ i # k + 1 /\ i \in 1..(k + 1)
    BY <1>2, <1>3
  <2> QED
    BY <1>2, <1>3, <2>1, <2>2
<1> QED
  BY <1>4, <1>6, <1>7 DEF Once, c

\* The server restarts: the log is what was on disk, closed by other envelopes.
LEMMA ReconciledIs ==
  ASSUME EventsTypeOK
  PROVE  /\ E!Reconciled(E!spill) \in Seq(Envelopes)
         /\ Len(E!Reconciled(E!spill)) > durable
         /\ \A i \in 1..durable : E!Reconciled(E!spill)[i] = log[i]
         /\ E!Reconciled(E!spill)[durable + 1] = E!Notice("server_restart")
         /\ \A i \in 1..Len(E!Reconciled(E!spill)) :
              i > durable => \/ E!Reconciled(E!spill)[i] = E!Notice("server_restart")
                             \/ E!Reconciled(E!spill)[i].kind = "turn.ended"
<1>1. PICK kept \in Seq(Envelopes) : kept = E!spill
  BY SpillIs
<1>2. Len(kept) = durable /\ (\A i \in 1..durable : kept[i] = log[i]) /\ durable \in Nat
  BY <1>1, SpillIs DEF EventsTypeOK
<1> DEFINE open == {i \in DOMAIN kept : /\ kept[i].kind = "turn.started"
                                      /\ ~E!Holds(kept, E!Ended(kept[i].of))}
           ends == {E!Ended(kept[i].of) : i \in open}
           f == [i \in open |-> E!Ended(kept[i].of)]
           others == {e \in Envelopes : e = E!Notice("server_restart") \/ e.kind = "turn.ended"}
<1>3. IsFiniteSet(ends)
  <2>1. open \subseteq 1..Len(kept) /\ Len(kept) \in Nat
    OBVIOUS
  <2>2. IsFiniteSet(1..Len(kept))
    <3>1. PICK k \in Int : k = Len(kept)
      BY <2>1
    <3>2. IsFiniteSet(1..k)
      BY FS_Interval
    <3> QED
      BY <3>1, <3>2
  <2>3. IsFiniteSet(open)
    BY <2>1, <2>2, FS_Subset
  <2>4. f \in [open -> ends] /\ \A t \in ends : \E p \in open : f[p] = t
    OBVIOUS
  <2> HIDE DEF open, ends, f
  <2>5. f \in Surjection(open, ends)
    BY <2>4, Fun_IsSurj
  <2> QED
    BY <2>3, <2>5, FS_Surjection
<1>4. ends \subseteq others
  <2> SUFFICES ASSUME NEW i \in open PROVE E!Ended(kept[i].of) \in others
    OBVIOUS
  <2>1. i \in 1..Len(kept)
    OBVIOUS
  <2>2. kept[i] \in Envelopes
    BY <2>1, ElementOfSeq
  <2>3. kept[i].of \in Nat \cup Items
    BY <2>2 DEF Envelopes
  <2>4. PICK o \in Nat \cup Items : o = kept[i].of
    BY <2>3
  <2>5. E!Ended(o) = [kind |-> "turn.ended", of |-> o, n |-> 0]
    BY DEF E!Ended, E!Envelope
  <2>6. E!Ended(o) \in others
    BY <2>5 DEF Envelopes, Kinds
  <2> QED
    BY <2>4, <2>6
<1>5. E!Notice("server_restart") \in others
  BY DEF E!Notice, E!Envelope, Envelopes, Kinds
<1> HIDE DEF others
<1>6. PICK tail \in Seq(ends) : tail = E!SetToSeq(ends)
  BY <1>3, EventsInOrder
<1>7. tail \in Seq(others)
  BY <1>4, <1>6
<1>8. PICK more \in Seq(others) : /\ more = <<E!Notice("server_restart")>> \o tail
                                 /\ Len(more) > 0 /\ more[1] = E!Notice("server_restart")
  <2>1. PICK o \in others : o = E!Notice("server_restart")
    BY <1>5
  <2>2. <<o>> \in Seq(others)
    OBVIOUS
  <2>3. <<o>> \o tail \in Seq(others) /\ Len(<<o>> \o tail) > 0 /\ (<<o>> \o tail)[1] = o
    BY <1>7, <2>2, ConcatProperties
  <2> QED
    BY <2>1, <2>3
<1>9. E!Reconciled(kept) = kept \o <<E!Notice("server_restart")>> \o tail
  BY <1>6 DEF E!Reconciled
<1>10. kept \in Seq(Envelopes) /\ <<E!Notice("server_restart")>> \in Seq(Envelopes) /\ tail \in Seq(Envelopes)
       /\ more \in Seq(Envelopes)
  <2>1. others \subseteq Envelopes
    BY DEF others
  <2> QED
    BY <1>5, <1>7, <2>1
<1>11. E!Reconciled(kept) = kept \o more
  BY <1>8, <1>9, <1>10, ConcatAssociative
<1>12. PICK new : new = kept \o more
  OBVIOUS
<1>13. /\ new \in Seq(Envelopes) /\ Len(new) = Len(kept) + Len(more)
       /\ Len(more) \in Nat /\ Len(kept) \in Nat
       /\ \A i \in 1..Len(new) : new[i] = IF i <= Len(kept) THEN kept[i] ELSE more[i - Len(kept)]
  BY <1>10, <1>12, ConcatProperties
<1>14. \A i \in 1..Len(new) :
         i > durable => new[i] = E!Notice("server_restart") \/ new[i].kind = "turn.ended"
  <2> SUFFICES ASSUME NEW i \in 1..Len(new), i > durable
               PROVE  new[i] = E!Notice("server_restart") \/ new[i].kind = "turn.ended"
    OBVIOUS
  <2>1. i - Len(kept) \in 1..Len(more) /\ new[i] = more[i - Len(kept)]
    BY <1>2, <1>13
  <2>2. new[i] \in others
    BY <2>1, ElementOfSeq
  <2> QED
    BY <2>2 DEF others
<1>15. /\ Len(new) > durable /\ \A i \in 1..durable : new[i] = log[i]
       /\ new[durable + 1] = E!Notice("server_restart")
  <2>1. PICK k \in Nat : k = durable
    BY <1>2
  <2>2. Len(kept) = k
    BY <1>2, <2>1
  <2>3. /\ Len(new) > k /\ \A i \in 1..k : i \in 1..Len(new) /\ new[i] = kept[i]
        /\ new[k + 1] = more[1]
    BY <1>8, <1>13, <2>2
  <2> QED
    BY <1>2, <1>8, <2>1, <2>3
<1> QED
  BY <1>1, <1>11, <1>12, <1>13, <1>14, <1>15

LEMMA OnceOnRestart ==
  ASSUME EventsTypeOK, NEW item \in Items, Once(item),
         log' = E!Reconciled(E!spill), durable' = Len(log'), session' = "ended",
         claims' = [i \in Items |-> E!Free], UNCHANGED told
  PROVE  Once(item)'
<1>1. durable \in Nat /\ durable <= Len(log) /\ Len(log) \in Nat
  BY DEF EventsTypeOK
<1>2. /\ log' \in Seq(Envelopes) /\ Len(log') >= durable /\ Len(log') \in Nat
      /\ \A i \in 1..durable : log'[i] = log[i]
      /\ \A i \in 1..Len(log') : log'[i].kind = "checklist.item.completed" => i <= durable
  <2>1. E!Notice("server_restart").kind = "server_restart"
    BY DEF E!Notice, E!Envelope
  <2>2. /\ log' \in Seq(Envelopes) /\ Len(log') > durable
        /\ \A i \in 1..durable : log'[i] = log[i]
        /\ \A i \in 1..Len(log') :
             i > durable => log'[i] = E!Notice("server_restart") \/ log'[i].kind = "turn.ended"
    BY ReconciledIs
  <2>3. PICK m \in Nat, k \in Nat : m = Len(log') /\ k = durable
    BY <1>1, <2>2
  <2> QED
    BY <2>1, <2>2, <2>3
<1>3. PICK c : c = E!Completed(item)
  OBVIOUS
<1>4. c.kind = "checklist.item.completed" /\ E!Completed(item)' = c
  BY <1>3 DEF E!Completed, E!Envelope
<1>5. \A i \in 1..Len(log') : log'[i] = c => i \in 1..durable /\ i \in 1..Len(log) /\ log[i] = c
  BY <1>1, <1>2, <1>4
<1>6. \A i, j \in 1..Len(log') : log'[i] = c /\ log'[j] = c => i = j
  BY <1>3, <1>5 DEF Once
<1>7. item \in told' => \E i \in 1..durable' : log'[i] = c
  <2> SUFFICES ASSUME item \in told' PROVE \E i \in 1..durable' : log'[i] = c
    OBVIOUS
  <2>1. PICK i \in 1..durable : log[i] = c
    BY <1>3 DEF Once
  <2> QED
    BY <1>1, <1>2, <2>1
<1>8. claims'[item].at = "free"
  BY DEF E!Free
<1> QED
  BY <1>4, <1>6, <1>7, <1>8 DEF Once

---------------------------------------------------------------------------
(* Steps.                                                                   *)

\* An envelope of another kind is appended.
LEMMA OthersAppend ==
  ASSUME EventsInv, NEW e \in Envelopes, e.kind # "checklist.item.completed",
         log' = Append(log, e), UNCHANGED <<durable, failed, session, claims, told>>, turn' \in Nat
  PROVE  EventsInv'
<1>1. ASSUME NEW item \in Items PROVE Once(item)'
  <2>1. e # E!Completed(item) /\ Once(item) /\ EventsTypeOK
    BY CompletedIs DEF EventsInv
  <2> QED
    BY <2>1, OnceOnAppend
<1>2. log \in Seq(Envelopes) /\ durable \in Nat /\ durable <= Len(log) /\ Len(log) \in Nat
  BY DEF EventsInv, EventsTypeOK
<1>3. log' \in Seq(Envelopes) /\ Len(log') = Len(log) + 1
  BY <1>2
<1>4. durable <= Len(log')
  BY <1>2, <1>3
<1>5. EventsTypeOK'
  BY <1>3, <1>4 DEF EventsInv, EventsTypeOK
<1> QED
  BY <1>1, <1>5 DEF EventsInv

\* The log stays.
LEMMA LogStays ==
  ASSUME EventsInv, UNCHANGED <<log, durable, failed, claims, told>>, turn' \in Nat,
         session' \in {session, "ended"}
  PROVE  EventsInv'
<1>1. ASSUME NEW item \in Items PROVE Once(item)'
  <2>1. Once(item) /\ (session' = "live" => session = "live")
    BY DEF EventsInv
  <2> QED
    BY <2>1, OnceStays
<1>2. EventsTypeOK'
  BY DEF EventsInv, EventsTypeOK
<1> QED
  BY <1>1, <1>2 DEF EventsInv

LEMMA FreeIs == E!Free \in Promises /\ E!Free.at = "free"
BY DEF E!Free, Promises

\* One more line of the queue is on disk.
LEMMA WrittenStep ==
  ASSUME EventsInv, E!Written
  PROVE  EventsInv'
<1>1. /\ durable < Len(log) /\ durable' = durable + 1
      /\ UNCHANGED <<session, log, failed, turn, claims, told>>
      /\ durable \in Nat /\ Len(log) \in Nat
  BY DEF EventsInv, EventsTypeOK, E!Written, E!tickVars
<1>2. EventsTypeOK'
  <2>1. durable' \in Nat /\ durable' <= Len(log)
    BY <1>1
  <2> QED
    BY <1>1, <2>1 DEF EventsInv, EventsTypeOK
<1>3. ASSUME NEW item \in Items PROVE Once(item)'
  <2>1. Once(item) /\ E!Completed(item)' = E!Completed(item)
    BY DEF EventsInv, E!Completed, E!Envelope
  <2>2. item \in told' => \E i \in 1..durable' : log'[i] = E!Completed(item)
    <3> SUFFICES ASSUME item \in told' PROVE \E i \in 1..durable' : log'[i] = E!Completed(item)
      OBVIOUS
    <3>1. PICK i \in 1..durable : log[i] = E!Completed(item)
      BY <1>1, <2>1 DEF Once
    <3>2. i \in 1..durable'
      BY <1>1
    <3> QED
      BY <1>1, <3>1, <3>2
  <2> QED
    BY <1>1, <2>1, <2>2 DEF Once
<1> QED
  BY <1>1, <1>2, <1>3 DEF EventsInv

LEMMA WriteFailsStep ==
  ASSUME EventsInv, E!WriteFails
  PROVE  EventsInv'
<1>1. /\ durable < Len(log) /\ durable' = durable + 1 /\ log' = [log EXCEPT ![durable + 1] = E!Lost]
      /\ failed' = TRUE /\ session' = "ended" /\ UNCHANGED <<turn, claims, told>>
      /\ durable \in Nat /\ Len(log) \in Nat /\ log \in Seq(Envelopes)
  BY DEF EventsInv, EventsTypeOK, E!WriteFails, E!tickVars
<1>2. E!Lost \in Envelopes
  BY DEF E!Lost, E!Envelope, Envelopes, Kinds
<1>3. log' \in Seq(Envelopes) /\ Len(log') = Len(log)
  BY <1>1, <1>2, ExceptSeq
<1>4. EventsTypeOK'
  <2>1. durable' \in Nat /\ durable' <= Len(log')
    BY <1>1, <1>3
  <2> QED
    BY <1>1, <1>3, <2>1 DEF EventsInv, EventsTypeOK
<1>5. ASSUME NEW item \in Items PROVE Once(item)'
  <2>1. Once(item) /\ EventsTypeOK
    BY DEF EventsInv
  <2> QED
    BY <1>1, <2>1, OnceOnFailure
<1> QED
  BY <1>1, <1>4, <1>5 DEF EventsInv

LEMMA RemoveSessionStep ==
  ASSUME EventsInv, E!RemoveSession
  PROVE  EventsInv'
<1>1. /\ session' = "removed" /\ log' = << >> /\ durable' = 0 /\ told' = {}
      /\ claims' = [i \in Items |-> E!Free] /\ UNCHANGED <<failed, turn>>
  BY DEF E!RemoveSession
<1>2. << >> \in Seq(Envelopes) /\ Len(<< >>) = 0
  OBVIOUS
<1>3. EventsTypeOK'
  BY <1>1, <1>2, FreeIs DEF EventsInv, EventsTypeOK
<1>4. ASSUME NEW item \in Items PROVE Once(item)'
  BY <1>1, <1>2, FreeIs DEF Once
<1> QED
  BY <1>1, <1>3, <1>4 DEF EventsInv

LEMMA RestartStep ==
  ASSUME EventsInv, E!Restart
  PROVE  EventsInv'
<1>1. /\ session' = "ended" /\ log' = E!Reconciled(E!spill) /\ durable' = Len(log') /\ failed' = FALSE
      /\ turn' = 0 /\ claims' = [i \in Items |-> E!Free] /\ UNCHANGED told
  BY DEF E!Restart
<1>2. log' \in Seq(Envelopes)
  BY <1>1, ReconciledIs DEF EventsInv
<1>3. EventsTypeOK'
  <2>1. durable' \in Nat /\ durable' <= Len(log')
    BY <1>1, <1>2
  <2> QED
    BY <1>1, <1>2, <2>1, FreeIs DEF EventsInv, EventsTypeOK
<1>4. ASSUME NEW item \in Items PROVE Once(item)'
  <2>1. Once(item) /\ EventsTypeOK
    BY DEF EventsInv
  <2> QED
    BY <1>1, <2>1, OnceOnRestart
<1> QED
  BY <1>1, <1>3, <1>4 DEF EventsInv

\* One item's promise changes, and what it is about is in order.
LEMMA PromiseStep ==
  ASSUME EventsInv, NEW item \in Items, NEW p \in Promises, claims' = [claims EXCEPT ![item] = p],
         told' \in {told, told \cup {item}}, UNCHANGED <<log, durable, failed, session, turn>>,
         Once(item)'
  PROVE  EventsInv'
<1>1. claims \in [Items -> Promises] /\ told \subseteq Items
  BY DEF EventsInv, EventsTypeOK
<1>2. EventsTypeOK'
  BY <1>1 DEF EventsInv, EventsTypeOK
<1>3. ASSUME NEW other \in Items, other # item PROVE Once(other)'
  <2>1. Once(other) /\ claims'[other] = claims[other] /\ (other \in told' => other \in told)
    BY <1>1, <1>3 DEF EventsInv
  <2> QED
    BY <2>1, OnceStays
<1> QED
  BY <1>2, <1>3 DEF EventsInv

LEMMA TickStep ==
  ASSUME EventsInv, NEW item \in Items, E!Tick(item)
  PROVE  EventsInv'
<1>1. /\ session = "live" /\ claims[item] = E!Free /\ UNCHANGED <<log, durable, failed, session, turn, told>>
      /\ claims' = [claims EXCEPT ![item] = [at |-> "reading", seq |-> 0]]
  BY DEF E!Tick, E!Claimed, E!logVars
<1>2. PICK p : p = [at |-> "reading", seq |-> 0]
  OBVIOUS
<1>3. p \in Promises /\ p.at = "reading" /\ claims'[item] = p
  BY <1>1, <1>2 DEF Promises, EventsInv, EventsTypeOK
<1>4. Once(item) /\ claims[item].at = "free" /\ E!Completed(item)' = E!Completed(item)
  BY <1>1, FreeIs DEF EventsInv, E!Completed, E!Envelope
<1>5. Once(item)'
  BY <1>1, <1>3, <1>4 DEF Once
<1> QED
  BY <1>1, <1>2, <1>3, <1>5, PromiseStep

LEMMA TickSettlesStep ==
  ASSUME EventsInv, NEW item \in Items, E!TickSettles(item)
  PROVE  EventsInv'
<1>1. /\ claims[item].at = "appending" /\ durable >= claims[item].seq
      /\ UNCHANGED <<log, durable, failed, session, turn>>
      /\ claims' = [claims EXCEPT ![item] = IF failed THEN E!Free ELSE [@ EXCEPT !.at = "done"]]
      /\ told' = IF failed THEN told ELSE told \cup {item}
  BY DEF E!TickSettles, E!Settled, E!logVars
<1>2. /\ claims \in [Items -> Promises] /\ claims[item] \in Promises /\ durable \in Nat
      /\ Once(item) /\ E!Completed(item)' = E!Completed(item) /\ (failed => session # "live")
  BY DEF EventsInv, EventsTypeOK, E!Completed, E!Envelope
<1>3. PICK p : p = IF failed THEN E!Free ELSE [claims[item] EXCEPT !.at = "done"]
  OBVIOUS
<1>4. p \in Promises /\ p.at = IF failed THEN "free" ELSE "done"
  BY <1>2, <1>3, FreeIs DEF Promises
<1>5. claims' = [claims EXCEPT ![item] = p] /\ claims'[item] = p
  BY <1>1, <1>2, <1>3
<1>6. item \in told' => \E i \in 1..durable' : log'[i] = E!Completed(item)
  <2>1. CASE failed
    BY <1>1, <1>2, <2>1 DEF Once
  <2>2. CASE ~failed
    <3>1. claims[item].seq \in 1..Len(log) /\ log[claims[item].seq] = E!Completed(item)
      BY <1>1, <1>2, <2>2 DEF Once
    <3>2. PICK n \in Nat : n = claims[item].seq
      BY <1>2 DEF Promises
    <3>3. n \in 1..durable
      BY <1>1, <1>2, <3>1, <3>2
    <3> QED
      BY <1>1, <3>1, <3>2, <3>3
  <2> QED
    BY <2>1, <2>2
<1>7. Once(item)'
  BY <1>1, <1>2, <1>4, <1>5, <1>6 DEF Once
<1>8. told' \in {told, told \cup {item}}
  BY <1>1
<1> QED
  BY <1>1, <1>4, <1>5, <1>7, <1>8, PromiseStep

LEMMA TickReadsStep ==
  ASSUME EventsInv, NEW item \in Items, E!TickReads(item)
  PROVE  EventsInv'
<1>1. claims[item].at = "reading" /\ UNCHANGED <<durable, failed, session, turn>>
  BY DEF E!TickReads
<1>2. /\ claims \in [Items -> Promises] /\ claims[item] \in Promises /\ durable \in Nat
      /\ Once(item) /\ E!Completed(item)' = E!Completed(item)
      /\ log \in Seq(Envelopes) /\ Len(log) \in Nat /\ durable <= Len(log)
  BY DEF EventsInv, EventsTypeOK, E!Completed, E!Envelope
<1>3. PICK read \in 0..durable :
        IF E!FindsCompleted(item, read)
        THEN /\ claims' = [claims EXCEPT ![item].at = "done"]
             /\ told' = told \cup {item}
             /\ UNCHANGED log
        ELSE \/ /\ E!Appends(E!Completed(item))
                /\ claims' = [claims EXCEPT ![item] = [at |-> "appending", seq |-> Len(log')]]
                /\ UNCHANGED told
             \/ /\ claims' = [claims EXCEPT ![item] = E!Free]
                /\ UNCHANGED <<log, told>>
  BY DEF E!TickReads
<1>4. CASE E!FindsCompleted(item, read)
  <2>1. PICK i \in 1..durable : log[i] = E!Completed(item)
    <3>1. E!spill \in Seq(Envelopes) /\ Len(E!spill) = durable /\ \A i \in 1..durable : E!spill[i] = log[i]
      BY SpillIs DEF EventsInv
    <3>2. PICK l \in Seq(Envelopes) : l = E!spill
      BY <3>1
    <3>3. PICK k \in Nat : k = read /\ k <= Len(l)
      BY <1>2, <3>1, <3>2
    <3>4. Len(SubSeq(l, 1, k)) = k /\ SubSeq(l, 1, k) \in Seq(Envelopes) /\ \A i \in 1..k : SubSeq(l, 1, k)[i] = l[i]
      BY <3>3
    <3>5. PICK i \in DOMAIN SubSeq(l, 1, k) : SubSeq(l, 1, k)[i] = E!Completed(item)
      BY <1>4, <3>2, <3>3 DEF E!FindsCompleted, E!Holds
    <3>6. i \in 1..k /\ i \in 1..durable
      BY <1>2, <3>1, <3>2, <3>3, <3>4, <3>5
    <3> QED
      BY <3>1, <3>2, <3>4, <3>5, <3>6
  <2>2. PICK p : p = [claims[item] EXCEPT !.at = "done"]
    OBVIOUS
  <2>3. p \in Promises /\ p.at = "done" /\ claims' = [claims EXCEPT ![item] = p] /\ claims'[item] = p
    BY <1>2, <1>3, <1>4, <2>2 DEF Promises
  <2>4. UNCHANGED log /\ told' = told \cup {item}
    BY <1>3, <1>4
  <2>5. Once(item)'
    BY <1>1, <1>2, <2>1, <2>3, <2>4 DEF Once
  <2> QED
    BY <1>1, <2>3, <2>4, <2>5, PromiseStep
<1>5. CASE claims' = [claims EXCEPT ![item] = E!Free] /\ UNCHANGED <<log, told>>
  <2>1. claims'[item].at = "free"
    BY <1>2, <1>5, FreeIs
  <2>2. Once(item)'
    BY <1>1, <1>2, <1>5, <2>1 DEF Once
  <2> QED
    BY <1>1, <1>5, <2>2, FreeIs, PromiseStep
<1>6. CASE /\ E!Appends(E!Completed(item))
           /\ claims' = [claims EXCEPT ![item] = [at |-> "appending", seq |-> Len(log')]]
           /\ UNCHANGED told
  <2>1. session = "live" /\ log' = Append(log, E!Completed(item))
    BY <1>6 DEF E!Appends
  <2>2. PICK c \in Envelopes : c = E!Completed(item)
    BY CompletedIs
  <2>3. PICK n \in Nat : n = Len(log)
    BY <1>2
  <2>4. /\ log' \in Seq(Envelopes) /\ Len(log') = n + 1 /\ log'[n + 1] = c
        /\ \A i \in 1..n : log'[i] = log[i]
    BY <1>2, <2>1, <2>2, <2>3
  <2>5. \A i \in 1..n : log[i] # c
    BY <1>1, <1>2, <2>1, <2>2, <2>3 DEF Once
  <2>6. PICK p : p = [at |-> "appending", seq |-> n + 1]
    OBVIOUS
  <2>7. p \in Promises /\ p.at = "appending" /\ p.seq = n + 1 /\ claims'[item] = p
        /\ claims' = [claims EXCEPT ![item] = p]
    BY <1>2, <1>6, <2>4, <2>6 DEF Promises
  <2>8. Once(item)'
    <3>1. \A i \in 1..(n + 1) : log'[i] = c => i = n + 1
      BY <2>4, <2>5
    <3>2. \A i, j \in 1..Len(log') : log'[i] = c /\ log'[j] = c => i = j
      BY <2>4, <3>1
    <3>3. n + 1 \in 1..Len(log')
      BY <2>4
    <3>4. item \in told' => \E i \in 1..durable' : log'[i] = c
      <4> SUFFICES ASSUME item \in told' PROVE \E i \in 1..durable' : log'[i] = c
        OBVIOUS
      <4>1. PICK i \in 1..durable : log[i] = c
        BY <1>2, <1>6, <2>2 DEF Once
      <4>2. i \in 1..n
        BY <1>2, <2>3
      <4> QED
        BY <1>1, <2>4, <4>1, <4>2
    <3> QED
      BY <1>2, <2>2, <2>4, <2>7, <3>2, <3>3, <3>4 DEF Once
  <2>9. ASSUME NEW other \in Items, other # item PROVE Once(other)'
    <3>1. c # E!Completed(other)
      BY <2>2, <2>9, CompletedIs
    <3>2. claims'[other] = claims[other] /\ (other \in told' => other \in told)
      BY <1>2, <1>6, <2>9
    <3>3. Once(other) /\ EventsTypeOK
      BY DEF EventsInv
    <3> QED
      BY <1>1, <2>1, <2>2, <3>1, <3>2, <3>3, OnceOnAppend
  <2>10. EventsTypeOK'
    <3>1. durable <= Len(log')
      BY <1>2, <2>3, <2>4
    <3> QED
      BY <1>1, <1>2, <1>6, <2>4, <2>7, <3>1 DEF EventsInv, EventsTypeOK
  <2> QED
    BY <1>1, <2>8, <2>9, <2>10 DEF EventsInv
<1> QED
  BY <1>3, <1>4, <1>5, <1>6

LEMMA EventsStep ==
  ASSUME EventsInv, [E!Next]_E!vars
  PROVE  EventsInv'
<1>1. turn \in Nat /\ session \in {"live", "ended", "removed"} /\ Len(log) \in Nat
  BY DEF EventsInv, EventsTypeOK
<1>2. CASE E!TurnStarts
  <2>1. /\ log' = Append(log, E!Started(turn')) /\ turn' = Len(log) + 1
        /\ UNCHANGED <<durable, failed, session, claims, told>>
    BY <1>2 DEF E!TurnStarts, E!tickVars
  <2>2. PICK t \in Nat : t = turn'
    BY <1>1, <2>1
  <2>3. E!Started(t) \in Envelopes /\ E!Started(t).kind # "checklist.item.completed"
    BY DEF E!Started, E!Envelope, Envelopes, Kinds
  <2> QED
    BY <2>1, <2>2, <2>3, OthersAppend
<1>7. CASE E!TurnEnds
  <2>1. /\ log' = Append(log, E!Ended(turn)) /\ turn' = 0
        /\ UNCHANGED <<durable, failed, session, claims, told>>
    BY <1>7 DEF E!TurnEnds, E!tickVars
  <2>2. PICK t \in Nat : t = turn
    BY <1>1
  <2>3. E!Ended(t) \in Envelopes /\ E!Ended(t).kind # "checklist.item.completed"
    BY DEF E!Ended, E!Envelope, Envelopes, Kinds
  <2> QED
    BY <2>1, <2>2, <2>3, OthersAppend
<1>8. ASSUME NEW n \in Burns, E!UsageReported(n) PROVE EventsInv'
  <2>1. /\ log' = Append(log, E!Usage(turn, n)) /\ turn' = turn
        /\ UNCHANGED <<durable, failed, session, claims, told>>
    BY <1>8 DEF E!UsageReported, E!tickVars
  <2>2. PICK t \in Nat : t = turn
    BY <1>1
  <2>3. E!Usage(t, n) \in Envelopes /\ E!Usage(t, n).kind # "checklist.item.completed"
    BY DEF E!Usage, E!Envelope, Envelopes, Kinds
  <2> QED
    BY <1>1, <2>1, <2>2, <2>3, OthersAppend
<1>3. CASE E!CheckWarns \/ E!CheckExhausts \/ E!WarningSettles
  <2>1. UNCHANGED <<durable, failed, session, claims, told, turn>>
    BY <1>3 DEF E!CheckWarns, E!CheckExhausts, E!WarningSettles, E!tickVars
  <2>2. CASE UNCHANGED log
    BY <1>1, <2>1, <2>2, LogStays
  <2>3. CASE \E code \in {"budget_warning", "budget_exhausted"} : log' = Append(log, E!Notice(code))
    <3>1. PICK code \in {"budget_warning", "budget_exhausted"} : log' = Append(log, E!Notice(code))
      BY <2>3
    <3>2. E!Notice(code) \in Envelopes /\ E!Notice(code).kind # "checklist.item.completed"
      BY DEF E!Notice, E!Envelope, Envelopes, Kinds
    <3> QED
      BY <1>1, <2>1, <3>1, <3>2, OthersAppend
  <2> QED
    BY <1>3, <2>2, <2>3 DEF E!CheckWarns, E!CheckExhausts, E!WarningSettles, E!Appends
<1>4. CASE \/ E!End \/ E!CheckBegins \/ E!CheckFindsNothing \/ E!CheckRefused \/ E!ExhaustionSettles
           \/ UNCHANGED E!vars
  <2>1. /\ UNCHANGED <<log, durable, failed, claims, told, turn>> /\ session' \in {session, "ended"}
    BY <1>4 DEF E!End, E!CheckBegins, E!CheckFindsNothing, E!CheckRefused, E!ExhaustionSettles,
                E!vars, E!logVars, E!tickVars
  <2> QED
    BY <1>1, <2>1, LogStays
<1>5. CASE E!Written \/ E!WriteFails \/ E!RemoveSession \/ E!Restart
  BY <1>5, WrittenStep, WriteFailsStep, RemoveSessionStep, RestartStep
<1>6. ASSUME NEW item \in Items, E!Tick(item) \/ E!TickReads(item) \/ E!TickSettles(item)
      PROVE  EventsInv'
  BY <1>6, TickStep, TickReadsStep, TickSettlesStep
<1> QED
  BY <1>2, <1>3, <1>4, <1>5, <1>6, <1>7, <1>8 DEF E!Next

LEMMA EventsBegin == E!Init => EventsInv
<1> SUFFICES ASSUME E!Init PROVE EventsInv
  OBVIOUS
<1>1. /\ session = "live" /\ log = << >> /\ durable = 0 /\ failed = FALSE /\ turn = 0
      /\ claims = [i \in Items |-> E!Free] /\ told = {}
  BY DEF E!Init
<1>2. << >> \in Seq(Envelopes) /\ Len(<< >>) = 0
  OBVIOUS
<1>3. EventsTypeOK
  <2>1. claims \in [Items -> Promises]
    BY <1>1, FreeIs
  <2>2. log \in Seq(Envelopes) /\ durable \in Nat /\ durable <= Len(log) /\ turn \in Nat
    BY <1>1, <1>2
  <2> QED
    BY <1>1, <2>1, <2>2 DEF EventsTypeOK
<1>4. ASSUME NEW item \in Items PROVE Once(item)
  BY <1>1, <1>2, FreeIs DEF Once
<1> QED
  BY <1>1, <1>3, <1>4 DEF EventsInv

\* However many calls tick an item, whatever is refused or fails under them and
\* whenever the server goes down, the log holds its completion once at most,
\* and on disk when one of them was answered ok (tickChecklistItem's promise).
THEOREM ItemsAreCompletedOnce == E!Spec => []ItemCompletedOnce
<1>1. EventsInv => ItemCompletedOnce
  <2> SUFFICES ASSUME EventsInv PROVE ItemCompletedOnce
    OBVIOUS
  <2>1. log \in Seq(Envelopes) /\ DOMAIN log = 1..Len(log)
    BY DEF EventsInv, EventsTypeOK
  <2>2. /\ E!spill \in Seq(Envelopes) /\ DOMAIN E!spill = 1..durable
        /\ \A i \in 1..durable : E!spill[i] = log[i]
    BY SpillIs DEF EventsInv
  <2>3. ASSUME NEW item \in Items
        PROVE  /\ \A i, j \in DOMAIN log : (log[i] = E!Completed(item) /\ log[j] = log[i]) => i = j
               /\ item \in told => E!Holds(E!spill, E!Completed(item))
    BY <2>1, <2>2 DEF EventsInv, Once, E!Holds
  <2> QED
    BY <2>3 DEF ItemCompletedOnce, E!ItemCompletedOnce
<1> QED
  BY <1>1, EventsBegin, EventsStep, PTL DEF E!Spec

---------------------------------------------------------------------------
(* HostEvents: what its folds compute.                                      *)

\* A set of numbers has a least.
LEMMA LeastOf ==
  ASSUME NEW S, S \subseteq Nat, S # {}
  PROVE  \E b \in S : \A c \in S : b <= c
<1>1. PICK b \in S : \A c \in S : ~(<<c, b>> \in OpToRel(<, Nat))
  BY NatLessThanWellFounded, WFMin
<1>2. \A c \in S : ~(c < b)
  BY <1>1 DEF OpToRel
<1> QED
  BY <1>2

\* The last of the first n numbers, and of some of them.
LEMMA LastOf ==
  ASSUME NEW n \in Nat, NEW S \in SUBSET (1..n), S # {}
  PROVE  E!Max(S) \in S /\ \A i \in S : i <= E!Max(S)
<1>1. E!Max(S) = Max(S)
  BY DEF E!Max, Max
<1> QED
  BY <1>1, MaxIsLast

\* What a FoldLeft computes, of every set of places: the burn of some
\* envelopes, or the bill of the first lines on disk.
Folds(what, total, e) == IF what = "burn" THEN E!Counts(total, e) ELSE E!Billed(total, e)
FoldsFrom(what) == IF what = "burn" THEN 0 ELSE E!Bill
Tally(what, q, n, h) ==
  h = [s \in SUBSET (1..n) |->
         IF s = {} THEN FoldsFrom(what) ELSE Folds(what, h[s \ {E!Max(s)}], q[E!Max(s)])]
LEMMA TallyGrows ==
  ASSUME NEW what, NEW q, NEW n \in Nat, NEW h, Tally(what, q, n, h)
  PROVE  \E g : Tally(what, q, n + 1, g)
<1> DEFINE g == [s \in SUBSET (1..(n + 1)) |->
                   IF n + 1 \in s THEN Folds(what, h[s \ {n + 1}], q[n + 1]) ELSE h[s]]
<1>1. /\ \A s \in SUBSET (1..n) : s # {} => h[s] = Folds(what, h[s \ {E!Max(s)}], q[E!Max(s)])
      /\ h[{}] = FoldsFrom(what)
  BY DEF Tally
<1>2. ASSUME NEW s \in SUBSET (1..(n + 1))
      PROVE  g[s] = IF s = {} THEN FoldsFrom(what) ELSE Folds(what, g[s \ {E!Max(s)}], q[E!Max(s)])
  <2>1. CASE s = {}
    BY <2>1, <1>1
  <2>2. CASE n + 1 \in s
    <3>1. E!Max(s) \in s /\ \A i \in s : i <= E!Max(s)
      BY <2>2, LastOf
    <3>2. E!Max(s) = n + 1
      <4>1. PICK m \in 1..(n + 1) : m = E!Max(s)
        BY <3>1
      <4>2. n + 1 <= m
        BY <3>1, <4>1, <2>2
      <4> QED
        BY <4>1, <4>2
    <3>3. s \ {n + 1} \in SUBSET (1..(n + 1)) /\ n + 1 \notin s \ {n + 1}
      OBVIOUS
    <3>4. g[s \ {n + 1}] = h[s \ {n + 1}]
      <4>1. PICK r : r = s \ {n + 1}
        OBVIOUS
      <4>2. g[r] = h[r]
        BY <3>3, <4>1
      <4> QED
        BY <4>1, <4>2
    <3> QED
      BY <2>2, <3>2, <3>4
  <2>3. CASE s # {} /\ n + 1 \notin s
    <3>1. s \in SUBSET (1..n)
      BY <2>3
    <3>2. E!Max(s) \in s
      BY <2>3, <3>1, LastOf
    <3>3. s \ {E!Max(s)} \in SUBSET (1..(n + 1)) /\ n + 1 \notin s \ {E!Max(s)}
      BY <2>3
    <3>4. g[s \ {E!Max(s)}] = h[s \ {E!Max(s)}] /\ g[s] = h[s]
      BY <3>3, <2>3
    <3> QED
      BY <2>3, <3>1, <3>4, <1>1
  <2> QED
    BY <2>1, <2>2, <2>3
<1>3. g = [s \in SUBSET (1..(n + 1)) |-> g[s]]
  OBVIOUS
<1> HIDE DEF g
<1>4. g = [s \in SUBSET (1..(n + 1)) |->
            IF s = {} THEN FoldsFrom(what) ELSE Folds(what, g[s \ {E!Max(s)}], q[E!Max(s)])]
  BY <1>2, <1>3
<1>5. Tally(what, q, n + 1, g)
  BY <1>4 DEF Tally
<1> QED
  BY <1>5
LEMMA TallyIs ==
  ASSUME NEW what, NEW q, NEW n \in Nat
  PROVE  \E h : Tally(what, q, n, h)
<1> DEFINE bad == {m \in Nat : ~\E h : Tally(what, q, m, h)}
<1> SUFFICES ASSUME bad # {} PROVE FALSE
  OBVIOUS
<1>1. PICK b \in bad : \A c \in bad : b <= c
  <2>1. bad \subseteq Nat
    OBVIOUS
  <2> HIDE DEF bad
  <2> QED
    BY <2>1, LeastOf
<1>2. b # 0
  <2> DEFINE h == [s \in SUBSET (1..0) |-> FoldsFrom(what)]
  <2>1. \A s \in SUBSET (1..0) : s = {}
    OBVIOUS
  <2>2. h = [s \in SUBSET (1..0) |->
               IF s = {} THEN FoldsFrom(what) ELSE Folds(what, h[s \ {E!Max(s)}], q[E!Max(s)])]
    BY <2>1
  <2> HIDE DEF h
  <2>3. Tally(what, q, 0, h)
    BY <2>2 DEF Tally
  <2> QED
    BY <2>3
<1>3. PICK m \in Nat : b = m + 1
  <2>1. b \in Nat /\ b - 1 \in Nat /\ b = (b - 1) + 1
    BY <1>2
  <2> QED
    BY <2>1
<1>4. m \notin bad
  BY <1>1, <1>3
<1>5. PICK h : Tally(what, q, m, h)
  BY <1>4
<1> QED
  BY <1>1, <1>3, <1>5, TallyGrows

\* So it is counted up, place by place.
FoldsUp(what, q, n, total, g) ==
  /\ g[0] = FoldsFrom(what) /\ g[n] = total
  /\ \A i \in 1..n : g[i] = Folds(what, g[i - 1], q[i])
LEMMA TallyCounts ==
  ASSUME NEW what, NEW q, NEW n \in Nat, NEW h, Tally(what, q, n, h)
  PROVE  \E g : FoldsUp(what, q, n, h[1..n], g)
<1> DEFINE g == [i \in 0..n |-> h[1..i]]
<1>1. g[0] = FoldsFrom(what)
  <2>1. 1..0 = {} /\ {} \in SUBSET (1..n) /\ 0 \in 0..n
    OBVIOUS
  <2> QED
    BY <2>1 DEF Tally
<1>2. ASSUME NEW i \in 1..n PROVE g[i] = Folds(what, g[i - 1], q[i])
  <2>1. 1..i \in SUBSET (1..n) /\ 1..i # {} /\ i \in 1..i /\ (1..i) \ {i} = 1..(i - 1) /\ i \in Nat
    OBVIOUS
  <2>2. E!Max(1..i) \in 1..i /\ \A j \in 1..i : j <= E!Max(1..i)
    BY <2>1, LastOf
  <2>3. E!Max(1..i) = i
    BY <2>1, <2>2
  <2>4. h[1..i] = Folds(what, h[1..(i - 1)], q[i])
    BY <2>1, <2>3 DEF Tally
  <2>5. i \in 0..n /\ i - 1 \in 0..n
    OBVIOUS
  <2> QED
    BY <2>4, <2>5
<1>3. g[n] = h[1..n]
  OBVIOUS
<1> HIDE DEF g
<1>4. FoldsUp(what, q, n, h[1..n], g)
  BY <1>1, <1>2, <1>3 DEF FoldsUp
<1> QED
  BY <1>4

LEMMA BurnCounts ==
  ASSUME NEW q \in Seq(Envelopes), NEW n \in Nat, n = Len(q)
  PROVE  \E g : /\ g[0] = 0 /\ \A i \in 1..n : g[i] = E!Counts(g[i - 1], q[i])
                /\ E!Burn(q) = g[n]
<1> DEFINE Is(h) == h = [s \in SUBSET (1..n) |->
                          IF s = {} THEN 0 ELSE E!Counts(h[s \ {E!Max(s)}], q[E!Max(s)])]
<1>1. DOMAIN q = 1..n
  OBVIOUS
<1>2. PICK h : h = CHOOSE f : Is(f)
  OBVIOUS
<1>3. \A f : Is(f) <=> Tally("burn", q, n, f)
  BY DEF Tally, Folds, FoldsFrom
<1>4. Tally("burn", q, n, h)
  <2> HIDE DEF Is
  <2> QED
    BY <1>2, <1>3, TallyIs
<1>5. E!Burn(q) = h[1..n]
  BY <1>1, <1>2 DEF E!Burn, E!FoldLeft, E!MapThenFoldSet
<1>6. PICK g : FoldsUp("burn", q, n, h[1..n], g)
  BY <1>4, TallyCounts
<1> QED
  BY <1>5, <1>6 DEF FoldsUp, Folds, FoldsFrom

LEMMA BillCounts ==
  ASSUME NEW q, NEW n \in Nat, DOMAIN q = 1..n
  PROVE  \E g : /\ g[0] = E!Bill /\ \A i \in 1..n : g[i] = E!Billed(g[i - 1], q[i])
                /\ E!FoldLeft(E!Billed, E!Bill, q) = g[n]
<1> DEFINE Is(h) == h = [s \in SUBSET (1..n) |->
                          IF s = {} THEN E!Bill ELSE E!Billed(h[s \ {E!Max(s)}], q[E!Max(s)])]
<1>1. PICK h : h = CHOOSE f : Is(f)
  OBVIOUS
<1>2. \A f : Is(f) <=> Tally("bill", q, n, f)
  BY DEF Tally, Folds, FoldsFrom
<1>3. Tally("bill", q, n, h)
  <2> HIDE DEF Is
  <2> QED
    BY <1>1, <1>2, TallyIs
<1>4. E!FoldLeft(E!Billed, E!Bill, q) = h[1..n]
  BY <1>1 DEF E!FoldLeft, E!MapThenFoldSet
<1> HIDE DEF Is
<1>5. PICK g : FoldsUp("bill", q, n, h[1..n], g)
  BY <1>3, TallyCounts
<1> QED
  BY <1>4, <1>5 DEF FoldsUp, Folds, FoldsFrom

LEMMA PayrollCounts ==
  ASSUME NEW n \in Nat, n = durable
  PROVE  \E g : /\ g[0] = E!Bill /\ \A i \in 1..n : g[i] = E!Billed(g[i - 1], i)
                /\ E!foldPayroll = IF endedAt = 0 THEN g[n]
                                   ELSE [g[n] EXCEPT !.idle = @ + E!Since(g[n], endedAt)]
<1>1. PICK q : q = [i \in 1..n |-> i]
  OBVIOUS
<1>2. DOMAIN q = 1..n /\ \A i \in 1..n : q[i] = i
  BY <1>1
<1>3. PICK g : /\ g[0] = E!Bill /\ \A i \in 1..n : g[i] = E!Billed(g[i - 1], q[i])
               /\ E!FoldLeft(E!Billed, E!Bill, q) = g[n]
  BY <1>2, BillCounts
<1>4. E!foldPayroll = IF endedAt = 0 THEN g[n] ELSE [g[n] EXCEPT !.idle = @ + E!Since(g[n], endedAt)]
  BY <1>1, <1>3 DEF E!foldPayroll
<1>5. \A i \in 1..n : g[i] = E!Billed(g[i - 1], i)
  BY <1>2, <1>3
<1> QED
  BY <1>3, <1>4, <1>5

\* A longer log has burnt no less.
LEMMA BurnGrows ==
  ASSUME NEW p \in Seq(Envelopes), NEW q \in Seq(Envelopes), Len(p) <= Len(q),
         \A i \in 1..Len(p) : p[i] = q[i]
  PROVE  E!Burn(p) \in Nat /\ E!Burn(q) \in Nat /\ E!Burn(p) <= E!Burn(q)
<1>1. PICK m \in Nat, n \in Nat : m = Len(p) /\ n = Len(q) /\ m <= n
  OBVIOUS
<1>2. PICK f : /\ f[0] = 0 /\ \A i \in 1..m : f[i] = E!Counts(f[i - 1], p[i])
               /\ E!Burn(p) = f[m]
  BY <1>1, BurnCounts
<1>3. PICK g : /\ g[0] = 0 /\ \A i \in 1..n : g[i] = E!Counts(g[i - 1], q[i])
               /\ E!Burn(q) = g[n]
  BY <1>1, BurnCounts
<1>4. \A i \in 1..n : q[i] \in Envelopes
  BY <1>1
<1>5. ASSUME NEW x \in Nat, NEW e \in Envelopes
      PROVE  E!Counts(x, e) \in Nat /\ x <= E!Counts(x, e)
  <2>1. e.n \in {0} \cup Burns
    BY DEF Envelopes
  <2>2. PICK y \in Nat : y = e.n
    BY <2>1, EventsAssumption
  <2> QED
    BY <2>2 DEF E!Counts
<1> DEFINE Good(i) == /\ g[i] \in Nat
                      /\ i <= m => f[i] = g[i]
                      /\ i >= m => g[m] <= g[i]
           bad == {i \in 0..n : ~Good(i)}
<1>6. bad = {}
  <2> SUFFICES ASSUME bad # {} PROVE FALSE
    OBVIOUS
  <2>1. PICK b \in bad : \A c \in bad : b <= c
    <3>1. bad \subseteq Nat
      BY <1>1
    <3> HIDE DEF bad
    <3> QED
      BY <3>1, LeastOf
  <2>2. b \in 0..n /\ ~Good(b)
    OBVIOUS
  <2>3. CASE b = 0
    BY <2>2, <2>3, <1>1, <1>2, <1>3
  <2>4. CASE b # 0
    <3>1. PICK a \in 0..(n - 1) : b = a + 1
      <4>1. b - 1 \in 0..(n - 1) /\ b = (b - 1) + 1
        BY <2>2, <2>4, <1>1
      <4> QED
        BY <4>1
    <3>2. Good(a)
      <4>1. a \in 0..n /\ ~(b <= a)
        BY <3>1, <1>1
      <4> QED
        BY <4>1, <2>1
    <3>3. b \in 1..n /\ b - 1 = a /\ a \in Nat
      BY <3>1, <1>1
    <3>4. g[b] = E!Counts(g[a], q[b])
      BY <3>3, <1>3
    <3>5. g[b] \in Nat /\ g[a] \in Nat /\ g[a] <= g[b]
      BY <3>2, <3>3, <3>4, <1>4, <1>5
    <3>6. b <= m => f[b] = g[b]
      <4> SUFFICES ASSUME b <= m PROVE f[b] = g[b]
        OBVIOUS
      <4>1. b \in 1..m /\ a <= m /\ p[b] = q[b]
        BY <3>1, <3>3, <1>1
      <4>2. f[b] = E!Counts(f[a], p[b]) /\ f[a] = g[a]
        BY <4>1, <3>2, <3>3, <1>2
      <4> QED
        BY <4>1, <4>2, <3>4
    <3>7. b >= m => g[m] <= g[b]
      <4>1. CASE b = m
        BY <4>1, <3>5
      <4>2. CASE a >= m
        <5>1. g[m] <= g[a] /\ g[m] \in Nat
          <6>1. m \in 0..n /\ m <= b /\ m # b
            BY <4>2, <3>1, <1>1
          <6>2. m \notin bad
            BY <6>1, <2>1, <3>3, <1>1
          <6>3. Good(m)
            BY <6>1, <6>2
          <6> QED
            BY <6>3, <3>2, <4>2
        <5> QED
          BY <5>1, <3>5
      <4> QED
        BY <4>1, <4>2, <3>1, <1>1
    <3> QED
      BY <2>2, <3>5, <3>6, <3>7
  <2> QED
    BY <2>3, <2>4
<1>7. Good(m) /\ Good(n)
  <2>1. m \in 0..n /\ n \in 0..n
    BY <1>1
  <2> QED
    BY <2>1, <1>6
<1> QED
  BY <1>1, <1>2, <1>3, <1>7

---------------------------------------------------------------------------
(* The two notices of the budget.                                           *)
Codes == {"budget_warning", "budget_exhausted"}
Line(code) == IF code = "budget_warning" THEN WarnLine ELSE TokenBudget
BurntTo(d) == E!Burn(SubSeq(log, 1, d))
CheckPoints == [at : {"idle", "flushing", "warning", "exhausting"}, seq : Nat, burn : Nat]
Unsaid(code, n) == \A i \in 1..n : log[i] # E!Notice(code)

\* A notice stands behind a burn that had reached its line on disk, and behind
\* no notice it would repeat or contradict.  While a check flushes, no notice is
\* behind the place it flushes to, so that it will find them all; while it waits
\* for its warning, there is no exhaustion, and what it counted was on disk.
Crossed(line, upto) == \E d \in 0..durable : d <= upto /\ BurntTo(d) >= line
Timely(code) ==
  \A i \in 1..Len(log) :
    log[i] = E!Notice(code) =>
      Crossed(Line(code), i - 1) /\ Unsaid(code, i - 1) /\ Unsaid("budget_exhausted", i - 1)
Flushing ==
  check.at = "flushing" =>
    \A i \in 1..Len(log), code \in Codes : log[i] = E!Notice(code) => i <= check.seq
Warning ==
  check.at = "warning" =>
    /\ Unsaid("budget_exhausted", Len(log))
    /\ \E d \in 0..durable : check.burn = BurntTo(d)
NoticesInv ==
  /\ check \in CheckPoints
  /\ \A code \in Codes : Timely(code)
  /\ Flushing /\ Warning

\* The lines on disk stay, and no notice is added.
DiskStays == durable' >= durable /\ \A i \in 1..durable : log'[i] = log[i]
NothingNoticed ==
  \A i \in 1..Len(log'), code \in Codes :
    log'[i] = E!Notice(code) => i <= Len(log) /\ log[i] = E!Notice(code)

LEMMA NoticeIs ==
  /\ E!Notice("budget_warning") # E!Notice("budget_exhausted")
  /\ \A code \in Codes : /\ E!Notice(code) \in Envelopes /\ E!Notice(code).kind = code
                         /\ E!Notice(code)' = E!Notice(code)
<1>1. \A code \in Codes : E!Notice(code) = [kind |-> code, of |-> 0, n |-> 0]
  BY DEF E!Notice, E!Envelope
<1>2. \A code \in Codes : E!Notice(code) \in Envelopes /\ E!Notice(code).kind = code
  BY <1>1 DEF Codes, Envelopes, Kinds
<1>3. E!Notice("budget_warning") # E!Notice("budget_exhausted")
  BY <1>2 DEF Codes
<1> QED
  BY <1>2, <1>3

\* The first lines of a log.
LEMMA FirstLines ==
  ASSUME NEW S, NEW l \in Seq(S), NEW d \in Nat, d <= Len(l)
  PROVE  /\ SubSeq(l, 1, d) \in Seq(S) /\ Len(SubSeq(l, 1, d)) = d
         /\ \A j \in 1..d : SubSeq(l, 1, d)[j] = l[j]
OBVIOUS

LEMMA EventsFacts ==
  ASSUME EventsTypeOK
  PROVE  /\ log \in Seq(Envelopes) /\ Len(log) \in Nat /\ durable \in Nat /\ durable <= Len(log)
         /\ DOMAIN log = 1..Len(log)
BY DEF EventsTypeOK

\* What was burnt by the lines on disk.
LEMMA DiskBurns ==
  ASSUME EventsTypeOK, EventsTypeOK', DiskStays, NEW d \in 0..durable
  PROVE  d \in 0..durable' /\ BurntTo(d)' = BurntTo(d)
<1>1. PICK l \in Seq(Envelopes), m \in Seq(Envelopes), k \in Nat :
        l = log /\ m = log' /\ k = durable /\ k <= Len(l) /\ k <= Len(m) /\ k <= durable' /\ durable' \in Nat
        /\ \A i \in 1..k : m[i] = l[i]
  BY DEF EventsTypeOK, DiskStays
<1>2. d \in Nat /\ d <= Len(l) /\ d <= Len(m) /\ d \in 0..k /\ d \in 0..durable'
  BY <1>1
<1>3. SubSeq(l, 1, d) = SubSeq(m, 1, d)
  BY <1>1, <1>2
<1> QED
  BY <1>1, <1>2, <1>3 DEF BurntTo

LEMMA TimelyStays ==
  ASSUME EventsTypeOK, EventsTypeOK', DiskStays, NothingNoticed, NEW code \in Codes, Timely(code)
  PROVE  Timely(code)'
<1> SUFFICES ASSUME NEW i \in 1..Len(log'), log'[i] = E!Notice(code)
             PROVE  Crossed(Line(code), i - 1)' /\ Unsaid(code, i - 1)' /\ Unsaid("budget_exhausted", i - 1)'
  BY NoticeIs DEF Timely
<1>1. i \in 1..Len(log) /\ log[i] = E!Notice(code) /\ Len(log') \in Nat /\ Len(log) \in Nat
  BY DEF NothingNoticed, EventsTypeOK
<1>2. Crossed(Line(code), i - 1) /\ Unsaid(code, i - 1) /\ Unsaid("budget_exhausted", i - 1)
  BY <1>1 DEF Timely
<1>3. Crossed(Line(code), i - 1)'
  <2>1. PICK d \in 0..durable : d <= i - 1 /\ BurntTo(d) >= Line(code)
    BY <1>2 DEF Crossed
  <2>2. d \in 0..durable' /\ BurntTo(d)' = BurntTo(d)
    BY DiskBurns
  <2>3. Line(code)' = Line(code) /\ (i - 1)' = i - 1
    OBVIOUS
  <2> QED
    BY <2>1, <2>2, <2>3 DEF Crossed
<1>4. ASSUME NEW other \in Codes, Unsaid(other, i - 1) PROVE Unsaid(other, i - 1)'
  <2> SUFFICES ASSUME NEW j \in 1..(i - 1), log'[j] = E!Notice(other) PROVE FALSE
    BY NoticeIs DEF Unsaid
  <2>1. j \in 1..Len(log')
    BY <1>1
  <2>2. log[j] = E!Notice(other)
    BY <2>1 DEF NothingNoticed
  <2> QED
    BY <1>4, <2>2 DEF Unsaid
<1>5. Unsaid(code, i - 1)' /\ Unsaid("budget_exhausted", i - 1)'
  BY <1>2, <1>4 DEF Codes
<1> QED
  BY <1>3, <1>5

\* A step that adds no notice, and the running check either stays or is over.
LEMMA NoticesStay ==
  ASSUME EventsTypeOK, EventsTypeOK', NoticesInv, DiskStays, NothingNoticed,
         check' = check \/ (check' \in CheckPoints /\ check'.at \notin {"flushing", "warning"})
  PROVE  NoticesInv'
<1>1. \A code \in Codes : Timely(code)'
  BY TimelyStays DEF NoticesInv
<1>2. CASE check'.at \notin {"flushing", "warning"}
  BY <1>1, <1>2 DEF NoticesInv, Flushing, Warning
<1>3. CASE check' = check
  <2>1. Flushing'
    <3> SUFFICES ASSUME check.at = "flushing", NEW i \in 1..Len(log'), NEW code \in Codes,
                        log'[i] = E!Notice(code)
                 PROVE  i <= check.seq
      BY <1>3, NoticeIs DEF Flushing
    <3>1. i \in 1..Len(log) /\ log[i] = E!Notice(code)
      BY DEF NothingNoticed, EventsTypeOK
    <3> QED
      BY <3>1 DEF NoticesInv, Flushing
  <2>2. Warning'
    <3> SUFFICES ASSUME check.at = "warning"
                 PROVE  Unsaid("budget_exhausted", Len(log))' /\ \E d \in 0..durable' : check.burn = BurntTo(d)'
      BY <1>3 DEF Warning
    <3>1. Unsaid("budget_exhausted", Len(log)) /\ \E d \in 0..durable : check.burn = BurntTo(d)
      BY DEF NoticesInv, Warning
    <3>2. Unsaid("budget_exhausted", Len(log))'
      <4> SUFFICES ASSUME NEW i \in 1..Len(log'), log'[i] = E!Notice("budget_exhausted") PROVE FALSE
        BY NoticeIs DEF Unsaid, Codes
      <4>1. i \in 1..Len(log) /\ log[i] = E!Notice("budget_exhausted")
        BY DEF NothingNoticed, EventsTypeOK, Codes
      <4> QED
        BY <3>1, <4>1 DEF Unsaid
    <3>3. PICK d \in 0..durable : check.burn = BurntTo(d)
      BY <3>1
    <3>4. d \in 0..durable' /\ BurntTo(d)' = BurntTo(d)
      BY DiskBurns
    <3> QED
      BY <3>2, <3>3, <3>4
  <2> QED
    BY <1>1, <1>3, <2>1, <2>2 DEF NoticesInv
<1> QED
  BY <1>2, <1>3

\* An envelope of another kind is appended, or none.
LEMMA Unnoticed ==
  ASSUME EventsTypeOK,
         UNCHANGED log \/ \E e \in Envelopes : e.kind \notin Codes /\ log' = Append(log, e),
         durable' >= durable
  PROVE  DiskStays /\ NothingNoticed
<1>1. CASE UNCHANGED log
  BY <1>1, EventsFacts DEF DiskStays, NothingNoticed
<1>2. CASE \E e \in Envelopes : e.kind \notin Codes /\ log' = Append(log, e)
  <2>1. PICK e \in Envelopes : e.kind \notin Codes /\ log' = Append(log, e)
    BY <1>2
  <2>2. PICK l \in Seq(Envelopes), k \in Nat, n \in Nat : l = log /\ k = durable /\ n = Len(l) /\ k <= n
    BY EventsFacts
  <2>3. Len(log') = n + 1 /\ log'[n + 1] = e /\ \A i \in 1..n : log'[i] = l[i]
    BY <2>1, <2>2
  <2>4. DiskStays
    BY <2>2, <2>3 DEF DiskStays
  <2>5. NothingNoticed
    <3> SUFFICES ASSUME NEW i \in 1..(n + 1), NEW code \in Codes, log'[i] = E!Notice(code)
                 PROVE  i <= n /\ l[i] = E!Notice(code)
      BY <2>2, <2>3 DEF NothingNoticed
    <3>1. i # n + 1
      BY <2>1, <2>3, NoticeIs
    <3> QED
      BY <2>3, <3>1
  <2> QED
    BY <2>4, <2>5
<1> QED
  BY <1>1, <1>2

\* A notice is appended where it is due.
LEMMA NoticeAdded ==
  ASSUME EventsTypeOK, EventsTypeOK', NoticesInv, NEW code \in Codes,
         log' = Append(log, E!Notice(code)), UNCHANGED durable,
         Crossed(Line(code), Len(log)), Unsaid(code, Len(log)), Unsaid("budget_exhausted", Len(log))
  PROVE  \A c \in Codes : Timely(c)'
<1>1. PICK l \in Seq(Envelopes), k \in Nat, n \in Nat : l = log /\ k = durable /\ n = Len(l) /\ k <= n
  BY EventsFacts
<1>2. E!Notice(code) \in Envelopes
  BY NoticeIs
<1>3. Len(log') = n + 1 /\ log'[n + 1] = E!Notice(code) /\ \A i \in 1..n : log'[i] = l[i]
  BY <1>1, <1>2
<1>4. DiskStays
  BY <1>1, <1>3 DEF DiskStays
<1>5. ASSUME NEW c \in Codes, NEW i \in 1..(n + 1), Unsaid(c, i - 1) PROVE Unsaid(c, i - 1)'
  <2> SUFFICES ASSUME NEW j \in 1..(i - 1) PROVE log'[j] # E!Notice(c)
    BY NoticeIs DEF Unsaid
  <2>1. j \in 1..n
    BY <1>1
  <2> QED
    BY <1>1, <1>3, <1>5, <2>1 DEF Unsaid
<1>6. ASSUME NEW c \in Codes, NEW i \in 1..(n + 1), Crossed(Line(c), i - 1) PROVE Crossed(Line(c), i - 1)'
  <2>1. PICK d \in 0..durable : d <= i - 1 /\ BurntTo(d) >= Line(c)
    BY <1>6 DEF Crossed
  <2>2. d \in 0..durable' /\ BurntTo(d)' = BurntTo(d)
    BY <1>4, DiskBurns
  <2>3. Line(c)' = Line(c) /\ (i - 1)' = i - 1
    OBVIOUS
  <2> QED
    BY <2>1, <2>2, <2>3 DEF Crossed
<1>7. ASSUME NEW c \in Codes, NEW i \in 1..(n + 1), log'[i] = E!Notice(c)
      PROVE  Crossed(Line(c), i - 1) /\ Unsaid(c, i - 1) /\ Unsaid("budget_exhausted", i - 1)
  <2>1. CASE i = n + 1
    <3>1. c = code
      BY <1>3, <1>7, <2>1, NoticeIs
    <3> QED
      BY <1>1, <2>1, <3>1
  <2>2. CASE i # n + 1
    <3>1. i \in 1..Len(log) /\ log[i] = E!Notice(c)
      BY <1>1, <1>3, <1>7, <2>2
    <3> QED
      BY <3>1 DEF NoticesInv, Timely
  <2> QED
    BY <2>1, <2>2
<1> SUFFICES ASSUME NEW c \in Codes, NEW i \in 1..(n + 1), log'[i] = E!Notice(c)
             PROVE  Crossed(Line(c), i - 1)' /\ Unsaid(c, i - 1)' /\ Unsaid("budget_exhausted", i - 1)'
  BY <1>3, NoticeIs DEF Timely
<1> QED
  BY <1>5, <1>6, <1>7 DEF Codes

LEMMA AppendStays ==
  ASSUME EventsTypeOK, NEW e \in Envelopes, e.kind \notin Codes, log' = Append(log, e), UNCHANGED durable
  PROVE  DiskStays /\ NothingNoticed
<1>1. durable' >= durable
  BY EventsFacts
<1> QED
  BY <1>1, Unnoticed

LEMMA CheckEnds == E!Idle \in CheckPoints /\ E!Idle.at = "idle"
BY DEF E!Idle, CheckPoints

\* What a check that has flushed finds in the spill is all there is.
LEMMA FlushFinds ==
  ASSUME EventsTypeOK, NoticesInv, E!Flushed
  PROVE  /\ \A code \in Codes : ~E!Holds(E!spill, E!Notice(code)) => Unsaid(code, Len(log))
         /\ E!Burn(E!spill) = BurntTo(durable) /\ E!Burn(E!spill) \in Nat
         /\ durable \in 0..durable /\ durable <= Len(log)
<1>1. /\ E!spill \in Seq(Envelopes) /\ DOMAIN E!spill = 1..durable
      /\ \A i \in 1..durable : E!spill[i] = log[i]
  BY SpillIs
<1>2. PICK n \in Nat, k \in Nat, s \in Nat :
        n = Len(log) /\ k = durable /\ k <= n /\ s = check.seq /\ check.at = "flushing" /\ s <= k
  BY EventsFacts DEF E!Flushed, E!Settled, NoticesInv, CheckPoints
<1>3. ASSUME NEW code \in Codes, ~E!Holds(E!spill, E!Notice(code)), NEW i \in 1..n, log[i] = E!Notice(code)
      PROVE  FALSE
  <2>1. i <= s
    BY <1>2, <1>3 DEF NoticesInv, Flushing
  <2>2. i \in 1..durable
    BY <1>2, <2>1
  <2> QED
    BY <1>1, <1>3, <2>2 DEF E!Holds
<1>4. E!Burn(E!spill) \in Nat
  BY <1>1, BurnGrows
<1> QED
  BY <1>2, <1>3, <1>4 DEF Unsaid, BurntTo, E!spill

LEMMA CheckBeginsNotices ==
  ASSUME EventsTypeOK, EventsTypeOK', NoticesInv, E!CheckBegins
  PROVE  NoticesInv'
<1>1. /\ UNCHANGED <<log, durable>> /\ check' = [at |-> "flushing", seq |-> Len(log), burn |-> 0]
  BY DEF E!CheckBegins, E!logVars
<1>2. DiskStays /\ NothingNoticed
  BY <1>1, EventsFacts, Unnoticed
<1>3. \A code \in Codes : Timely(code)'
  BY <1>2, TimelyStays DEF NoticesInv
<1>4. check' \in CheckPoints /\ check'.at = "flushing" /\ check'.seq = Len(log)
  BY <1>1, EventsFacts DEF CheckPoints
<1>5. Flushing'
  BY <1>1, <1>4, EventsFacts DEF Flushing
<1>6. Warning'
  BY <1>4 DEF Warning
<1> QED
  BY <1>3, <1>4, <1>5, <1>6 DEF NoticesInv

LEMMA CheckWarnsNotices ==
  ASSUME EventsTypeOK, EventsTypeOK', NoticesInv, E!CheckWarns
  PROVE  NoticesInv'
<1>1. /\ E!Flushed /\ ~E!Holds(E!spill, E!Notice("budget_warning"))
      /\ ~E!Holds(E!spill, E!Notice("budget_exhausted")) /\ E!Burn(E!spill) >= WarnLine
      /\ log' = Append(log, E!Notice("budget_warning")) /\ UNCHANGED durable
      /\ check' = [at |-> "warning", seq |-> Len(log'), burn |-> E!Burn(E!spill)]
  BY DEF E!CheckWarns, E!WarningDue, E!Due, E!Warned, E!Exhausted, E!Appends, E!Awaits
<1>2. /\ Unsaid("budget_warning", Len(log)) /\ Unsaid("budget_exhausted", Len(log))
      /\ E!Burn(E!spill) = BurntTo(durable) /\ E!Burn(E!spill) \in Nat
      /\ durable \in 0..durable /\ durable <= Len(log)
  BY <1>1, FlushFinds DEF Codes
<1>3. Crossed(Line("budget_warning"), Len(log))
  BY <1>1, <1>2 DEF Crossed, Line
<1>4. \A code \in Codes : Timely(code)'
  BY <1>1, <1>2, <1>3, NoticeAdded DEF Codes
<1>5. PICK l \in Seq(Envelopes), n \in Nat, k \in Nat : l = log /\ n = Len(l) /\ k = durable /\ k <= n
  BY EventsFacts
<1>6. E!Notice("budget_warning") \in Envelopes /\ E!Notice("budget_warning") # E!Notice("budget_exhausted")
  BY NoticeIs DEF Codes
<1>7. /\ Len(log') = n + 1 /\ log'[n + 1] = E!Notice("budget_warning")
      /\ \A i \in 1..n : log'[i] = l[i]
  BY <1>1, <1>5, <1>6
<1>8. PICK b \in Nat : b = E!Burn(E!spill)
  BY <1>2
<1>9. check' \in CheckPoints /\ check'.at = "warning" /\ check'.burn = b
  BY <1>1, <1>7, <1>8 DEF CheckPoints
<1>10. Unsaid("budget_exhausted", Len(log))'
  <2> SUFFICES ASSUME NEW i \in 1..(n + 1) PROVE log'[i] # E!Notice("budget_exhausted")
    BY <1>7, NoticeIs DEF Unsaid, Codes
  <2> QED
    BY <1>2, <1>5, <1>6, <1>7 DEF Unsaid
<1>11. DiskStays
  BY <1>1, <1>5, <1>7 DEF DiskStays
<1>12. BurntTo(durable)' = b /\ durable' \in 0..durable'
  <2>1. PICK d \in 0..durable : d = durable
    BY <1>2
  <2>2. BurntTo(d)' = BurntTo(d)
    BY <1>11, DiskBurns
  <2>3. BurntTo(d) = b /\ durable' = d
    BY <1>1, <1>2, <1>8, <2>1
  <2>4. BurntTo(durable)' = BurntTo(d)'
    BY <2>1, <2>3 DEF BurntTo
  <2> QED
    BY <1>1, <1>2, <2>2, <2>3, <2>4
<1>13. Warning'
  BY <1>9, <1>10, <1>12 DEF Warning
<1>14. Flushing'
  BY <1>9 DEF Flushing
<1> QED
  BY <1>4, <1>9, <1>13, <1>14 DEF NoticesInv

\* The exhaustion is appended, and waited for.
LEMMA ExhaustionNotices ==
  ASSUME EventsTypeOK, EventsTypeOK', NoticesInv, E!Appends(E!Notice("budget_exhausted")), UNCHANGED durable,
         Unsaid("budget_exhausted", Len(log)), Crossed(TokenBudget, Len(log)),
         NEW burn \in Nat, E!Awaits("exhausting", burn)
  PROVE  NoticesInv'
<1>1. /\ log' = Append(log, E!Notice("budget_exhausted"))
      /\ check' = [at |-> "exhausting", seq |-> Len(log'), burn |-> burn]
  BY DEF E!Appends, E!Awaits
<1>2. Line("budget_exhausted") = TokenBudget /\ "budget_exhausted" \in Codes
  BY DEF Line, Codes
<1>3. \A code \in Codes : Timely(code)'
  BY <1>1, <1>2, NoticeAdded
<1>4. check' \in CheckPoints /\ check'.at = "exhausting"
  BY <1>1 DEF CheckPoints, EventsTypeOK
<1> QED
  BY <1>3, <1>4 DEF NoticesInv, Flushing, Warning

LEMMA CheckExhaustsNotices ==
  ASSUME EventsTypeOK, EventsTypeOK', NoticesInv, E!CheckExhausts
  PROVE  NoticesInv'
<1>1. /\ E!Flushed /\ ~E!Holds(E!spill, E!Notice("budget_exhausted")) /\ E!Burn(E!spill) >= TokenBudget
      /\ E!Appends(E!Notice("budget_exhausted")) /\ UNCHANGED durable
      /\ E!Awaits("exhausting", E!Burn(E!spill))
  BY DEF E!CheckExhausts, E!ExhaustionDue, E!Due, E!Exhausted
<1>2. /\ Unsaid("budget_exhausted", Len(log)) /\ E!Burn(E!spill) = BurntTo(durable)
      /\ E!Burn(E!spill) \in Nat /\ durable \in 0..durable /\ durable <= Len(log)
  BY <1>1, FlushFinds DEF Codes
<1>3. Crossed(TokenBudget, Len(log))
  BY <1>1, <1>2 DEF Crossed
<1> QED
  BY <1>1, <1>2, <1>3, ExhaustionNotices

LEMMA WarningSettlesNotices ==
  ASSUME EventsTypeOK, EventsTypeOK', NoticesInv, E!WarningSettles
  PROVE  NoticesInv'
<1>1. CASE UNCHANGED <<log, durable>> /\ check' = E!Idle
  <2>1. DiskStays /\ NothingNoticed
    BY <1>1, EventsFacts, Unnoticed
  <2> QED
    BY <1>1, <2>1, CheckEnds, NoticesStay
<1>2. CASE /\ check.at = "warning" /\ check.burn >= TokenBudget /\ UNCHANGED durable
           /\ E!Appends(E!Notice("budget_exhausted")) /\ E!Awaits("exhausting", check.burn)
  <2>1. PICK d \in 0..durable : check.burn = BurntTo(d)
    BY <1>2 DEF NoticesInv, Warning
  <2>2. Unsaid("budget_exhausted", Len(log)) /\ check.burn \in Nat
    BY <1>2 DEF NoticesInv, Warning, CheckPoints
  <2>3. d <= Len(log)
    BY EventsFacts
  <2>4. Crossed(TokenBudget, Len(log))
    BY <1>2, <2>1, <2>3 DEF Crossed
  <2> QED
    BY <1>2, <2>2, <2>4, ExhaustionNotices
<1> QED
  BY <1>1, <1>2 DEF E!WarningSettles, E!CheckStops
LEMMA WriteFailsNotices ==
  ASSUME EventsTypeOK, EventsTypeOK', NoticesInv, E!WriteFails
  PROVE  NoticesInv'
<1>1. /\ durable < Len(log) /\ durable' = durable + 1 /\ log' = [log EXCEPT ![durable + 1] = E!Lost]
      /\ UNCHANGED check
  BY DEF E!WriteFails, E!checkVars
<1>2. PICK l \in Seq(Envelopes), n \in Nat, k \in Nat : l = log /\ n = Len(l) /\ k = durable /\ k < n
  BY <1>1, EventsFacts
<1>3. E!Lost.kind = "lost"
  BY DEF E!Lost, E!Envelope
<1>4. /\ Len(log') = n /\ log'[k + 1] = E!Lost
      /\ \A i \in 1..n : i # k + 1 => log'[i] = l[i]
  BY <1>1, <1>2
<1>5. DiskStays
  BY <1>1, <1>2, <1>4 DEF DiskStays
<1>6. NothingNoticed
  <2> SUFFICES ASSUME NEW i \in 1..n, NEW code \in Codes, log'[i] = E!Notice(code)
               PROVE  i <= n /\ l[i] = E!Notice(code)
    BY <1>2, <1>4 DEF NothingNoticed
  <2>1. i # k + 1
    BY <1>3, <1>4, NoticeIs DEF Codes
  <2> QED
    BY <1>4, <2>1
<1> QED
  BY <1>1, <1>5, <1>6, NoticesStay

LEMMA RestartNotices ==
  ASSUME EventsTypeOK, EventsTypeOK', NoticesInv, E!Restart
  PROVE  NoticesInv'
<1>1. log' = E!Reconciled(E!spill) /\ durable' = Len(log') /\ check' = E!Idle
  BY DEF E!Restart
<1>2. /\ Len(log') > durable /\ \A i \in 1..durable : log'[i] = log[i]
      /\ \A i \in 1..Len(log') :
           i > durable => log'[i] = E!Notice("server_restart") \/ log'[i].kind = "turn.ended"
  BY <1>1, ReconciledIs
<1>3. PICK n \in Nat, k \in Nat, m \in Nat : n = Len(log) /\ k = durable /\ m = Len(log') /\ k <= n
  BY EventsFacts DEF EventsTypeOK
<1>4. DiskStays
  BY <1>1, <1>2, <1>3 DEF DiskStays
<1>5. NothingNoticed
  <2> SUFFICES ASSUME NEW i \in 1..m, NEW code \in Codes, log'[i] = E!Notice(code)
               PROVE  i <= n /\ log[i] = E!Notice(code)
    BY <1>3 DEF NothingNoticed
  <2>1. i <= k
    <3>1. E!Notice("server_restart").kind = "server_restart"
      BY DEF E!Notice, E!Envelope
    <3> QED
      BY <1>2, <1>3, <3>1, NoticeIs DEF Codes
  <2> QED
    BY <1>2, <1>3, <2>1
<1> QED
  BY <1>1, <1>4, <1>5, CheckEnds, NoticesStay

LEMMA NothingLogged ==
  ASSUME log = << >>, check = E!Idle
  PROVE  NoticesInv
<1>1. Len(log) = 0
  OBVIOUS
<1> QED
  BY <1>1, CheckEnds DEF NoticesInv, Timely, Flushing, Warning

LEMMA NoticesStep ==
  ASSUME EventsInv, EventsInv', NoticesInv, [E!Next]_E!vars
  PROVE  NoticesInv'
<1>1. EventsTypeOK /\ EventsTypeOK'
  BY DEF EventsInv
<1>2. durable \in Nat /\ turn \in Nat /\ turn' \in Nat
  BY <1>1 DEF EventsTypeOK
<1>3. ASSUME UNCHANGED log, durable' >= durable, check' \in {check, E!Idle}
      PROVE  NoticesInv'
  <2>1. DiskStays /\ NothingNoticed
    BY <1>1, <1>3, Unnoticed
  <2> QED
    BY <1>1, <1>3, <2>1, CheckEnds, NoticesStay
<1>4. ASSUME NEW e \in Envelopes, e.kind \notin Codes, log' = Append(log, e), UNCHANGED <<durable, check>>
      PROVE  NoticesInv'
  <2>1. DiskStays /\ NothingNoticed
    BY <1>1, <1>4, AppendStays
  <2> QED
    BY <1>1, <1>4, <2>1, NoticesStay
<1>5. CASE E!TurnStarts
  <2>1. PICK t \in Nat : t = turn'
    BY <1>2
  <2>2. E!Started(t) \in Envelopes /\ E!Started(t).kind \notin Codes
    BY DEF E!Started, E!Envelope, Envelopes, Kinds, Codes
  <2> QED
    BY <1>4, <1>5, <2>1, <2>2 DEF E!TurnStarts, E!checkVars
<1>6. CASE E!TurnEnds
  <2>1. PICK t \in Nat : t = turn
    BY <1>2
  <2>2. E!Ended(t) \in Envelopes /\ E!Ended(t).kind \notin Codes
    BY DEF E!Ended, E!Envelope, Envelopes, Kinds, Codes
  <2> QED
    BY <1>4, <1>6, <2>1, <2>2 DEF E!TurnEnds, E!checkVars
<1>7. ASSUME NEW n \in Burns, E!UsageReported(n) PROVE NoticesInv'
  <2>1. PICK t \in Nat : t = turn
    BY <1>2
  <2>2. E!Usage(t, n) \in Envelopes /\ E!Usage(t, n).kind \notin Codes
    BY DEF E!Usage, E!Envelope, Envelopes, Kinds, Codes
  <2> QED
    BY <1>4, <1>7, <2>1, <2>2 DEF E!UsageReported
<1>8. CASE E!Written
  BY <1>2, <1>3, <1>8 DEF E!Written, E!checkVars
<1>9. CASE E!RemoveSession
  <2>1. log' = << >> /\ check' = E!Idle
    BY <1>9 DEF E!RemoveSession
  <2>2. E!Idle' = E!Idle
    BY DEF E!Idle
  <2>3. Len(log') = 0 /\ check' \in CheckPoints /\ check'.at = "idle"
    BY <2>1, CheckEnds
  <2> QED
    BY <2>3 DEF NoticesInv, Timely, Flushing, Warning
<1>10. ASSUME NEW item \in Items, E!Tick(item) \/ E!TickReads(item) \/ E!TickSettles(item)
       PROVE  NoticesInv'
  <2>1. UNCHANGED <<durable, check>>
    BY <1>10 DEF E!Tick, E!TickReads, E!TickSettles, E!logVars, E!checkVars
  <2>2. UNCHANGED log \/ log' = Append(log, E!Completed(item))
    BY <1>10 DEF E!Tick, E!TickReads, E!TickSettles, E!logVars, E!Appends
  <2>3. E!Completed(item) \in Envelopes /\ E!Completed(item).kind \notin Codes
    BY CompletedIs DEF Codes
  <2> QED
    BY <1>2, <1>3, <1>4, <2>1, <2>2, <2>3
<1>11. CASE E!End \/ E!CheckFindsNothing \/ E!CheckRefused \/ E!ExhaustionSettles \/ UNCHANGED E!vars
  BY <1>2, <1>3, <1>11 DEF E!End, E!CheckFindsNothing, E!CheckRefused, E!ExhaustionSettles, E!CheckStops,
                           E!vars, E!logVars, E!checkVars
<1> QED
  BY <1>1, <1>5, <1>6, <1>7, <1>8, <1>9, <1>10, <1>11, WriteFailsNotices, RestartNotices,
     CheckBeginsNotices, CheckWarnsNotices, CheckExhaustsNotices, WarningSettlesNotices DEF E!Next

\* I73: each notice is logged once at most, behind the usage that brought the
\* burn to its line, and the warning never behind the exhaustion.
THEOREM NoticesFollowCrossings == E!Spec => []NoticeFollowsCrossing
<1>1. E!Init => NoticesInv
  BY NothingLogged DEF E!Init
<1>2. EventsInv /\ NoticesInv => NoticeFollowsCrossing
  <2> SUFFICES ASSUME EventsInv, NoticesInv, NEW i \in DOMAIN log
               PROVE  LET before == SubSeq(log, 1, i - 1)
                      IN /\ log[i] = E!Notice("budget_warning") =>
                              /\ E!Burn(before) >= WarnLine
                              /\ ~E!Holds(before, E!Notice("budget_warning"))
                              /\ ~E!Holds(before, E!Notice("budget_exhausted"))
                         /\ log[i] = E!Notice("budget_exhausted") =>
                              /\ E!Burn(before) >= TokenBudget
                              /\ ~E!Holds(before, E!Notice("budget_exhausted"))
    BY DEF NoticeFollowsCrossing, E!NoticeFollowsCrossing
  <2>1. PICK l \in Seq(Envelopes), n \in Nat, k \in Nat :
          l = log /\ n = Len(l) /\ k = durable /\ k <= n /\ i \in 1..n
    BY EventsFacts DEF EventsInv
  <2>2. PICK before \in Seq(Envelopes) : /\ before = SubSeq(l, 1, i - 1) /\ Len(before) = i - 1
                                         /\ \A j \in 1..(i - 1) : before[j] = l[j]
    <3>1. i - 1 \in Nat /\ i - 1 <= Len(l)
      BY <2>1
    <3> QED
      <4>1. PICK d \in Nat : d = i - 1 /\ d <= Len(l)
        BY <3>1
      <4>2. PICK first : first = SubSeq(l, 1, d)
        OBVIOUS
      <4>3. first \in Seq(Envelopes) /\ Len(first) = d /\ \A j \in 1..d : first[j] = l[j]
        BY <4>1, <4>2, FirstLines
      <4> QED
        BY <4>1, <4>2, <4>3
  <2>3. ASSUME NEW code \in Codes, Unsaid(code, i - 1) PROVE ~E!Holds(before, E!Notice(code))
    BY <2>1, <2>2, <2>3 DEF Unsaid, E!Holds
  <2>4. ASSUME NEW line \in Nat, Crossed(line, i - 1) PROVE E!Burn(before) >= line
    <3>1. PICK d \in 0..k : d <= i - 1 /\ BurntTo(d) >= line
      BY <2>1, <2>4 DEF Crossed
    <3>2. d \in Nat /\ d <= Len(l) /\ d <= n /\ d <= i - 1
      BY <2>1, <3>1
    <3>3. PICK p : p = SubSeq(l, 1, d)
      OBVIOUS
    <3>4. p \in Seq(Envelopes) /\ Len(p) = d /\ \A j \in 1..d : p[j] = l[j]
      BY <3>2, <3>3, FirstLines
    <3>5. Len(p) <= Len(before) /\ \A j \in 1..Len(p) : p[j] = before[j]
      BY <2>1, <2>2, <3>2, <3>4
    <3>6. E!Burn(p) \in Nat /\ E!Burn(before) \in Nat /\ E!Burn(p) <= E!Burn(before)
      BY <3>5, <3>4, BurnGrows
    <3>7. E!Burn(p) >= line
      BY <2>1, <3>1, <3>3 DEF BurntTo
    <3> QED
      BY <3>6, <3>7
  <2>5. ASSUME NEW code \in Codes, log[i] = E!Notice(code)
        PROVE  /\ E!Burn(before) >= Line(code) /\ ~E!Holds(before, E!Notice(code))
               /\ ~E!Holds(before, E!Notice("budget_exhausted"))
    <3>1. Crossed(Line(code), i - 1) /\ Unsaid(code, i - 1) /\ Unsaid("budget_exhausted", i - 1)
      BY <2>1, <2>5 DEF NoticesInv, Timely
    <3>2. Line(code) \in Nat
      BY EventsAssumption DEF Line
    <3> QED
      BY <2>3, <2>4, <3>1, <3>2 DEF Codes
  <2> QED
    BY <2>1, <2>2, <2>5 DEF Codes, Line
<1>3. EventsInv /\ NoticesInv /\ [E!Next]_E!vars => EventsInv' /\ NoticesInv'
  BY EventsStep, NoticesStep
<1> QED
  BY <1>1, <1>2, <1>3, EventsBegin, PTL DEF E!Spec

---------------------------------------------------------------------------
(* The idle time of the payroll.                                            *)
Marks == {"turn.started", "turn.ended"}
TurnOpen(l, t) ==
  \E s \in 1..Len(l) : /\ s < t /\ l[s].kind = "turn.started"
                       /\ \A k \in 1..Len(l) : s < k /\ k < t => l[k].kind \notin Marks
CutBefore(l, t) == \E r \in 1..Len(l) : r < t /\ l[r].kind = "server_restart"

\* A turn that ends was open, but where the boot closes it; none starts once the
\* server has restarted.
Orderly(l) ==
  \A i \in 1..Len(l) :
    /\ l[i].kind = "turn.ended" => CutBefore(l, i) \/ TurnOpen(l, i)
    /\ l[i].kind = "turn.started" => ~CutBefore(l, i)
    /\ l[i].kind = "server_restart" => l[i] = E!Notice("server_restart")
TurnsInv ==
  ~failed /\ session # "removed" =>
    /\ endedAt \in Nat /\ Orderly(log)
    /\ session = "live" =>
         /\ endedAt = 0 /\ ~CutBefore(log, Len(log) + 1)
         /\ turn # 0 => TurnOpen(log, Len(log) + 1)
    /\ session = "ended" => endedAt > Len(log)

\* What comes before t says whether a turn is open at t.
LEMMA SameBefore ==
  ASSUME NEW l \in Seq(Envelopes), NEW m \in Seq(Envelopes), NEW t \in Nat,
         t <= Len(l) + 1, t <= Len(m) + 1, \A i \in 1..(t - 1) : l[i] = m[i]
  PROVE  (TurnOpen(l, t) => TurnOpen(m, t)) /\ (CutBefore(l, t) => CutBefore(m, t))
<1>1. PICK n \in Nat, k \in Nat : n = Len(l) /\ k = Len(m)
  OBVIOUS
<1>2. ASSUME TurnOpen(l, t) PROVE TurnOpen(m, t)
  <2>1. PICK s \in 1..n : /\ s < t /\ l[s].kind = "turn.started"
                          /\ \A j \in 1..n : s < j /\ j < t => l[j].kind \notin Marks
    BY <1>1, <1>2 DEF TurnOpen
  <2>2. s \in 1..k /\ m[s] = l[s]
    BY <1>1, <2>1
  <2>3. ASSUME NEW j \in 1..k, s < j, j < t PROVE m[j].kind \notin Marks
    <3>1. j \in 1..n /\ m[j] = l[j]
      BY <1>1, <2>3
    <3> QED
      BY <2>1, <2>3, <3>1
  <2> QED
    BY <1>1, <2>1, <2>2, <2>3 DEF TurnOpen
<1>3. ASSUME CutBefore(l, t) PROVE CutBefore(m, t)
  <2>1. PICK r \in 1..n : r < t /\ l[r].kind = "server_restart"
    BY <1>1, <1>3 DEF CutBefore
  <2>2. r \in 1..k /\ m[r] = l[r]
    BY <1>1, <2>1
  <2> QED
    BY <1>1, <2>1, <2>2 DEF CutBefore
<1> QED
  BY <1>2, <1>3

\* What an envelope makes of it.
LEMMA OpenAfter ==
  ASSUME NEW l \in Seq(Envelopes), NEW d \in 1..Len(l)
  PROVE  /\ l[d].kind = "turn.started" => TurnOpen(l, d + 1)
         /\ l[d].kind = "turn.ended" => ~TurnOpen(l, d + 1)
         /\ l[d].kind \notin Marks => (TurnOpen(l, d + 1) <=> TurnOpen(l, d))
         /\ CutBefore(l, d + 1) <=> CutBefore(l, d) \/ l[d].kind = "server_restart"
<1>1. PICK n \in Nat : n = Len(l) /\ d \in 1..n
  OBVIOUS
<1>2. ASSUME l[d].kind = "turn.started" PROVE TurnOpen(l, d + 1)
  <2>1. \A k \in 1..n : d < k /\ k < d + 1 => FALSE
    BY <1>1
  <2> QED
    BY <1>1, <1>2, <2>1 DEF TurnOpen
<1>3. ASSUME l[d].kind = "turn.ended", TurnOpen(l, d + 1) PROVE FALSE
  <2>1. PICK s \in 1..n : /\ s < d + 1 /\ l[s].kind = "turn.started"
                          /\ \A j \in 1..n : s < j /\ j < d + 1 => l[j].kind \notin Marks
    BY <1>1, <1>3 DEF TurnOpen
  <2>2. s # d /\ s < d /\ d < d + 1
    BY <1>1, <1>3, <2>1
  <2> QED
    BY <1>1, <1>3, <2>1, <2>2 DEF Marks
<1>4. ASSUME l[d].kind \notin Marks, TurnOpen(l, d) PROVE TurnOpen(l, d + 1)
  <2>1. PICK s \in 1..n : /\ s < d /\ l[s].kind = "turn.started"
                          /\ \A j \in 1..n : s < j /\ j < d => l[j].kind \notin Marks
    BY <1>1, <1>4 DEF TurnOpen
  <2>2. s < d + 1 /\ \A j \in 1..n : s < j /\ j < d + 1 => l[j].kind \notin Marks
    <3> SUFFICES ASSUME NEW j \in 1..n, s < j, j < d + 1 PROVE l[j].kind \notin Marks
      BY <1>1, <2>1
    <3>1. j = d \/ j < d
      BY <1>1
    <3> QED
      BY <1>4, <2>1, <3>1
  <2> QED
    BY <1>1, <2>1, <2>2 DEF TurnOpen
<1>5. ASSUME l[d].kind \notin Marks, TurnOpen(l, d + 1) PROVE TurnOpen(l, d)
  <2>1. PICK s \in 1..n : /\ s < d + 1 /\ l[s].kind = "turn.started"
                          /\ \A j \in 1..n : s < j /\ j < d + 1 => l[j].kind \notin Marks
    BY <1>1, <1>5 DEF TurnOpen
  <2>2. s # d
    BY <1>5, <2>1 DEF Marks
  <2>3. s < d /\ \A j \in 1..n : s < j /\ j < d => j < d + 1
    BY <1>1, <2>1, <2>2
  <2> QED
    BY <1>1, <2>1, <2>3 DEF TurnOpen
<1>6. CutBefore(l, d + 1) <=> CutBefore(l, d) \/ l[d].kind = "server_restart"
  <2>1. \A r \in 1..n : r < d + 1 <=> r < d \/ r = d
    BY <1>1
  <2> QED
    BY <1>1, <2>1 DEF CutBefore
<1> QED
  BY <1>2, <1>3, <1>4, <1>5, <1>6

\* The idle time up to b.
Untaken(l, b) == {t \in 1..b : ~TurnOpen(l, t)}
LEMMA IdleSame ==
  ASSUME NEW l, NEW b \in Nat, NEW c \in Nat, b <= c, \A t \in (b + 1)..c : TurnOpen(l, t)
  PROVE  Untaken(l, c) = Untaken(l, b)
<1>1. ASSUME NEW t \in 1..c, ~TurnOpen(l, t) PROVE t \in 1..b
  BY <1>1
<1>2. 1..b \subseteq 1..c
  OBVIOUS
<1> QED
  BY <1>1, <1>2 DEF Untaken
LEMMA IdleFinite ==
  ASSUME NEW l, NEW b \in Nat
  PROVE  IsFiniteSet(Untaken(l, b)) /\ Cardinality(Untaken(l, b)) \in Nat
<1>1. IsFiniteSet(1..b)
  BY FS_Interval
<1>2. Untaken(l, b) \subseteq 1..b
  BY DEF Untaken
<1> QED
  BY <1>1, <1>2, FS_Subset, FS_CardinalityType
LEMMA IdleMore ==
  ASSUME NEW l, NEW b \in Nat, NEW m \in Nat, NEW c \in Nat, b <= m, m <= c,
         \A t \in (b + 1)..m : TurnOpen(l, t), \A t \in (m + 1)..c : ~TurnOpen(l, t)
  PROVE  Cardinality(Untaken(l, c)) = Cardinality(Untaken(l, b)) + (c - m)
<1>1. Untaken(l, m) = Untaken(l, b)
  BY IdleSame
<1>2. PICK A, B : A = Untaken(l, m) /\ B = (m + 1)..c
  OBVIOUS
<1>3. Untaken(l, c) = A \cup B
  <2>1. ASSUME NEW t \in 1..c, ~TurnOpen(l, t) PROVE t \in A \cup B
    <3>1. t \in 1..m \/ t \in B
      BY <1>2
    <3> QED
      BY <1>2, <2>1, <3>1 DEF Untaken
  <2>2. ASSUME NEW t \in A \cup B PROVE t \in 1..c /\ ~TurnOpen(l, t)
    <3>1. CASE t \in A
      BY <1>2, <3>1 DEF Untaken
    <3>2. CASE t \in B
      BY <1>2, <3>2
    <3> QED
      BY <3>1, <3>2
  <2> QED
    BY <2>1, <2>2 DEF Untaken
<1>4. A \cap B = {}
  <2>1. \A t \in A : t <= m /\ t \in Nat
    BY <1>2 DEF Untaken
  <2>2. \A t \in B : t > m
    BY <1>2
  <2> QED
    BY <2>1, <2>2
<1>5. IsFiniteSet(A) /\ Cardinality(A) \in Nat
  BY <1>2, IdleFinite
<1>6. IsFiniteSet(B) /\ Cardinality(B) = c - m
  <2>1. PICK x \in Int : x = m + 1
    OBVIOUS
  <2>2. IsFiniteSet(x..c) /\ Cardinality(x..c) = IF x > c THEN 0 ELSE c - x + 1
    BY FS_Interval
  <2> QED
    BY <1>2, <2>1, <2>2
<1>7. Cardinality(A \cup B) = Cardinality(A) + Cardinality(B) - Cardinality(A \cap B)
  BY <1>5, <1>6, FS_Union
<1>8. Cardinality(A \cap B) = 0
  BY <1>4, FS_EmptySet
<1> QED
  BY <1>1, <1>2, <1>3, <1>5, <1>6, <1>7, <1>8

\* One envelope of the payroll's pass.
Bills == [burn : Nat, idle : Int, dropped : Nat, cursor : Int, restarted : BOOLEAN]
BilledBy(kind, ts, bill, next) ==
  /\ kind = "turn.started" =>
       /\ next.idle = bill.idle + (IF bill.cursor = -1 THEN 0 ELSE ts - bill.cursor)
       /\ next.cursor = -1 /\ next.restarted = bill.restarted
  /\ kind = "turn.ended" =>
       /\ next.idle = bill.idle /\ next.restarted = bill.restarted
       /\ next.cursor = IF bill.restarted THEN bill.cursor ELSE ts
  /\ kind = "server_restart" => next.idle = bill.idle /\ next.restarted /\ next.cursor = -1
  /\ kind \notin {"turn.started", "turn.ended", "server_restart"} =>
       next.idle = bill.idle /\ next.restarted = bill.restarted /\ next.cursor = bill.cursor

LEMMA BilledIs ==
  ASSUME EventsTypeOK, NEW bill \in Bills, NEW ts \in 1..durable
  PROVE  E!Billed(bill, ts) \in Bills /\ BilledBy(E!spill[ts].kind, ts, bill, E!Billed(bill, ts))
<1>1. PICK e \in Envelopes : e = E!spill[ts]
  <2>1. E!spill \in Seq(Envelopes) /\ Len(E!spill) = durable
    BY SpillIs
  <2> QED
    BY <2>1, ElementOfSeq
<1>2. PICK burn \in Nat, idle \in Int, dropped \in Nat, cursor \in Int, restarted \in BOOLEAN :
        /\ bill = [burn |-> burn, idle |-> idle, dropped |-> dropped, cursor |-> cursor,
                   restarted |-> restarted]
        /\ burn = bill.burn /\ idle = bill.idle /\ dropped = bill.dropped /\ cursor = bill.cursor
        /\ restarted = bill.restarted
  BY DEF Bills
<1>3. ts \in Int /\ durable \in Nat
  BY DEF EventsTypeOK
<1>4. PICK n \in Nat : n = e.n
  <2>1. e.n \in {0} \cup Burns
    BY DEF Envelopes
  <2> QED
    BY <2>1, EventsAssumption
<1>5. PICK since \in Int : since = E!Since(bill, ts) /\ since = IF cursor = -1 THEN 0 ELSE ts - cursor
  <2>1. PICK now \in Int : now = ts
    BY <1>3
  <2>2. E!Since(bill, ts) = IF cursor = -1 THEN 0 ELSE now - cursor
    BY <1>2, <2>1 DEF E!Since
  <2>3. (IF cursor = -1 THEN 0 ELSE now - cursor) \in Int
    OBVIOUS
  <2> QED
    BY <2>1, <2>2, <2>3
<1>6. CASE e.kind = "turn.started"
  <2>1. E!Billed(bill, ts) = [burn |-> burn, idle |-> idle + since, dropped |-> dropped, cursor |-> -1,
                              restarted |-> restarted]
    BY <1>1, <1>2, <1>5, <1>6 DEF E!Billed
  <2> QED
    BY <1>1, <1>2, <1>3, <1>5, <1>6, <2>1 DEF Bills, BilledBy
<1>7. CASE e.kind = "turn.ended"
  <2>1. E!Billed(bill, ts) = [burn |-> burn, idle |-> idle, dropped |-> dropped,
                              cursor |-> IF restarted THEN cursor ELSE ts, restarted |-> restarted]
    BY <1>1, <1>2, <1>7 DEF E!Billed, E!Resumes
  <2> QED
    BY <1>1, <1>2, <1>3, <1>7, <2>1 DEF Bills, BilledBy
<1>8. CASE e.kind = "server_restart"
  <2>1. PICK more \in Nat : more = IF cursor = -1 THEN dropped ELSE dropped + 1
    BY <1>2
  <2>2. E!Billed(bill, ts) = [burn |-> burn, idle |-> idle, dropped |-> more, cursor |-> -1,
                              restarted |-> TRUE]
    <3>1. E!Billed(bill, ts) = [bill EXCEPT !.dropped = IF bill.cursor = -1 THEN @ ELSE @ + 1,
                                            !.cursor = -1, !.restarted = TRUE]
      BY <1>1, <1>8 DEF E!Billed
    <3>2. E!Billed(bill, ts) = [bill EXCEPT !.dropped = more, !.cursor = -1, !.restarted = TRUE]
      BY <1>2, <2>1, <3>1
    <3> QED
      BY <1>2, <3>2
  <2>3. PICK next : next = E!Billed(bill, ts)
    OBVIOUS
  <2>4. /\ next.idle = idle /\ next.cursor = -1 /\ next.restarted = TRUE /\ next \in Bills
    BY <2>2, <2>3 DEF Bills
  <2> QED
    BY <1>1, <1>2, <1>8, <2>3, <2>4 DEF BilledBy
<1>9. CASE e.kind = "usage"
  <2>1. E!Billed(bill, ts) = [burn |-> burn + n, idle |-> idle, dropped |-> dropped, cursor |-> cursor,
                              restarted |-> restarted]
    BY <1>1, <1>2, <1>4, <1>9 DEF E!Billed
  <2> QED
    BY <1>1, <1>2, <1>9, <2>1 DEF Bills, BilledBy
<1>10. CASE e.kind \notin {"turn.started", "turn.ended", "server_restart", "usage"}
  <2>1. E!Billed(bill, ts) = bill
    BY <1>1, <1>10 DEF E!Billed
  <2> QED
    BY <1>1, <1>10, <2>1 DEF BilledBy
<1> QED
  BY <1>6, <1>7, <1>8, <1>9, <1>10

\* What the bill says of the first d lines, b being the last turn's start.
BilledUpTo(l, bill, d, b) ==
  /\ b \in 0..d /\ (b # 0 => l[b].kind = "turn.started")
  /\ \A i \in (b + 1)..d : l[i].kind # "turn.started"
  /\ bill.idle = Cardinality(Untaken(l, b))
  /\ CutBefore(l, d + 1) => bill.restarted /\ bill.cursor = -1
  /\ ~CutBefore(l, d + 1) =>
       /\ ~bill.restarted
       /\ \/ bill.cursor = -1 /\ \A t \in (b + 1)..(d + 1) : TurnOpen(l, t)
          \/ /\ bill.cursor \in b..d
             /\ \A t \in (b + 1)..bill.cursor : TurnOpen(l, t)
             /\ \A t \in (bill.cursor + 1)..(d + 1) : ~TurnOpen(l, t)

LEMMA BillStarts ==
  ASSUME NEW l \in Seq(Envelopes)
  PROVE  E!Bill \in Bills /\ BilledUpTo(l, E!Bill, 0, 0)
<1>1. E!Bill \in Bills /\ E!Bill.idle = 0 /\ E!Bill.cursor = 0 /\ ~E!Bill.restarted
  BY DEF E!Bill, Bills
<1>2. Untaken(l, 0) = {}
  BY DEF Untaken
<1>3. Cardinality(Untaken(l, 0)) = 0
  BY <1>2, FS_EmptySet
<1>4. \A t \in 1..1 : ~TurnOpen(l, t) /\ ~CutBefore(l, t)
  BY DEF TurnOpen, CutBefore
<1>5. ~CutBefore(l, 0 + 1) /\ \A t \in (0 + 1)..(0 + 1) : ~TurnOpen(l, t)
  BY <1>4
<1> QED
  BY <1>1, <1>3, <1>5 DEF BilledUpTo

LEMMA BillStep ==
  ASSUME NEW l \in Seq(Envelopes), Orderly(l), NEW d \in Nat, d < Len(l), NEW b,
         NEW bill \in Bills, NEW next \in Bills, BilledUpTo(l, bill, d, b),
         BilledBy(l[d + 1].kind, d + 1, bill, next)
  PROVE  \E c : BilledUpTo(l, next, d + 1, c)
<1>1. PICK n \in Nat, ts \in Nat : n = Len(l) /\ ts = d + 1 /\ ts \in 1..n
  OBVIOUS
<1>2. PICK kind : kind = l[ts].kind
  OBVIOUS
<1>3. /\ kind = "turn.started" => TurnOpen(l, ts + 1) /\ ~CutBefore(l, ts)
      /\ kind = "turn.ended" => ~TurnOpen(l, ts + 1) /\ (CutBefore(l, ts) \/ TurnOpen(l, ts))
      /\ kind \notin Marks => (TurnOpen(l, ts + 1) <=> TurnOpen(l, ts))
      /\ CutBefore(l, ts + 1) <=> CutBefore(l, ts) \/ kind = "server_restart"
  BY <1>1, <1>2, OpenAfter DEF Orderly
<1>4. PICK cursor \in Int : cursor = bill.cursor
  BY DEF Bills
<1>5. /\ b \in 0..d /\ b \in Nat /\ (b # 0 => l[b].kind = "turn.started")
      /\ \A i \in (b + 1)..d : l[i].kind # "turn.started"
      /\ bill.idle = Cardinality(Untaken(l, b))
      /\ CutBefore(l, ts) => bill.restarted /\ cursor = -1
      /\ ~CutBefore(l, ts) =>
           /\ ~bill.restarted
           /\ \/ cursor = -1 /\ \A t \in (b + 1)..ts : TurnOpen(l, t)
              \/ /\ cursor \in b..d
                 /\ \A t \in (b + 1)..cursor : TurnOpen(l, t)
                 /\ \A t \in (cursor + 1)..ts : ~TurnOpen(l, t)
  BY <1>1, <1>4 DEF BilledUpTo
<1>6. BilledBy(kind, ts, bill, next)
  BY <1>1, <1>2
<1>7. CASE kind = "turn.started"
  <2>1. next.cursor = -1 /\ ~next.restarted /\ ~CutBefore(l, ts + 1) /\ ~CutBefore(l, ts)
    BY <1>3, <1>5, <1>6, <1>7 DEF BilledBy
  <2>2. \A t \in (ts + 1)..(ts + 1) : TurnOpen(l, t)
    BY <1>1, <1>3, <1>7
  <2>3. next.idle = Cardinality(Untaken(l, ts))
    <3>1. CASE cursor = -1 /\ \A t \in (b + 1)..ts : TurnOpen(l, t)
      <4>1. Untaken(l, ts) = Untaken(l, b)
        BY <1>1, <1>5, <3>1, IdleSame
      <4>2. next.idle = bill.idle
        <5>1. next.idle = bill.idle + 0 /\ bill.idle \in Int
          BY <1>4, <1>6, <1>7, <3>1 DEF BilledBy, Bills
        <5> QED
          BY <5>1
      <4> QED
        BY <1>5, <4>1, <4>2
    <3>2. CASE /\ cursor \in b..d
               /\ \A t \in (b + 1)..cursor : TurnOpen(l, t)
               /\ \A t \in (cursor + 1)..ts : ~TurnOpen(l, t)
      <4>1. cursor \in Nat /\ b <= cursor /\ cursor <= ts /\ cursor # -1
        BY <1>1, <1>5, <3>2
      <4>2. Cardinality(Untaken(l, ts)) = Cardinality(Untaken(l, b)) + (ts - cursor)
        BY <1>1, <1>5, <3>2, <4>1, IdleMore
      <4>3. next.idle = bill.idle + (ts - cursor)
        BY <1>4, <1>6, <1>7, <4>1 DEF BilledBy
      <4> QED
        BY <1>5, <4>2, <4>3
    <3> QED
      BY <1>5, <2>1, <3>1, <3>2
  <2>4. ts \in 0..ts /\ \A i \in (ts + 1)..ts : l[i].kind # "turn.started"
    BY <1>1
  <2>5. BilledUpTo(l, next, ts, ts)
    BY <1>2, <1>7, <2>1, <2>2, <2>3, <2>4 DEF BilledUpTo
  <2> QED
    BY <1>1, <2>5
<1>8. CASE kind # "turn.started"
  <2>1. b \in 0..ts /\ \A i \in (b + 1)..ts : l[i].kind # "turn.started"
    <3>1. \A i \in (b + 1)..ts : i \in (b + 1)..d \/ i = ts
      BY <1>1, <1>5
    <3> QED
      BY <1>1, <1>2, <1>5, <1>8, <3>1
  <2>2. next.idle = Cardinality(Untaken(l, b))
    BY <1>5, <1>6, <1>8 DEF BilledBy
  <2>3. CASE CutBefore(l, ts) \/ kind = "server_restart"
    <3>1. CutBefore(l, ts + 1) /\ next.restarted /\ next.cursor = -1
      <4>1. CASE kind = "server_restart"
        BY <1>3, <1>6, <4>1 DEF BilledBy
      <4>2. CASE CutBefore(l, ts) /\ kind # "server_restart"
        BY <1>3, <1>4, <1>5, <1>6, <1>8, <4>2 DEF BilledBy
      <4> QED
        BY <2>3, <4>1, <4>2
    <3>2. BilledUpTo(l, next, ts, b)
      BY <1>5, <2>1, <2>2, <3>1 DEF BilledUpTo
    <3> QED
      BY <1>1, <3>2
  <2>4. CASE ~CutBefore(l, ts) /\ kind = "turn.ended"
    <3>1. ~CutBefore(l, ts + 1) /\ TurnOpen(l, ts) /\ ~TurnOpen(l, ts + 1)
      BY <1>3, <2>4
    <3>2. ~bill.restarted /\ \A t \in (b + 1)..ts : TurnOpen(l, t)
      <4>1. CASE \A t \in (cursor + 1)..ts : ~TurnOpen(l, t)
        <5>1. CASE cursor \in b..d
          <6>1. ts \in (cursor + 1)..ts
            BY <1>1, <1>5, <5>1
          <6> QED
            BY <3>1, <4>1, <6>1
        <5> QED
          BY <1>5, <2>4, <5>1
      <4> QED
        BY <1>5, <2>4, <4>1
    <3>3. next.cursor = ts /\ ~next.restarted
      BY <1>6, <2>4, <3>2 DEF BilledBy
    <3>4. ts \in b..ts /\ \A t \in (ts + 1)..(ts + 1) : ~TurnOpen(l, t)
      BY <1>1, <1>5, <3>1
    <3>5. BilledUpTo(l, next, ts, b)
      BY <1>5, <2>1, <2>2, <3>1, <3>2, <3>3, <3>4 DEF BilledUpTo
    <3> QED
      BY <1>1, <3>5
  <2>5. CASE ~CutBefore(l, ts) /\ kind \notin {"turn.started", "turn.ended", "server_restart"}
    <3>1. ~CutBefore(l, ts + 1) /\ (TurnOpen(l, ts + 1) <=> TurnOpen(l, ts))
      BY <1>3, <2>5 DEF Marks
    <3>2. next.cursor = cursor /\ ~next.restarted
      BY <1>4, <1>5, <1>6, <2>5 DEF BilledBy
    <3>3. CASE cursor = -1 /\ \A t \in (b + 1)..ts : TurnOpen(l, t)
      <4>1. ts \in (b + 1)..ts /\ \A t \in (b + 1)..(ts + 1) : t \in (b + 1)..ts \/ t = ts + 1
        BY <1>1, <1>5
      <4>2. \A t \in (b + 1)..(ts + 1) : TurnOpen(l, t)
        BY <3>1, <3>3, <4>1
      <4>3. BilledUpTo(l, next, ts, b)
        BY <1>5, <2>1, <2>2, <3>1, <3>2, <3>3, <4>2 DEF BilledUpTo
      <4> QED
        BY <1>1, <4>3
    <3>4. CASE /\ cursor \in b..d
               /\ \A t \in (b + 1)..cursor : TurnOpen(l, t)
               /\ \A t \in (cursor + 1)..ts : ~TurnOpen(l, t)
      <4>1. /\ ts \in (cursor + 1)..ts /\ cursor \in b..ts
            /\ \A t \in (cursor + 1)..(ts + 1) : t \in (cursor + 1)..ts \/ t = ts + 1
        BY <1>1, <1>5, <3>4
      <4>2. \A t \in (cursor + 1)..(ts + 1) : ~TurnOpen(l, t)
        BY <3>1, <3>4, <4>1
      <4>3. BilledUpTo(l, next, ts, b)
        BY <1>5, <2>1, <2>2, <3>1, <3>2, <3>4, <4>1, <4>2 DEF BilledUpTo
      <4> QED
        BY <1>1, <4>3
    <3> QED
      BY <1>5, <2>5, <3>3, <3>4
  <2> QED
    BY <1>8, <2>3, <2>4, <2>5
<1> QED
  BY <1>7, <1>8

---------------------------------------------------------------------------
(* The turns of the log.                                                    *)
LEMMA AppendOrderly ==
  ASSUME NEW l \in Seq(Envelopes), Orderly(l), NEW e \in Envelopes, NEW n \in Nat, n = Len(l),
         e.kind # "server_restart", ~CutBefore(l, n + 1), e.kind = "turn.ended" => TurnOpen(l, n + 1)
  PROVE  LET m == Append(l, e)
         IN /\ Orderly(m) /\ Len(m) = n + 1 /\ ~CutBefore(m, n + 2)
            /\ e.kind = "turn.started" => TurnOpen(m, n + 2)
            /\ e.kind \notin Marks /\ TurnOpen(l, n + 1) => TurnOpen(m, n + 2)
<1>1. PICK m \in Seq(Envelopes) : m = Append(l, e)
  BY AppendProperties
<1>2. Len(m) = n + 1 /\ m[n + 1] = e /\ \A i \in 1..n : m[i] = l[i]
  BY <1>1
<1>3. ASSUME NEW t \in 1..(n + 1)
      PROVE  (TurnOpen(l, t) => TurnOpen(m, t)) /\ (CutBefore(m, t) => CutBefore(l, t))
             /\ (CutBefore(l, t) => CutBefore(m, t))
  <2>1. t \in Nat /\ t <= Len(l) + 1 /\ t <= Len(m) + 1 /\ \A i \in 1..(t - 1) : l[i] = m[i]
    BY <1>2
  <2> QED
    BY <2>1, SameBefore
<1>4. n + 1 \in 1..(n + 1) /\ n + 1 \in 1..Len(m) /\ (n + 1) + 1 = n + 2
  BY <1>2
<1>5. /\ e.kind = "turn.started" => TurnOpen(m, n + 2)
      /\ e.kind \notin Marks => (TurnOpen(m, n + 2) <=> TurnOpen(m, n + 1))
      /\ CutBefore(m, n + 2) <=> CutBefore(m, n + 1) \/ e.kind = "server_restart"
  <2>1. PICK d \in 1..Len(m) : d = n + 1
    BY <1>4
  <2>2. d + 1 = n + 2 /\ m[d] = e
    BY <1>2, <2>1
  <2> QED
    BY <2>1, <2>2, OpenAfter
<1>6. Orderly(m)
  <2> SUFFICES ASSUME NEW i \in 1..(n + 1)
               PROVE  /\ m[i].kind = "turn.ended" => CutBefore(m, i) \/ TurnOpen(m, i)
                      /\ m[i].kind = "turn.started" => ~CutBefore(m, i)
                      /\ m[i].kind = "server_restart" => m[i] = E!Notice("server_restart")
    BY <1>2 DEF Orderly
  <2>1. CASE i = n + 1
    BY <1>2, <1>3, <2>1
  <2>2. CASE i # n + 1
    <3>1. i \in 1..Len(l) /\ m[i] = l[i]
      BY <1>2, <2>2
    <3> QED
      BY <1>3, <3>1 DEF Orderly
  <2> QED
    BY <2>1, <2>2
<1> QED
  BY <1>1, <1>2, <1>3, <1>4, <1>5, <1>6

LEMMA PrefixOrderly ==
  ASSUME NEW l \in Seq(Envelopes), NEW m \in Seq(Envelopes), Orderly(m),
         Len(l) <= Len(m), \A i \in 1..Len(l) : l[i] = m[i]
  PROVE  Orderly(l)
<1>1. PICK n \in Nat, k \in Nat : n = Len(l) /\ k = Len(m) /\ n <= k
  OBVIOUS
<1> SUFFICES ASSUME NEW i \in 1..n
             PROVE  /\ l[i].kind = "turn.ended" => CutBefore(l, i) \/ TurnOpen(l, i)
                    /\ l[i].kind = "turn.started" => ~CutBefore(l, i)
                    /\ l[i].kind = "server_restart" => l[i] = E!Notice("server_restart")
  BY <1>1 DEF Orderly
<1>2. i \in Nat /\ i <= Len(l) + 1 /\ i <= Len(m) + 1 /\ \A j \in 1..(i - 1) : l[j] = m[j] /\ m[j] = l[j]
  BY <1>1
<1>3. (TurnOpen(m, i) => TurnOpen(l, i)) /\ (CutBefore(m, i) => CutBefore(l, i))
  BY <1>2, SameBefore
<1>4. CutBefore(l, i) => CutBefore(m, i)
  BY <1>2, SameBefore
<1>5. l[i] = m[i] /\ i \in 1..Len(m)
  BY <1>1
<1> QED
  BY <1>3, <1>4, <1>5 DEF Orderly

\* The live session's log grows.
LEMMA LiveAppend ==
  ASSUME EventsInv, TurnsInv, session = "live", UNCHANGED <<session, endedAt, failed>>,
         NEW e \in Envelopes, log' = Append(log, e), e.kind # "server_restart",
         e.kind = "turn.ended" => turn # 0,
         turn' # 0 => e.kind = "turn.started" \/ (e.kind \notin Marks /\ turn # 0)
  PROVE  TurnsInv'
<1>1. /\ endedAt = 0 /\ Orderly(log) /\ ~CutBefore(log, Len(log) + 1)
      /\ turn # 0 => TurnOpen(log, Len(log) + 1)
  BY DEF EventsInv, TurnsInv
<1>2. PICK l \in Seq(Envelopes), n \in Nat : l = log /\ n = Len(l)
  BY EventsFacts DEF EventsInv
<1>3. PICK m : m = Append(l, e)
  OBVIOUS
<1>4. Orderly(l) /\ ~CutBefore(l, n + 1) /\ (e.kind = "turn.ended" => TurnOpen(l, n + 1))
  BY <1>1, <1>2
<1>5. /\ Orderly(m) /\ Len(m) = n + 1 /\ ~CutBefore(m, n + 2)
      /\ e.kind = "turn.started" => TurnOpen(m, n + 2)
      /\ e.kind \notin Marks /\ TurnOpen(l, n + 1) => TurnOpen(m, n + 2)
  BY <1>2, <1>3, <1>4, AppendOrderly
<1>6. log' = m /\ Len(log') + 1 = n + 2
  BY <1>2, <1>3, <1>5
<1>7. turn' # 0 => TurnOpen(m, n + 2)
  BY <1>1, <1>2, <1>5
<1> QED
  BY <1>1, <1>5, <1>6, <1>7 DEF TurnsInv

LEMMA TurnsStay ==
  ASSUME TurnsInv, UNCHANGED <<log, failed, session, endedAt, turn>>
  PROVE  TurnsInv'
BY DEF TurnsInv

LEMMA RestartTurns ==
  ASSUME EventsInv, EventsInv', TurnsInv, E!Restart
  PROVE  TurnsInv'
<1>1. session = "live" /\ session' = "ended" /\ log' = E!Reconciled(E!spill) /\ endedAt' = Len(log') + 1
  BY DEF E!Restart
<1>2. Orderly(log) /\ EventsTypeOK
  BY <1>1 DEF EventsInv, TurnsInv
<1>3. PICK l \in Seq(Envelopes), m \in Seq(Envelopes), n \in Nat, k \in Nat, d \in Nat :
        l = log /\ m = log' /\ n = Len(l) /\ k = Len(m) /\ d = durable /\ d <= n
  BY EventsFacts DEF EventsInv, EventsTypeOK
<1>4. /\ k > d /\ (\A i \in 1..d : m[i] = l[i]) /\ m[d + 1] = E!Notice("server_restart")
      /\ \A i \in 1..k : i > d => m[i] = E!Notice("server_restart") \/ m[i].kind = "turn.ended"
  BY <1>1, <1>2, <1>3, ReconciledIs
<1>5. E!Notice("server_restart").kind = "server_restart"
  BY DEF E!Notice, E!Envelope
<1>6. Orderly(m)
  <2> SUFFICES ASSUME NEW i \in 1..k
               PROVE  /\ m[i].kind = "turn.ended" => CutBefore(m, i) \/ TurnOpen(m, i)
                      /\ m[i].kind = "turn.started" => ~CutBefore(m, i)
                      /\ m[i].kind = "server_restart" => m[i] = E!Notice("server_restart")
    BY <1>3 DEF Orderly
  <2>1. CASE i <= d
    <3>1. i \in Nat /\ i <= Len(l) + 1 /\ i <= Len(m) + 1 /\ \A j \in 1..(i - 1) : l[j] = m[j] /\ m[j] = l[j]
      BY <1>3, <1>4, <2>1
    <3>2. (TurnOpen(l, i) => TurnOpen(m, i)) /\ (CutBefore(l, i) => CutBefore(m, i))
      BY <3>1, SameBefore
    <3>3. CutBefore(m, i) => CutBefore(l, i)
      BY <3>1, SameBefore
    <3>4. i \in 1..Len(l) /\ m[i] = l[i]
      BY <1>3, <1>4, <2>1
    <3> QED
      BY <1>2, <1>3, <3>2, <3>3, <3>4 DEF Orderly
  <2>2. CASE i = d + 1
    BY <1>4, <1>5, <2>2
  <2>3. CASE i > d + 1
    <3>1. d + 1 \in 1..Len(m) /\ d + 1 < i
      BY <1>3, <2>3
    <3>2. CutBefore(m, i)
      BY <1>4, <1>5, <3>1 DEF CutBefore
    <3>3. i > d
      BY <2>3
    <3> QED
      BY <1>4, <1>5, <3>2, <3>3
  <2> QED
    BY <2>1, <2>2, <2>3
<1>7. endedAt' \in Nat /\ endedAt' > Len(log')
  BY <1>1, <1>3
<1> QED
  BY <1>1, <1>3, <1>6, <1>7 DEF TurnsInv

LEMMA EndTurns ==
  ASSUME EventsInv, TurnsInv, E!End
  PROVE  TurnsInv'
<1>1. session = "live" /\ session' = "ended" /\ endedAt' = Len(log) + 1 /\ UNCHANGED <<log, failed>>
  BY DEF E!End, E!logVars
<1>2. Orderly(log) /\ Len(log) \in Nat
  BY <1>1 DEF EventsInv, EventsTypeOK, TurnsInv
<1>3. endedAt' \in Nat /\ endedAt' > Len(log')
  BY <1>1, <1>2
<1> QED
  BY <1>1, <1>2, <1>3 DEF TurnsInv

LEMMA TurnsStart == E!Init => TurnsInv
<1> SUFFICES ASSUME E!Init PROVE TurnsInv
  OBVIOUS
<1>1. Len(log) = 0 /\ endedAt = 0 /\ turn = 0 /\ session = "live"
  BY DEF E!Init
<1>2. Orderly(log) /\ ~CutBefore(log, Len(log) + 1)
  BY <1>1 DEF Orderly, CutBefore
<1> QED
  BY <1>1, <1>2 DEF TurnsInv

LEMMA TurnsStep ==
  ASSUME EventsInv, EventsInv', TurnsInv, [E!Next]_E!vars
  PROVE  TurnsInv'
<1>1. turn \in Nat /\ turn' \in Nat
  BY DEF EventsInv, EventsTypeOK
<1>2. CASE E!TurnStarts
  <2>1. PICK t \in Nat : t = turn'
    BY <1>1
  <2>2. E!Started(t) \in Envelopes /\ E!Started(t).kind = "turn.started"
    BY DEF E!Started, E!Envelope, Envelopes, Kinds
  <2>3. session = "live" /\ UNCHANGED <<session, endedAt, failed>> /\ log' = Append(log, E!Started(t))
    BY <1>2, <2>1 DEF E!TurnStarts
  <2> QED
    BY <2>2, <2>3, LiveAppend
<1>3. CASE E!TurnEnds
  <2>1. PICK t \in Nat : t = turn
    BY <1>1
  <2>2. E!Ended(t) \in Envelopes /\ E!Ended(t).kind = "turn.ended"
    BY DEF E!Ended, E!Envelope, Envelopes, Kinds
  <2>3. /\ session = "live" /\ UNCHANGED <<session, endedAt, failed>> /\ log' = Append(log, E!Ended(t))
        /\ turn # 0 /\ turn' = 0
    BY <1>3, <2>1 DEF E!TurnEnds
  <2> QED
    BY <2>2, <2>3, LiveAppend
<1>4. ASSUME NEW e \in Envelopes, e.kind \notin Marks \cup {"server_restart"}, session = "live",
             log' = Append(log, e), UNCHANGED <<session, endedAt, failed, turn>>
      PROVE  TurnsInv'
  BY <1>4, LiveAppend DEF Marks
<1>5. ASSUME NEW n \in Burns, E!UsageReported(n) PROVE TurnsInv'
  <2>1. PICK t \in Nat : t = turn
    BY <1>1
  <2>2. E!Usage(t, n) \in Envelopes /\ E!Usage(t, n).kind \notin Marks \cup {"server_restart"}
    BY DEF E!Usage, E!Envelope, Envelopes, Kinds, Marks
  <2>3. session = "live" /\ UNCHANGED <<session, endedAt, failed, turn>> /\ log' = Append(log, E!Usage(t, n))
    BY <1>5, <2>1 DEF E!UsageReported
  <2> QED
    BY <1>4, <2>2, <2>3
<1>6. CASE E!WriteFails \/ E!RemoveSession
  BY <1>6 DEF E!WriteFails, E!RemoveSession, TurnsInv
<1>7. ASSUME NEW item \in Items, E!Tick(item) \/ E!TickReads(item) \/ E!TickSettles(item)
      PROVE  TurnsInv'
  <2>1. UNCHANGED <<session, endedAt, failed, turn>>
    BY <1>7 DEF E!Tick, E!TickReads, E!TickSettles, E!logVars
  <2>2. UNCHANGED log \/ (session = "live" /\ log' = Append(log, E!Completed(item)))
    BY <1>7 DEF E!Tick, E!TickReads, E!TickSettles, E!logVars, E!Appends
  <2>3. E!Completed(item) \in Envelopes /\ E!Completed(item).kind \notin Marks \cup {"server_restart"}
    BY CompletedIs DEF Marks
  <2> QED
    BY <1>4, <2>1, <2>2, <2>3, TurnsStay
<1>8. CASE E!CheckWarns \/ E!CheckExhausts \/ E!WarningSettles
  <2>1. UNCHANGED <<session, endedAt, failed, turn>>
    BY <1>8 DEF E!CheckWarns, E!CheckExhausts, E!WarningSettles
  <2>2. UNCHANGED log \/ (session = "live" /\ \E code \in Codes : log' = Append(log, E!Notice(code)))
    BY <1>8 DEF E!CheckWarns, E!CheckExhausts, E!WarningSettles, E!Appends, Codes
  <2>3. \A code \in Codes : /\ E!Notice(code) \in Envelopes
                            /\ E!Notice(code).kind \notin Marks \cup {"server_restart"}
    BY NoticeIs DEF Marks, Codes
  <2> QED
    BY <1>4, <2>1, <2>2, <2>3, TurnsStay
<1>9. CASE \/ E!Written \/ E!CheckBegins \/ E!CheckFindsNothing \/ E!CheckRefused \/ E!ExhaustionSettles
           \/ UNCHANGED E!vars
  <2>1. UNCHANGED <<log, failed, session, endedAt, turn>>
    BY <1>9 DEF E!Written, E!CheckBegins, E!CheckFindsNothing, E!CheckRefused, E!ExhaustionSettles,
                E!vars, E!logVars
  <2> QED
    BY <2>1, TurnsStay
<1> QED
  BY <1>2, <1>3, <1>5, <1>6, <1>7, <1>8, <1>9, EndTurns, RestartTurns DEF E!Next

---------------------------------------------------------------------------
(* The pass over the spill.                                                 *)
LEMMA PassIs ==
  ASSUME EventsTypeOK, Orderly(E!spill)
  PROVE  \E bill \in Bills, b \in Nat :
           /\ BilledUpTo(E!spill, bill, durable, b)
           /\ E!foldPayroll = IF endedAt = 0 THEN bill
                              ELSE [bill EXCEPT !.idle = @ + E!Since(bill, endedAt)]
<1>1. PICK l \in Seq(Envelopes), n \in Nat : l = E!spill /\ n = Len(l) /\ n = durable
  BY SpillIs DEF EventsTypeOK
<1>2. PICK g : /\ g[0] = E!Bill /\ \A i \in 1..n : g[i] = E!Billed(g[i - 1], i)
               /\ E!foldPayroll = IF endedAt = 0 THEN g[n]
                                  ELSE [g[n] EXCEPT !.idle = @ + E!Since(g[n], endedAt)]
  BY <1>1, PayrollCounts
<1> DEFINE Good(d) == g[d] \in Bills /\ \E b : BilledUpTo(l, g[d], d, b)
           bad == {d \in 0..n : ~Good(d)}
<1>3. bad = {}
  <2> SUFFICES ASSUME bad # {} PROVE FALSE
    OBVIOUS
  <2>1. PICK d \in bad : \A c \in bad : d <= c
    <3>1. bad \subseteq Nat
      OBVIOUS
    <3> HIDE DEF bad
    <3> QED
      BY <3>1, LeastOf
  <2>2. d \in 0..n /\ ~Good(d)
    OBVIOUS
  <2>3. CASE d = 0
    BY <1>2, <2>2, <2>3, BillStarts
  <2>4. CASE d # 0
    <3>1. PICK c \in Nat : d = c + 1 /\ c < n /\ d \in 1..n
      <4>1. d - 1 \in Nat /\ d = (d - 1) + 1 /\ d - 1 < n /\ d \in 1..n
        BY <2>2, <2>4
      <4> QED
        BY <4>1
    <3>2. Good(c)
      <4>1. c \in 0..n /\ ~(d <= c)
        BY <3>1
      <4> QED
        BY <4>1, <2>1
    <3>3. PICK bill, next, b : /\ bill = g[c] /\ bill \in Bills /\ next = g[d]
                               /\ BilledUpTo(l, bill, c, b)
      BY <3>2
    <3>4. next = E!Billed(bill, d)
      <4>1. d - 1 = c
        BY <3>1
      <4> QED
        BY <1>2, <3>1, <3>3, <4>1
    <3>5. next \in Bills /\ BilledBy(l[d].kind, d, bill, next)
      BY <1>1, <3>1, <3>3, <3>4, BilledIs
    <3>6. \E x : BilledUpTo(l, next, c + 1, x)
      BY <1>1, <3>1, <3>3, <3>5, BillStep
    <3> QED
      BY <2>2, <3>1, <3>3, <3>5, <3>6
  <2> QED
    BY <2>3, <2>4
<1>4. Good(n)
  <2>1. n \in 0..n
    OBVIOUS
  <2> QED
    BY <2>1, <1>3
<1>5. PICK bill, b : bill = g[n] /\ bill \in Bills /\ BilledUpTo(l, bill, n, b)
  BY <1>4
<1>6. b \in Nat
  BY <1>5 DEF BilledUpTo
<1> QED
  BY <1>1, <1>2, <1>5, <1>6

\* The property's own words for an open turn and the last turn's start.
LEMMA InTurnIs ==
  ASSUME EventsTypeOK, NEW t \in Nat
  PROVE  E!InTurn(t) <=> TurnOpen(E!spill, t)
<1>1. PICK l \in Seq(Envelopes), n \in Nat : l = E!spill /\ n = Len(l) /\ n = durable
  BY SpillIs DEF EventsTypeOK
<1> DEFINE marks == {i \in 1..n : i < t /\ l[i].kind \in Marks}
<1>2. E!InTurn(t) <=> marks # {} /\ l[E!Max(marks)].kind = "turn.started"
  BY <1>1 DEF E!InTurn, Marks
<1>3. ASSUME marks # {} PROVE E!Max(marks) \in marks /\ \A i \in marks : i <= E!Max(marks)
  <2>1. marks \in SUBSET (1..n)
    OBVIOUS
  <2> HIDE DEF marks
  <2> QED
    BY <1>3, <2>1, LastOf
<1>4. ASSUME marks # {}, l[E!Max(marks)].kind = "turn.started" PROVE TurnOpen(l, t)
  <2>1. PICK s \in marks : s = E!Max(marks) /\ \A i \in marks : i <= s
    BY <1>3, <1>4
  <2>2. s \in 1..n /\ s < t /\ l[s].kind = "turn.started"
    BY <1>4, <2>1
  <2>3. ASSUME NEW k \in 1..n, s < k, k < t PROVE l[k].kind \notin Marks
    <3>1. ~(k <= s)
      BY <2>2, <2>3
    <3> QED
      BY <2>1, <2>3, <3>1
  <2> QED
    BY <1>1, <2>2, <2>3 DEF TurnOpen
<1>5. ASSUME TurnOpen(l, t) PROVE marks # {} /\ l[E!Max(marks)].kind = "turn.started"
  <2>1. PICK s \in 1..n : /\ s < t /\ l[s].kind = "turn.started"
                          /\ \A k \in 1..n : s < k /\ k < t => l[k].kind \notin Marks
    BY <1>1, <1>5 DEF TurnOpen
  <2>2. s \in marks
    BY <2>1 DEF Marks
  <2>3. PICK m \in marks : m = E!Max(marks) /\ \A i \in marks : i <= m
    BY <1>3, <2>2
  <2>4. m = s
    <3>1. s <= m /\ m \in 1..n /\ m < t /\ l[m].kind \in Marks
      BY <2>2, <2>3
    <3>2. ~(s < m)
      BY <2>1, <3>1
    <3> QED
      BY <2>1, <3>1, <3>2
  <2> QED
    BY <2>1, <2>2, <2>3, <2>4
<1> QED
  BY <1>1, <1>2, <1>4, <1>5

LEMMA LastStartIs ==
  ASSUME EventsTypeOK, NEW b \in 0..durable, b # 0 => E!spill[b].kind = "turn.started",
         \A i \in (b + 1)..durable : E!spill[i].kind # "turn.started"
  PROVE  E!Max({0} \cup {i \in 1..durable : E!spill[i].kind = "turn.started"}) = b
<1>1. PICK n \in Nat : n = durable
  BY DEF EventsTypeOK
<1>2. PICK S : S = {0} \cup {i \in 1..n : E!spill[i].kind = "turn.started"}
  OBVIOUS
<1>3. b \in S /\ S \subseteq Nat /\ b \in Nat
  BY <1>1, <1>2
<1>4. \A i \in S : b >= i
  <2> SUFFICES ASSUME NEW i \in S, ~(b >= i) PROVE FALSE
    OBVIOUS
  <2>1. i \in (b + 1)..n /\ i # 0
    BY <1>1, <1>2, <1>3
  <2> QED
    BY <1>1, <1>2, <2>1
<1>5. E!Max(S) \in S /\ \A i \in S : E!Max(S) >= i
  BY <1>3, <1>4 DEF E!Max
<1>6. PICK m \in Nat : m = E!Max(S)
  BY <1>3, <1>5
<1>7. m = b
  BY <1>3, <1>4, <1>5, <1>6
<1> QED
  BY <1>1, <1>2, <1>6, <1>7

\* The time billed as idle is the time no turn was open.
LEMMA IdleIs ==
  ASSUME EventsInv, TurnsInv
  PROVE  IdleIsBetweenTurns
<1> SUFFICES ASSUME session # "removed", ~failed
             PROVE  E!foldPayroll.idle = E!Cardinality({t \in 1..E!BilledTo : ~E!InTurn(t)})
  BY DEF IdleIsBetweenTurns, E!IdleIsBetweenTurns
<1>1. EventsTypeOK /\ durable \in Nat /\ durable <= Len(log) /\ Len(log) \in Nat
      /\ session \in {"live", "ended", "removed"}
  BY DEF EventsInv, EventsTypeOK
<1>2. endedAt \in Nat /\ Orderly(log) /\ (endedAt = 0 \/ endedAt > durable)
  BY <1>1 DEF TurnsInv
<1>3. PICK l \in Seq(Envelopes), n \in Nat :
        l = E!spill /\ n = Len(l) /\ n = durable /\ \A i \in 1..n : l[i] = log[i]
  BY <1>1, SpillIs
<1>4. Orderly(l)
  BY <1>1, <1>2, <1>3, PrefixOrderly DEF EventsTypeOK
<1>5. PICK bill \in Bills, b \in Nat :
        /\ BilledUpTo(l, bill, n, b)
        /\ E!foldPayroll = IF endedAt = 0 THEN bill
                           ELSE [bill EXCEPT !.idle = @ + E!Since(bill, endedAt)]
  BY <1>1, <1>3, <1>4, PassIs
<1>6. PICK idle \in Int, cursor \in Int : idle = bill.idle /\ cursor = bill.cursor
  BY DEF Bills
<1>7. E!foldPayroll.idle = IF endedAt = 0 \/ cursor = -1 THEN idle ELSE idle + (endedAt - cursor)
  <2>1. CASE endedAt = 0
    BY <1>5, <1>6, <2>1
  <2>2. CASE endedAt # 0
    <3>1. PICK since \in Int : since = E!Since(bill, endedAt)
                               /\ since = IF cursor = -1 THEN 0 ELSE endedAt - cursor
      <4>1. E!Since(bill, endedAt) = IF cursor = -1 THEN 0 ELSE endedAt - cursor
        BY <1>6 DEF E!Since
      <4>2. (IF cursor = -1 THEN 0 ELSE endedAt - cursor) \in Int
        BY <1>2
      <4> QED
        BY <4>1, <4>2
    <3>2. E!foldPayroll.idle = idle + since
      BY <1>5, <1>6, <2>2, <3>1 DEF Bills
    <3> QED
      BY <2>2, <3>1, <3>2
  <2> QED
    BY <2>1, <2>2
<1>8. \A u \in Nat : E!Cardinality({t \in 1..u : ~E!InTurn(t)}) = Cardinality(Untaken(l, u))
  <2> SUFFICES ASSUME NEW u \in Nat
               PROVE  E!Cardinality({t \in 1..u : ~E!InTurn(t)}) = Cardinality(Untaken(l, u))
    OBVIOUS
  <2>1. \A t \in 1..u : E!InTurn(t) <=> TurnOpen(l, t)
    BY <1>1, <1>3, InTurnIs
  <2>2. {t \in 1..u : ~E!InTurn(t)} = Untaken(l, u)
    BY <2>1 DEF Untaken
  <2>3. PICK S : S = Untaken(l, u)
    OBVIOUS
  <2>4. E!Cardinality(S) = Cardinality(S)
    BY DEF E!Cardinality, Cardinality, E!IsFiniteSet, IsFiniteSet
  <2> QED
    BY <2>2, <2>3, <2>4
<1>9. /\ b \in 0..n /\ (b # 0 => l[b].kind = "turn.started")
      /\ \A i \in (b + 1)..n : l[i].kind # "turn.started"
      /\ idle = Cardinality(Untaken(l, b))
      /\ CutBefore(l, n + 1) => cursor = -1
      /\ ~CutBefore(l, n + 1) =>
           \/ cursor = -1 /\ \A t \in (b + 1)..(n + 1) : TurnOpen(l, t)
           \/ /\ cursor \in b..n
              /\ \A t \in (b + 1)..cursor : TurnOpen(l, t)
              /\ \A t \in (cursor + 1)..(n + 1) : ~TurnOpen(l, t)
  BY <1>5, <1>6 DEF BilledUpTo
<1>10. E!Holds(l, E!Notice("server_restart")) <=> CutBefore(l, n + 1)
  <2>1. E!Notice("server_restart").kind = "server_restart"
    BY DEF E!Notice, E!Envelope
  <2>2. DOMAIN l = 1..n /\ \A i \in 1..n : i < n + 1
    <3>1. DOMAIN l = 1..Len(l)
      BY LenProperties
    <3>2. \A i \in 1..n : i < n + 1
      OBVIOUS
    <3> QED
      BY <1>3, <3>1, <3>2
  <2>3. E!Holds(l, E!Notice("server_restart")) => CutBefore(l, n + 1)
    BY <1>3, <2>1, <2>2 DEF E!Holds, CutBefore
  <2>4. ASSUME CutBefore(l, n + 1) PROVE E!Holds(l, E!Notice("server_restart"))
    <3>1. PICK r \in 1..n : l[r].kind = "server_restart"
      BY <1>3, <2>4 DEF CutBefore
    <3>2. l[r] = E!Notice("server_restart")
      BY <1>3, <1>4, <3>1 DEF Orderly
    <3> QED
      BY <2>2, <3>2 DEF E!Holds
  <2> QED
    BY <2>3, <2>4
<1>11. E!BilledTo = IF endedAt # 0 /\ ~CutBefore(l, n + 1) THEN endedAt ELSE b
  <2>1. E!Max({0} \cup {i \in 1..durable : E!spill[i].kind = "turn.started"}) = b
    BY <1>1, <1>3, <1>9, LastStartIs
  <2> QED
    BY <1>3, <1>10, <2>1 DEF E!BilledTo
<1>12. CASE endedAt = 0 \/ CutBefore(l, n + 1)
  <2>1. E!BilledTo = b /\ E!foldPayroll.idle = idle
    BY <1>7, <1>9, <1>11, <1>12
  <2> QED
    BY <1>8, <1>9, <2>1
<1>13. CASE endedAt # 0 /\ ~CutBefore(l, n + 1)
  <2>1. E!BilledTo = endedAt /\ endedAt > n
    BY <1>2, <1>3, <1>11, <1>13
  <2>2. ASSUME NEW t \in (n + 1)..endedAt PROVE TurnOpen(l, t) <=> TurnOpen(l, n + 1)
    <3>1. \A k \in 1..n : k < t /\ k < n + 1
      BY <1>2
    <3> QED
      BY <1>3, <3>1 DEF TurnOpen
  <2>3. CASE cursor = -1 /\ \A t \in (b + 1)..(n + 1) : TurnOpen(l, t)
    <3>1. n + 1 \in (b + 1)..(n + 1)
      BY <1>9
    <3>2. \A t \in (b + 1)..endedAt : t \in (b + 1)..(n + 1) \/ t \in (n + 1)..endedAt
      BY <1>2, <1>9
    <3>3. \A t \in (b + 1)..endedAt : TurnOpen(l, t)
      BY <2>2, <2>3, <3>1, <3>2
    <3>4. Untaken(l, endedAt) = Untaken(l, b)
      <4>1. b <= endedAt
        BY <1>2, <1>9, <2>1
      <4> QED
        BY <1>2, <3>3, <4>1, IdleSame
    <3> QED
      BY <1>2, <1>7, <1>8, <1>9, <2>1, <2>3, <3>4
  <2>4. CASE /\ cursor \in b..n
             /\ \A t \in (b + 1)..cursor : TurnOpen(l, t)
             /\ \A t \in (cursor + 1)..(n + 1) : ~TurnOpen(l, t)
    <3>1. n + 1 \in (cursor + 1)..(n + 1) /\ cursor \in Nat /\ b <= cursor /\ cursor <= endedAt
      BY <1>2, <1>9, <2>1, <2>4
    <3>2. \A t \in (cursor + 1)..endedAt : t \in (cursor + 1)..(n + 1) \/ t \in (n + 1)..endedAt
      BY <1>2, <3>1
    <3>3. \A t \in (cursor + 1)..endedAt : ~TurnOpen(l, t)
      BY <2>2, <2>4, <3>1, <3>2
    <3>4. Cardinality(Untaken(l, endedAt)) = Cardinality(Untaken(l, b)) + (endedAt - cursor)
      BY <1>2, <2>4, <3>1, <3>3, IdleMore
    <3>5. E!foldPayroll.idle = idle + (endedAt - cursor)
      BY <1>7, <1>13, <3>1
    <3> QED
      BY <1>2, <1>8, <1>9, <2>1, <3>4, <3>5
  <2> QED
    BY <1>9, <1>13, <2>3, <2>4
<1> QED
  BY <1>12, <1>13

\* The idle time billed is the time in which no turn was open, up to the last
\* turn's start while the session lives or once a restart cut it short, and to
\* its end otherwise (payroll.ts, S16.5, S16.6 and D130).
THEOREM IdleTimeIsBetweenTurns == E!Spec => []IdleIsBetweenTurns
<1>1. EventsInv /\ TurnsInv => IdleIsBetweenTurns
  BY IdleIs
<1>2. EventsInv /\ TurnsInv /\ [E!Next]_E!vars => EventsInv' /\ TurnsInv'
  BY EventsStep, TurnsStep
<1> QED
  BY <1>1, <1>2, EventsBegin, TurnsStart, PTL DEF E!Spec

---------------------------------------------------------------------------
(* The transcript of LiveView.                                             *)


\* What a connection may carry, and what the edge may know of it.
Carriable == [kind : {"open", "lost", "gap", "envelope", "part"}, n : Nat]
Connections ==
  [mode : {"closed", "greeting", "asked", "replaying", "live"},
   after : Nat, through : Nat, upto : Nat, pending : Nat, slow : BOOLEAN]
ViewTypes ==
  /\ edge \in {"sse", "ws"} /\ highWater \in Nat /\ hole \in Nat
  /\ kinds \in Seq({"message", "note"}) /\ last <= MaxSeq /\ streamed \in 0..Parts
  /\ conn \in Connections /\ conn.pending <= highWater
  /\ stream \in {"dialling", "open", "abandoned"} /\ inbox \in Seq(Carriable)
  /\ lastId \in 0..last /\ lastSeq \in 0..last /\ refetched \in BOOLEAN
  /\ rows \in Seq(Nat) /\ bubble \subseteq 1..Parts

\* A session with a line lost has ended: all was said.
Over == hole # 0 => last = MaxSeq /\ hole < MaxSeq

\* Whoever is not connected has nothing more to say once it said so.
Linked ==
  /\ stream # "open" => inbox = << >> /\ conn.mode = "closed"
  /\ \A i \in DOMAIN inbox : inbox[i].kind = "lost" => i = Len(inbox) /\ conn.mode = "closed"
  /\ conn.mode = "greeting" => inbox = <<Opened>> /\ edge = "ws"
  /\ conn.mode = "asked" => inbox = << >> /\ conn.after = lastSeq
  /\ edge = "sse" => lastId = lastSeq

\* r is how far a console at s is when it comes to the i-th item of q,
Reaches(q, s, i, r) ==
  /\ r = s \/ \E j \in 1..(i - 1) : q[j] = Envelope(r)
  /\ s <= r
  /\ \A j \in 1..(i - 1) : IsEnvelope(q[j]) => q[j].n <= r
\* whether its rows, or the items before, say that history is missing,
GapBefore(q, rs, i) ==
  (\E j \in DOMAIN rs : rs[j] = GapRow) \/ \E j \in 1..(i - 1) : q[j].kind = "gap"
\* and the parts it then has drawn of the message to come, from b on.
Clears(ks, item) == item.kind = "open" \/ (IsEnvelope(item) /\ ks[item.n] = "message")
Drawn(q, ks, b, i) ==
  {p \in 1..Parts :
     \/ \E j \in 1..(i - 1) : /\ q[j] = Item("part", p)
                              /\ \A k \in (j + 1)..(i - 1) : ~Clears(ks, q[k])
     \/ p \in b /\ \A k \in 1..(i - 1) : ~Clears(ks, q[k])}
Whole(drawn, upto) == drawn \subseteq 1..upto /\ \A p \in drawn : p..upto \subseteq drawn

\* Each item follows on what comes before it.
FollowsOn(q, ks, s, b, rs, i) ==
  /\ IsEnvelope(q[i]) =>
       /\ q[i].n <= Len(ks)
       /\ \E r \in 0..Len(ks) : /\ Reaches(q, s, i, r) /\ r < q[i].n
                                /\ GapBefore(q, rs, i) \/ q[i].n = r + 1
       /\ ks[q[i].n] = "message" => Whole(Drawn(q, ks, b, i), Parts)
  /\ q[i].kind = "gap" => Reaches(q, s, i, q[i].n)
  /\ q[i].kind = "part" => q[i].n \in 1..Parts
Carries(q, ks, s, b, rs) == \A i \in DOMAIN q : FollowsOn(q, ks, s, b, rs, i)

Carried == Carries(inbox, kinds, lastSeq, bubble, rows)
AtEnd == Drawn(inbox, kinds, bubble, Len(inbox) + 1)
Attached ==
  /\ conn.mode \in {"replaying", "live"} =>
       conn.through <= last /\ Reaches(inbox, lastSeq, Len(inbox) + 1, conn.through)
  /\ conn.mode = "live" => (conn.through = last \/ hole # 0) /\ Whole(AtEnd, streamed)
  /\ conn.mode = "replaying" => conn.upto <= last
  /\ conn.mode \in {"greeting", "asked", "replaying"} => AtEnd = {}

\* The rows.
Shown ==
  /\ \A i \in DOMAIN rows :
       /\ rows[i] <= lastSeq
       /\ (\A j \in 1..i : rows[j] # GapRow) => rows[i] = i
       /\ rows[i] # GapRow => \A j \in 1..(i - 1) : rows[j] < rows[i]
  /\ (\A i \in DOMAIN rows : rows[i] # GapRow) => Len(rows) = lastSeq
  /\ \A drawn \in cut : Whole(drawn, Parts)

ViewInv == ViewTypes /\ Over /\ Linked /\ Carried /\ Attached /\ Shown

\* What is said of a first part of what is carried stays true of more that begins
\* the same: how far the console gets,
LEMMA PrefixReaches ==
  ASSUME NEW q, NEW p, NEW s, NEW r, NEW i \in Nat,
         \A j \in 1..(i - 1) : p[j] = q[j],
         Reaches(q, s, i, r)
  PROVE Reaches(p, s, i, r)
BY DEF Reaches

\* whether history was said to be missing,
LEMMA PrefixGaps ==
  ASSUME NEW q, NEW p, NEW rs, NEW i \in Nat,
         \A j \in 1..(i - 1) : p[j] = q[j],
         GapBefore(q, rs, i)
  PROVE GapBefore(p, rs, i)
BY DEF GapBefore

\* the parts drawn,
LEMMA PrefixDrawn ==
  ASSUME NEW q, NEW p, NEW ks, NEW b, NEW i \in Nat,
         \A j \in 1..(i - 1) : p[j] = q[j]
  PROVE Drawn(p, ks, b, i) = Drawn(q, ks, b, i)
<1>1. \A j \in 1..(i - 1) : Clears(ks, p[j]) <=> Clears(ks, q[j])
  BY DEF Clears, IsEnvelope
<1>2. \A j \in 1..(i - 1) : (j + 1)..(i - 1) \subseteq 1..(i - 1)
  OBVIOUS
<1>3. \A x : (\A k \in 1..(i - 1) : ~Clears(ks, p[k])) <=> (\A k \in 1..(i - 1) : ~Clears(ks, q[k]))
  BY <1>1
<1>4. \A j \in 1..(i - 1) :
        (\A k \in (j + 1)..(i - 1) : ~Clears(ks, p[k])) <=> (\A k \in (j + 1)..(i - 1) : ~Clears(ks, q[k]))
  BY <1>1, <1>2
<1> QED BY <1>3, <1>4 DEF Drawn

\* that an item follows,
LEMMA PrefixFollows ==
  ASSUME NEW q, NEW p, NEW ks, NEW s, NEW b, NEW rs, NEW i \in Nat \ {0},
         \A j \in 1..i : p[j] = q[j],
         FollowsOn(q, ks, s, b, rs, i)
  PROVE FollowsOn(p, ks, s, b, rs, i)
<1>1. p[i] = q[i] /\ \A j \in 1..(i - 1) : p[j] = q[j]
  OBVIOUS
<1>2. \A r : Reaches(q, s, i, r) => Reaches(p, s, i, r)
  BY <1>1, PrefixReaches
<1>3. GapBefore(q, rs, i) => GapBefore(p, rs, i)
  BY <1>1, PrefixGaps
<1>4. Drawn(p, ks, b, i) = Drawn(q, ks, b, i)
  BY <1>1, PrefixDrawn
<1> QED BY <1>1, <1>2, <1>3, <1>4 DEF FollowsOn

\* and that every item does, also of a part cut off.
LEMMA PrefixCarries ==
  ASSUME NEW q \in Seq(Carriable), NEW n \in 0..Len(q), NEW p \in Seq(Carriable),
         NEW ks, NEW s, NEW b, NEW rs, Carries(q, ks, s, b, rs),
         Len(p) = n, \A j \in 1..n : p[j] = q[j]
  PROVE Carries(p, ks, s, b, rs)
<1>1. DOMAIN p = 1..n /\ DOMAIN q = 1..Len(q) /\ n \in Nat /\ Len(q) \in Nat
  OBVIOUS
<1> SUFFICES ASSUME NEW i \in 1..n PROVE FollowsOn(p, ks, s, b, rs, i)
  BY <1>1 DEF Carries
<1>2. FollowsOn(q, ks, s, b, rs, i)
  BY <1>1 DEF Carries
<1>3. i \in Nat \ {0} /\ \A j \in 1..i : p[j] = q[j]
  BY <1>1
<1> QED BY <1>2, <1>3, PrefixFollows

\* One more item is carried.
LEMMA Appended ==
  ASSUME NEW q \in Seq(Carriable), NEW e \in Carriable
  PROVE /\ Append(q, e) \in Seq(Carriable)
        /\ Len(Append(q, e)) = Len(q) + 1 /\ Len(q) \in Nat
        /\ DOMAIN Append(q, e) = 1..(Len(q) + 1) /\ DOMAIN q = 1..Len(q)
        /\ \A j \in 1..Len(q) : Append(q, e)[j] = q[j]
        /\ Append(q, e)[Len(q) + 1] = e
OBVIOUS

\* If it follows on the others, all do,
LEMMA CarriesOneMore ==
  ASSUME NEW q \in Seq(Carriable), NEW e \in Carriable,
         NEW ks, NEW s, NEW b, NEW rs, Carries(q, ks, s, b, rs),
         FollowsOn(Append(q, e), ks, s, b, rs, Len(q) + 1)
  PROVE Carries(Append(q, e), ks, s, b, rs)
<1>1. PICK p : p = Append(q, e)
  OBVIOUS
<1>2. PICK m : m = Len(q)
  OBVIOUS
<1>3. /\ m \in Nat /\ DOMAIN p = 1..(m + 1) /\ DOMAIN q = 1..m
      /\ \A j \in 1..m : p[j] = q[j]
  BY <1>1, <1>2, Appended
<1>4. FollowsOn(p, ks, s, b, rs, m + 1)
  BY <1>1, <1>2
<1> SUFFICES ASSUME NEW i \in 1..(m + 1) PROVE FollowsOn(p, ks, s, b, rs, i)
  BY <1>1, <1>3 DEF Carries
<1>5. CASE i = m + 1
  BY <1>4, <1>5
<1>6. CASE i # m + 1
  <2>1. i \in 1..m /\ i \in Nat \ {0}
    BY <1>3, <1>6
  <2>2. FollowsOn(q, ks, s, b, rs, i)
    BY <2>1, <1>3 DEF Carries
  <2>3. \A j \in 1..i : p[j] = q[j]
    BY <2>1, <1>3
  <2> QED BY <2>1, <2>2, <2>3, PrefixFollows
<1> QED BY <1>5, <1>6

\* the console gets as far as it takes it,
LEMMA ReachesOne ==
  ASSUME NEW q \in Seq(Carriable), NEW e \in Carriable, NEW s \in Nat, NEW t \in Nat, NEW r \in Nat,
         Reaches(q, s, Len(q) + 1, t),
         IF IsEnvelope(e) THEN e = Envelope(r) /\ t <= r ELSE r = t
  PROVE Reaches(Append(q, e), s, Len(q) + 2, r)
<1>1. PICK p : p = Append(q, e)
  OBVIOUS
<1>2. PICK m : m = Len(q)
  OBVIOUS
<1>3. m \in Nat /\ (\A j \in 1..m : p[j] = q[j]) /\ p[m + 1] = e
  BY <1>1, <1>2, Appended
<1>4. (m + 1) - 1 = m /\ (m + 2) - 1 = m + 1
  BY <1>3
<1>5. /\ t = s \/ \E j \in 1..m : p[j] = Envelope(t)
      /\ s <= t
      /\ \A j \in 1..m : IsEnvelope(p[j]) => p[j].n <= t
  BY <1>2, <1>3, <1>4 DEF Reaches
<1>6. \A j \in 1..(m + 1) : j \in 1..m \/ j = m + 1
  BY <1>3
<1>7. \A j \in 1..m : q[j] \in Carriable
  BY <1>2
<1>8. \A j \in 1..m : p[j].n \in Nat
  BY <1>7, <1>3 DEF Carriable
<1>9. t <= r /\ (IsEnvelope(e) => e.n = r)
  BY DEF Envelope, Item
<1>10. \A j \in 1..(m + 1) : IsEnvelope(p[j]) => p[j].n <= r
  <2>1. \A j \in 1..m : IsEnvelope(p[j]) => p[j].n <= r
    BY <1>5, <1>8, <1>9
  <2>2. IsEnvelope(p[m + 1]) => p[m + 1].n <= r
    BY <1>3, <1>9
  <2> QED
    BY <2>1, <2>2, <1>6
<1>11. r = s \/ \E j \in 1..(m + 1) : p[j] = Envelope(r)
  <2>1. CASE IsEnvelope(e)
    BY <2>1, <1>3
  <2>2. CASE ~IsEnvelope(e)
    BY <2>2, <1>3, <1>5
  <2> QED BY <2>1, <2>2
<1>12. s <= r
  BY <1>5, <1>9
<1> QED BY <1>1, <1>2, <1>4, <1>10, <1>11, <1>12 DEF Reaches

\* and has drawn what it says.
LEMMA DrawnOne ==
  ASSUME NEW q \in Seq(Carriable), NEW e \in Carriable, NEW ks, NEW b
  PROVE Drawn(Append(q, e), ks, b, Len(q) + 2) =
          IF Clears(ks, e) THEN {}
          ELSE Drawn(q, ks, b, Len(q) + 1) \cup {p \in 1..Parts : e = Item("part", p)}
<1>1. PICK p : p = Append(q, e)
  OBVIOUS
<1>2. PICK m : m = Len(q)
  OBVIOUS
<1>3. m \in Nat /\ (\A j \in 1..m : p[j] = q[j]) /\ p[m + 1] = e
  BY <1>1, <1>2, Appended
<1>4. (m + 1) - 1 = m /\ (m + 2) - 1 = m + 1
  BY <1>3
<1>5. \A j \in 1..(m + 1) : j \in 1..m \/ j = m + 1
  BY <1>3
<1>6. Drawn(q, ks, b, m + 1) = Drawn(p, ks, b, m + 1)
  BY <1>3, <1>4, m + 1 \in Nat, PrefixDrawn
<1>7. CASE Clears(ks, e)
  <2>1. ~ \E x \in 1..Parts : x \in Drawn(p, ks, b, m + 2)
    <3> SUFFICES ASSUME NEW x \in Drawn(p, ks, b, m + 2) PROVE FALSE
      OBVIOUS
    <3>1. CASE \E j \in 1..(m + 1) : p[j] = Item("part", x) /\ \A k \in (j + 1)..(m + 1) : ~Clears(ks, p[k])
      <4>1. PICK j \in 1..(m + 1) : p[j] = Item("part", x) /\ \A k \in (j + 1)..(m + 1) : ~Clears(ks, p[k])
        BY <3>1
      <4>2. j # m + 1
        <5>1. ~Clears(ks, Item("part", x))
          BY DEF Clears, Item, IsEnvelope
        <5> QED BY <5>1, <4>1, <1>3, <1>7
      <4>3. m + 1 \in (j + 1)..(m + 1)
        BY <4>2, <1>3
      <4> QED BY <4>1, <4>3, <1>3, <1>7
    <3>2. CASE \A k \in 1..(m + 1) : ~Clears(ks, p[k])
      BY <3>2, <1>3, <1>7, m + 1 \in 1..(m + 1)
    <3> QED BY <3>1, <3>2, <1>4 DEF Drawn
  <2>2. Drawn(p, ks, b, m + 2) \subseteq 1..Parts
    BY DEF Drawn
  <2> QED BY <2>1, <2>2, <1>1, <1>2, <1>7
<1>8. CASE ~Clears(ks, e)
  <2>1. \A j \in 1..m : (\A k \in (j + 1)..(m + 1) : ~Clears(ks, p[k])) <=> (\A k \in (j + 1)..m : ~Clears(ks, p[k]))
    BY <1>3, <1>8
  <2>2. (\A k \in 1..(m + 1) : ~Clears(ks, p[k])) <=> (\A k \in 1..m : ~Clears(ks, p[k]))
    BY <1>3, <1>8
  <2>3. \A k \in ((m + 1) + 1)..(m + 1) : ~Clears(ks, p[k])
    BY <1>3
  <2>4. \A x \in 1..Parts :
          (\E j \in 1..(m + 1) : p[j] = Item("part", x) /\ \A k \in (j + 1)..(m + 1) : ~Clears(ks, p[k]))
          <=> (\E j \in 1..m : p[j] = Item("part", x) /\ \A k \in (j + 1)..m : ~Clears(ks, p[k])) \/ e = Item("part", x)
    <3> SUFFICES ASSUME NEW x \in 1..Parts
                 PROVE (\E j \in 1..(m + 1) : p[j] = Item("part", x) /\ \A k \in (j + 1)..(m + 1) : ~Clears(ks, p[k]))
          <=> (\E j \in 1..m : p[j] = Item("part", x) /\ \A k \in (j + 1)..m : ~Clears(ks, p[k])) \/ e = Item("part", x)
      OBVIOUS
    <3>1. m + 1 \in 1..(m + 1) /\ 1..m \subseteq 1..(m + 1)
      BY <1>3
    <3> HIDE DEF Item
    <3> QED BY <1>3, <1>5, <2>1, <2>3, <3>1
  <2>5. \A x \in 1..Parts :
          x \in Drawn(p, ks, b, m + 2) <=> x \in Drawn(p, ks, b, m + 1) \/ e = Item("part", x)
    BY <2>2, <2>4, <1>4 DEF Drawn
  <2>6. Drawn(p, ks, b, m + 2) \subseteq 1..Parts /\ Drawn(p, ks, b, m + 1) \subseteq 1..Parts
    BY DEF Drawn
  <2>7. Drawn(p, ks, b, m + 2) = Drawn(p, ks, b, m + 1) \cup {x \in 1..Parts : e = Item("part", x)}
    BY <2>5, <2>6
  <2> QED BY <2>7, <1>1, <1>2, <1>6, <1>8
<1> QED BY <1>7, <1>8

\* Several items are carried after others.
LEMMA Joined ==
  ASSUME NEW q \in Seq(Carriable), NEW items \in Seq(Carriable)
  PROVE /\ q \o items \in Seq(Carriable)
        /\ Len(q \o items) = Len(q) + Len(items) /\ Len(q) \in Nat /\ Len(items) \in Nat
        /\ DOMAIN (q \o items) = 1..(Len(q) + Len(items))
        /\ DOMAIN q = 1..Len(q) /\ DOMAIN items = 1..Len(items)
        /\ \A j \in 1..Len(q) : (q \o items)[j] = q[j]
        /\ \A j \in 1..Len(items) : (q \o items)[Len(q) + j] = items[j]
<1>1. PICK m \in Nat : m = Len(q)
  OBVIOUS
<1>2. PICK l \in Nat : l = Len(items)
  OBVIOUS
<1>3. \A j \in 1..(m + l) : (q \o items)[j] = IF j <= m THEN q[j] ELSE items[j - m]
  BY ConcatProperties, <1>1, <1>2
<1>4. \A j \in 1..m : (q \o items)[j] = q[j]
  <2>1. \A j \in 1..m : j \in 1..(m + l) /\ j <= m
    OBVIOUS
  <2> QED BY <2>1, <1>3
<1>5. \A j \in 1..l : (q \o items)[m + j] = items[j]
  <2> SUFFICES ASSUME NEW j \in 1..l PROVE (q \o items)[m + j] = items[j]
    OBVIOUS
  <2>1. m + j \in 1..(m + l) /\ ~(m + j <= m) /\ (m + j) - m = j
    OBVIOUS
  <2> QED BY <2>1, <1>3
<1> QED BY <1>1, <1>2, <1>4, <1>5, ConcatProperties, LenProperties

\* How far the console gets by them,
LEMMA ReachesOn ==
  ASSUME NEW q \in Seq(Carriable), NEW items \in Seq(Carriable),
         NEW s \in Nat, NEW t \in Nat, NEW r \in Nat, NEW k \in 0..Len(items),
         Reaches(q, s, Len(q) + 1, t), Reaches(items, t, k + 1, r)
  PROVE Reaches(q \o items, s, Len(q) + k + 1, r)
<1>1. PICK p : p = q \o items
  OBVIOUS
<1>2. PICK m : m = Len(q)
  OBVIOUS
<1>3. PICK l : l = Len(items)
  OBVIOUS
<1>4. /\ m \in Nat /\ l \in Nat /\ k \in Nat /\ k <= l
      /\ \A j \in 1..m : p[j] = q[j]
      /\ \A j \in 1..k : p[m + j] = items[j]
  BY <1>1, <1>2, <1>3, Joined
<1>5. (m + 1) - 1 = m /\ (k + 1) - 1 = k /\ (m + k + 1) - 1 = m + k
  BY <1>4
<1>6. /\ t = s \/ \E j \in 1..m : p[j] = Envelope(t)
      /\ s <= t
      /\ \A j \in 1..m : IsEnvelope(p[j]) => p[j].n <= t
  BY <1>2, <1>4, <1>5 DEF Reaches
<1>7. /\ r = t \/ \E j \in 1..k : p[m + j] = Envelope(r)
      /\ t <= r
      /\ \A j \in 1..k : IsEnvelope(p[m + j]) => p[m + j].n <= r
  BY <1>4, <1>5 DEF Reaches
<1>8. \A j \in 1..(m + k) : j \in 1..m \/ \E i \in 1..k : j = m + i
  <2> SUFFICES ASSUME NEW j \in 1..(m + k), j \notin 1..m PROVE \E i \in 1..k : j = m + i
    OBVIOUS
  <2>1. j - m \in 1..k /\ j = m + (j - m)
    BY <1>4
  <2> QED BY <2>1
<1>9. 1..m \subseteq 1..(m + k) /\ \A i \in 1..k : m + i \in 1..(m + k)
  BY <1>4
<1>10. \A j \in 1..m : p[j].n \in Nat
  <2>1. \A j \in 1..m : q[j] \in Carriable
    BY <1>2
  <2> QED BY <2>1, <1>4 DEF Carriable
<1>11. \A j \in 1..(m + k) : IsEnvelope(p[j]) => p[j].n <= r
  <2>1. \A j \in 1..m : IsEnvelope(p[j]) => p[j].n <= r
    BY <1>6, <1>7, <1>10
  <2> QED BY <2>1, <1>7, <1>8
<1>12. r = s \/ \E j \in 1..(m + k) : p[j] = Envelope(r)
  BY <1>6, <1>7, <1>9
<1>13. s <= r
  BY <1>6, <1>7
<1> QED BY <1>1, <1>2, <1>5, <1>11, <1>12, <1>13 DEF Reaches

\* and what it has drawn then.
LEMMA DrawnOn ==
  ASSUME NEW q \in Seq(Carriable), NEW items \in Seq(Carriable), NEW ks, NEW b, NEW k \in 0..Len(items),
         \A j \in 1..Len(items) : items[j].kind # "part"
  PROVE Drawn(q \o items, ks, b, Len(q) + k + 1) \subseteq Drawn(q, ks, b, Len(q) + 1)
<1>1. PICK p : p = q \o items
  OBVIOUS
<1>2. PICK m : m = Len(q)
  OBVIOUS
<1>3. PICK l : l = Len(items)
  OBVIOUS
<1>4. /\ m \in Nat /\ l \in Nat /\ k \in Nat /\ k <= l
      /\ \A j \in 1..m : p[j] = q[j]
      /\ \A j \in 1..k : p[m + j] = items[j]
  BY <1>1, <1>2, <1>3, Joined
<1>5. (m + 1) - 1 = m /\ (m + k + 1) - 1 = m + k
  BY <1>4
<1>6. Drawn(q, ks, b, m + 1) = Drawn(p, ks, b, m + 1)
  BY <1>4, <1>5, m + 1 \in Nat, PrefixDrawn
<1>7. Drawn(p, ks, b, m + k + 1) \subseteq Drawn(p, ks, b, m + 1)
  <2> SUFFICES ASSUME NEW x \in Drawn(p, ks, b, m + k + 1) PROVE x \in Drawn(p, ks, b, m + 1)
    OBVIOUS
  <2>1. x \in 1..Parts
    BY DEF Drawn
  <2>2. CASE \E j \in 1..(m + k) : p[j] = Item("part", x) /\ \A i \in (j + 1)..(m + k) : ~Clears(ks, p[i])
    <3>1. PICK j \in 1..(m + k) : p[j] = Item("part", x) /\ \A i \in (j + 1)..(m + k) : ~Clears(ks, p[i])
      BY <2>2
    <3>2. j \in 1..m
      <4> SUFFICES ASSUME j \notin 1..m PROVE FALSE
        OBVIOUS
      <4>1. j - m \in 1..k /\ j - m \in 1..l /\ j = m + (j - m)
        BY <1>4
      <4>2. items[j - m] = Item("part", x)
        BY <4>1, <3>1, <1>4
      <4> QED BY <4>1, <4>2, <1>3 DEF Item
    <3>3. (j + 1)..m \subseteq (j + 1)..(m + k)
      BY <1>4
    <3> QED BY <3>1, <3>2, <3>3, <2>1, <1>5 DEF Drawn
  <2>3. CASE x \in b /\ \A i \in 1..(m + k) : ~Clears(ks, p[i])
    <3>1. 1..m \subseteq 1..(m + k)
      BY <1>4
    <3> QED BY <2>3, <3>1, <2>1, <1>5 DEF Drawn
  <2> QED BY <2>2, <2>3, <1>5 DEF Drawn
<1> QED BY <1>1, <1>2, <1>6, <1>7

\* Envelopes of consecutive seqs, from the one after f.
IsRun(items, f) == \A i \in DOMAIN items : items[i] = Envelope(f + i)

\* How far they get the console,
LEMMA RunReaches ==
  ASSUME NEW items \in Seq(Carriable), NEW t \in Nat, NEW f \in Nat, t <= f, IsRun(items, f),
         NEW k \in 0..Len(items)
  PROVE /\ (IF k = 0 THEN t ELSE f + k) \in Nat
        /\ Reaches(items, t, k + 1, IF k = 0 THEN t ELSE f + k)
<1>1. DOMAIN items = 1..Len(items) /\ Len(items) \in Nat /\ k \in Nat /\ (k + 1) - 1 = k
  OBVIOUS
<1>2. \A j \in 1..k : items[j] = Envelope(f + j)
  BY <1>1 DEF IsRun
<1>3. \A j \in 1..k : items[j].n = f + j
  <2>1. \A x : Envelope(x).n = x
    BY DEF Envelope, Item
  <2> QED BY <1>2, <2>1
<1>4. CASE k = 0
  BY <1>1, <1>4 DEF Reaches
<1>5. CASE k # 0
  <2>1. k \in 1..k /\ items[k] = Envelope(f + k)
    BY <1>1, <1>2, <1>5
  <2>2. \A j \in 1..k : f + j <= f + k
    BY <1>1
  <2>3. t <= f + k /\ f + k \in Nat
    BY <1>1
  <2> QED BY <1>1, <1>3, <1>5, <2>1, <2>2, <2>3 DEF Reaches
<1> QED BY <1>4, <1>5

\* and that they may follow on what got it to f.
LEMMA RunCarries ==
  ASSUME NEW q \in Seq(Carriable), NEW items \in Seq(Carriable),
         NEW ks \in Seq({"message", "note"}), NEW s \in Nat, NEW b, NEW rs, NEW t \in Nat, NEW f \in Nat,
         Carries(q, ks, s, b, rs), Reaches(q, s, Len(q) + 1, t),
         t <= f, t = f \/ GapBefore(q, rs, Len(q) + 1),
         IsRun(items, f), f + Len(items) <= Len(ks), Drawn(q, ks, b, Len(q) + 1) = {}
  PROVE Carries(q \o items, ks, s, b, rs)
<1>1. PICK p : p = q \o items
  OBVIOUS
<1>2. PICK m : m = Len(q)
  OBVIOUS
<1>3. PICK l : l = Len(items)
  OBVIOUS
<1>4. /\ m \in Nat /\ l \in Nat /\ Len(ks) \in Nat
      /\ DOMAIN p = 1..(m + l) /\ DOMAIN q = 1..m /\ DOMAIN items = 1..l
      /\ \A j \in 1..m : p[j] = q[j]
      /\ \A j \in 1..l : p[m + j] = items[j]
  BY <1>1, <1>2, <1>3, Joined
<1> SUFFICES ASSUME NEW i \in 1..(m + l) PROVE FollowsOn(p, ks, s, b, rs, i)
  BY <1>1, <1>4 DEF Carries
<1>5. CASE i \in 1..m
  <2>1. FollowsOn(q, ks, s, b, rs, i)
    BY <1>4, <1>5 DEF Carries
  <2>2. i \in Nat \ {0} /\ \A j \in 1..i : p[j] = q[j]
    BY <1>4, <1>5
  <2> QED BY <2>1, <2>2, PrefixFollows
<1>6. CASE i \notin 1..m
  <2>1. PICK k \in Nat : i = m + k + 1
    <3>1. i - (m + 1) \in Nat /\ i = m + (i - (m + 1)) + 1
      BY <1>4, <1>6
    <3> QED BY <3>1
  <2>2. k \in 0..l /\ k + 1 \in 1..l /\ i = m + (k + 1)
    BY <2>1, <1>4
  <2>3. p[i] = Envelope(f + (k + 1))
    BY <2>2, <1>4 DEF IsRun
  <2>4. PICK r \in Nat : r = IF k = 0 THEN t ELSE f + k
    BY <2>1
  <2>5. Reaches(items, t, k + 1, r)
    BY <2>2, <2>4, <1>3, RunReaches
  <2>6. Reaches(p, s, i, r)
    <3>1. k \in 0..Len(items)
      BY <2>2, <1>3
    <3>2. Reaches(q \o items, s, Len(q) + k + 1, r)
      BY <3>1, <2>5, ReachesOn
    <3>3. Len(q) + k + 1 = i
      BY <2>1, <1>2
    <3> QED BY <3>2, <3>3, <1>1
  <2>7. \A j \in 1..l : items[j].kind # "part"
    <3>1. \A x : Envelope(x).kind = "envelope"
      BY DEF Envelope, Item
    <3>2. \A j \in 1..l : items[j] = Envelope(f + j)
      BY <1>4 DEF IsRun
    <3> SUFFICES ASSUME NEW j \in 1..l PROVE items[j].kind # "part"
      OBVIOUS
    <3>3. items[j].kind = Envelope(f + j).kind
      BY <3>2
    <3>4. items[j].kind = "envelope"
      BY <3>1, <3>3
    <3> QED BY <3>4
  <2>8. Drawn(p, ks, b, i) = {}
    BY <2>1, <2>2, <2>7, <1>1, <1>2, <1>3, DrawnOn
  <2>9. t = f \/ GapBefore(p, rs, i)
    <3> SUFFICES ASSUME GapBefore(q, rs, m + 1) PROVE GapBefore(p, rs, i)
      BY <1>2
    <3>1. (m + 1) - 1 = m /\ 1..m \subseteq 1..(i - 1)
      <4>1. m \in Nat /\ k \in Nat /\ i - 1 = m + k
        BY <2>1, <1>4
      <4> QED BY <4>1
    <3> QED BY <3>1, <1>4 DEF GapBefore
  <2>10. p[i].kind = "envelope" /\ p[i].n = f + (k + 1)
    BY <2>3 DEF Envelope, Item
  <2>11. p[i].n <= Len(ks) /\ r < p[i].n /\ r \in 0..Len(ks)
    BY <2>2, <2>4, <2>10, <1>3, <1>4
  <2>12. GapBefore(p, rs, i) \/ p[i].n = r + 1
    <3> SUFFICES ASSUME t = f PROVE f + (k + 1) = r + 1
      BY <2>9, <2>10
    <3> QED BY <2>4, <2>1
  <2>13. Whole({}, Parts)
    BY DEF Whole
  <2> QED BY <2>6, <2>8, <2>10, <2>11, <2>12, <2>13 DEF FollowsOn
<1> QED BY <1>5, <1>6

\* What a connection may carry.
LEMMA Frames ==
  /\ Opened \in Carriable /\ Opened.kind = "open"
  /\ \A n \in Nat : /\ Lost(n) \in Carriable /\ ReplayGap(n) \in Carriable
                    /\ Envelope(n) \in Carriable /\ Item("part", n) \in Carriable
  /\ \A n : /\ Lost(n).kind = "lost" /\ ReplayGap(n).kind = "gap" /\ ReplayGap(n).n = n
            /\ Envelope(n).kind = "envelope" /\ Envelope(n).n = n
            /\ Item("part", n).kind = "part" /\ Item("part", n).n = n
BY DEF Opened, Lost, ReplayGap, Envelope, Item, Carriable

\* No connection was lost yet, or only the last item says so.
NoneLost(q) == \A i \in DOMAIN q : q[i].kind # "lost"
LostLast(q) == \A i \in DOMAIN q : q[i].kind = "lost" => i = Len(q)

\* A connection that ends.
LEMMA Ends ==
  ASSUME NEW q \in Seq(Carriable), NEW ks, NEW s \in Nat, NEW b, NEW rs, NEW code \in Nat,
         Carries(q, ks, s, b, rs), NoneLost(q)
  PROVE /\ Append(q, Lost(code)) \in Seq(Carriable)
        /\ Carries(Append(q, Lost(code)), ks, s, b, rs)
        /\ LostLast(Append(q, Lost(code)))
<1>1. Lost(code) \in Carriable /\ Lost(code).kind = "lost"
  BY Frames
<1>2. PICK e \in Carriable : e = Lost(code)
  BY <1>1
<1>3. Append(q, e) \in Seq(Carriable) /\ Len(Append(q, e)) = Len(q) + 1 /\ Len(q) \in Nat
  BY Appended
<1>4. Append(q, e)[Len(q) + 1].kind \in {"open", "lost"}
  <2>1. Append(q, e)[Len(q) + 1] = e
    BY Appended
  <2> QED BY <2>1, <1>1, <1>2
<1>5. FollowsOn(Append(q, e), ks, s, b, rs, Len(q) + 1)
  <2>1. PICK p : p = Append(q, e)
    OBVIOUS
  <2>2. PICK i : i = Len(q) + 1
    OBVIOUS
  <2>3. p[i].kind = "open" \/ p[i].kind = "lost"
    BY <1>4, <2>1, <2>2
  <2>4. FollowsOn(p, ks, s, b, rs, i)
    BY <2>3 DEF FollowsOn, IsEnvelope
  <2> QED BY <2>1, <2>2, <2>4
<1>6. Carries(Append(q, e), ks, s, b, rs)
  BY <1>5, CarriesOneMore
<1>7. LostLast(Append(q, e))
  <2>1. \A j \in 1..Len(q) : Append(q, e)[j].kind # "lost"
    BY Appended DEF NoneLost
  <2>2. DOMAIN Append(q, e) = 1..(Len(q) + 1)
    BY Appended
  <2> QED BY <2>1, <2>2, <1>3 DEF LostLast
<1> QED BY <1>2, <1>3, <1>6, <1>7

\* The same, behind the gap that says how far it got.
LEMMA GapEnds ==
  ASSUME NEW q \in Seq(Carriable), NEW ks, NEW s \in Nat, NEW b, NEW rs, NEW code \in Nat,
         Carries(q, ks, s, b, rs), NoneLost(q), NEW t \in Nat, Reaches(q, s, Len(q) + 1, t)
  PROVE /\ q \o <<ReplayGap(t), Lost(code)>> \in Seq(Carriable)
        /\ Carries(q \o <<ReplayGap(t), Lost(code)>>, ks, s, b, rs)
        /\ LostLast(q \o <<ReplayGap(t), Lost(code)>>)
<1>1. PICK g \in Carriable : g = ReplayGap(t)
  BY Frames
<1>2. PICK e \in Carriable : e = Lost(code)
  BY Frames
<1>3. q \o <<g, e>> = Append(Append(q, g), e)
  OBVIOUS
<1>4. PICK p : p = Append(q, g)
  OBVIOUS
<1>5. PICK m \in Nat : m = Len(q)
  OBVIOUS
<1>6. /\ p \in Seq(Carriable) /\ DOMAIN p = 1..(m + 1) /\ DOMAIN q = 1..m
      /\ (\A j \in 1..m : p[j] = q[j]) /\ p[m + 1] = g
  BY <1>4, <1>5, Appended
<1>7. g.kind = "gap" /\ g.n = t
  BY <1>1, Frames
<1>8. Reaches(p, s, m + 1, t)
  <2>1. m + 1 \in Nat /\ (m + 1) - 1 = m
    OBVIOUS
  <2> QED BY <2>1, <1>5, <1>6, PrefixReaches
<1>9. FollowsOn(p, ks, s, b, rs, m + 1)
  BY <1>6, <1>7, <1>8 DEF FollowsOn, IsEnvelope
<1>10. Carries(p, ks, s, b, rs)
  BY <1>4, <1>5, <1>9, CarriesOneMore
<1>11. NoneLost(p)
  <2>1. \A i \in 1..(m + 1) : i \in 1..m \/ i = m + 1
    OBVIOUS
  <2> QED BY <2>1, <1>6, <1>7 DEF NoneLost
<1>12. p \in Seq(Carriable)
  BY <1>6
<1>13. /\ Append(p, Lost(code)) \in Seq(Carriable)
       /\ Carries(Append(p, Lost(code)), ks, s, b, rs)
       /\ LostLast(Append(p, Lost(code)))
  BY <1>12, <1>10, <1>11, Ends, ZenonT(60)
<1>14. q \o <<ReplayGap(t), Lost(code)>> = Append(p, Lost(code))
  BY <1>1, <1>2, <1>3, <1>4
<1> QED BY <1>13, <1>14

\* The last seq that was written, and where the console gets by it.
LEMMA SeenIs ==
  ASSUME NEW c \in Connections, NEW items \in Seq(Carriable), NEW r \in Nat,
         Reaches(items, c.through, Len(items) + 1, r)
  PROVE Seen(c, items) = r
<1> DEFINE seqs == {c.through} \cup {items[i].n : i \in {j \in DOMAIN items : IsEnvelope(items[j])}}
<1>1. PICK l \in Nat : l = Len(items) /\ DOMAIN items = 1..l /\ (l + 1) - 1 = l
  OBVIOUS
<1>2. /\ r = c.through \/ \E j \in 1..l : items[j] = Envelope(r)
      /\ c.through <= r
      /\ \A j \in 1..l : IsEnvelope(items[j]) => items[j].n <= r
  BY <1>1 DEF Reaches
<1>3. r \in seqs
  BY <1>1, <1>2, Frames DEF IsEnvelope
<1>4. \A x \in seqs : x <= r
  BY <1>1, <1>2
<1>5. seqs \subseteq Nat
  <2>1. \A j \in 1..l : items[j] \in Carriable
    BY <1>1
  <2>2. c.through \in Nat
    BY DEF Connections
  <2> QED BY <2>1, <2>2, <1>1 DEF Carriable
<1>6. Seen(c, items) = CHOOSE x \in seqs : \A y \in seqs : x >= y
  BY DEF Seen, Max
<1> HIDE DEF seqs
<1>7. r \in seqs /\ \A y \in seqs : r >= y
  BY <1>3, <1>4, <1>5
<1>8. PICK x \in seqs : x = (CHOOSE z \in seqs : \A y \in seqs : z >= y) /\ \A y \in seqs : x >= y
  BY <1>7
<1>9. x = r
  BY <1>7, <1>8, <1>5
<1> QED BY <1>6, <1>8, <1>9

\* What guardedWrite leaves: all items written, or a first part of them and the end.
LEMMA Offered ==
  ASSUME NEW c \in Connections, c.pending <= highWater, highWater \in Nat,
         NEW q \in Seq(Carriable), NEW items \in Seq(Carriable),
         NEW ks, NEW s \in Nat, NEW b, NEW rs,
         Carries(q \o items, ks, s, b, rs), Reaches(q, s, Len(q) + 1, c.through),
         \A k \in 0..Len(items) : \E r \in Nat : Reaches(items, c.through, k + 1, r),
         NoneLost(q), NoneLost(items),
         Write(c, q, items)
  PROVE /\ conn' \in Connections /\ conn'.pending <= highWater
        /\ inbox' \in Seq(Carriable) /\ Carries(inbox', ks, s, b, rs)
        /\ \/ conn' = Closed /\ LostLast(inbox')
           \/ /\ inbox' = q \o items /\ NoneLost(inbox')
              /\ conn'.mode = c.mode /\ conn'.after = c.after /\ conn'.upto = c.upto
              /\ Reaches(items, c.through, Len(items) + 1, conn'.through)
              /\ Reaches(inbox', s, Len(inbox') + 1, conn'.through)
<1>1. PICK m \in Nat : m = Len(q)
  OBVIOUS
<1>2. PICK l \in Nat : l = Len(items)
  OBVIOUS
<1>3. PICK p : p = q \o items
  OBVIOUS
<1>4. /\ p \in Seq(Carriable) /\ Len(p) = m + l /\ DOMAIN p = 1..(m + l)
      /\ DOMAIN q = 1..m /\ DOMAIN items = 1..l
      /\ \A j \in 1..m : p[j] = q[j]
      /\ \A j \in 1..l : p[m + j] = items[j]
  BY <1>1, <1>2, <1>3, Joined
<1>5. \A j \in 1..(m + l) : j \in 1..m \/ \E k \in 1..l : j = m + k
  <2> SUFFICES ASSUME NEW j \in 1..(m + l), j \notin 1..m PROVE \E k \in 1..l : j = m + k
    OBVIOUS
  <2>1. j - m \in 1..l /\ j = m + (j - m)
    OBVIOUS
  <2> QED BY <2>1
<1>6. NoneLost(p)
  <2> SUFFICES ASSUME NEW j \in 1..(m + l) PROVE p[j].kind # "lost"
    BY <1>4 DEF NoneLost
  <2>1. CASE j \in 1..m
    BY <2>1, <1>4 DEF NoneLost
  <2>2. CASE j \notin 1..m
    <3>1. PICK k \in 1..l : j = m + k
      BY <2>2, <1>5
    <3> QED BY <3>1, <1>4 DEF NoneLost
  <2> QED BY <2>1, <2>2
<1>7. c.pending \in Nat /\ c.through \in Nat /\ c.slow \in BOOLEAN
  BY DEF Connections
<1>8. PICK full \in IF c.slow THEN {1} ELSE 1..(Len(items) + 1) :
         IF Overrun(c, full) <= Len(items)
         THEN LET sent == SubSeq(items, 1, Overrun(c, full))
              IN /\ conn' = Closed
                 /\ inbox' = q \o sent \o <<ReplayGap(Seen(c, sent)), Lost(1000)>>
         ELSE /\ inbox' = q \o items
              /\ conn' = [c EXCEPT !.through = Seen(c, items),
                                   !.slow = c.slow \/ full <= Len(items),
                                   !.pending = IF full > Len(items) THEN @ ELSE @ + Len(items) + 1 - full]
  BY DEF Write
<1>12. full \in 1..(l + 1)
  BY <1>2
<1>9. PICK k \in Nat : k = Overrun(c, full) /\ k >= 1
  BY <1>7, <1>12 DEF Overrun
<1>10. CASE k <= l
  <2>1. PICK sent : sent = SubSeq(items, 1, k)
    OBVIOUS
  <2>2. /\ sent \in Seq(Carriable) /\ Len(sent) = k
        /\ \A j \in 1..k : sent[j] = items[j]
    <3>1. \A j \in 1..k : items[j] \in Carriable
      BY <1>10, <1>2
    <3>2. k \in Int /\ 1 \in Int /\ k - 1 + 1 = k /\ 1 <= k /\ \A j \in 1..k : 1 + j - 1 = j
      BY <1>9
    <3> QED BY <3>1, <3>2, <2>1, SubSeqProperties
  <2>3. PICK r \in Nat : Reaches(items, c.through, k + 1, r)
    BY <1>2, <1>10
  <2>4. Reaches(sent, c.through, Len(sent) + 1, r)
    <3>1. k + 1 \in Nat /\ (k + 1) - 1 = k
      OBVIOUS
    <3> QED BY <3>1, <2>2, <2>3, PrefixReaches
  <2>5. Seen(c, sent) = r
    BY <2>2, <2>4, SeenIs
  <2>6. PICK p2 : p2 = q \o sent
    OBVIOUS
  <2>7. /\ p2 \in Seq(Carriable) /\ Len(p2) = m + k /\ DOMAIN p2 = 1..(m + k)
        /\ \A j \in 1..m : p2[j] = q[j]
        /\ \A j \in 1..k : p2[m + j] = items[j]
    BY <1>1, <2>2, <2>6, Joined
  <2>8. \A j \in 1..(m + k) : p2[j] = p[j]
    <3> SUFFICES ASSUME NEW j \in 1..(m + k) PROVE p2[j] = p[j]
      OBVIOUS
    <3>1. CASE j \in 1..m
      BY <3>1, <2>7, <1>4
    <3>2. CASE j \notin 1..m
      <4>1. j - m \in 1..k /\ j - m \in 1..l /\ j = m + (j - m)
        BY <3>2, <1>10
      <4>2. p2[m + (j - m)] = items[j - m] /\ p[m + (j - m)] = items[j - m]
        BY <4>1, <2>7, <1>4
      <4> QED BY <4>1, <4>2
    <3> QED BY <3>1, <3>2
  <2>9. m + k \in 0..Len(p)
    BY <1>4, <1>10
  <2>10. Carries(p2, ks, s, b, rs)
    BY <2>7, <2>8, <2>9, <1>3, <1>4, PrefixCarries
  <2>11. NoneLost(p2)
    <3>1. 1..(m + k) \subseteq 1..(m + l)
      BY <1>10
    <3> QED BY <3>1, <2>7, <2>8, <1>4, <1>6 DEF NoneLost
  <2>12. Reaches(p2, s, Len(p2) + 1, r)
    <3>1. k \in 0..Len(sent)
      BY <2>2
    <3> QED BY <3>1, <1>1, <2>2, <2>4, <2>6, <2>7, <1>7, ReachesOn
  <2>13. conn' = Closed /\ inbox' = p2 \o <<ReplayGap(r), Lost(1000)>>
    <3>1. Overrun(c, full) = k /\ Overrun(c, full) <= Len(items)
      BY <1>2, <1>9, <1>10
    <3>2. /\ conn' = Closed
          /\ inbox' = q \o SubSeq(items, 1, Overrun(c, full))
                         \o <<ReplayGap(Seen(c, SubSeq(items, 1, Overrun(c, full)))), Lost(1000)>>
      BY <1>8, <3>1, ZenonT(60)
    <3>3. SubSeq(items, 1, Overrun(c, full)) = sent
      BY <3>1, <2>1
    <3>4. inbox' = q \o sent \o <<ReplayGap(Seen(c, sent)), Lost(1000)>>
      BY <3>2, <3>3, ZenonT(60)
    <3>5. inbox' = q \o sent \o <<ReplayGap(r), Lost(1000)>>
      BY <3>4, <2>5, ZenonT(60)
    <3>6. inbox' = p2 \o <<ReplayGap(r), Lost(1000)>>
      BY <3>5, <2>6, ZenonT(60)
    <3>7. conn' = Closed
      BY <3>2, ZenonT(60)
    <3> QED BY <3>6, <3>7
  <2>14. /\ p2 \o <<ReplayGap(r), Lost(1000)>> \in Seq(Carriable)
         /\ Carries(p2 \o <<ReplayGap(r), Lost(1000)>>, ks, s, b, rs)
         /\ LostLast(p2 \o <<ReplayGap(r), Lost(1000)>>)
    <3>1. p2 \in Seq(Carriable) /\ 1000 \in Nat
      BY <2>7
    <3>2. PICK code \in Nat : code = 1000
      OBVIOUS
    <3>3. /\ p2 \o <<ReplayGap(r), Lost(code)>> \in Seq(Carriable)
          /\ Carries(p2 \o <<ReplayGap(r), Lost(code)>>, ks, s, b, rs)
          /\ LostLast(p2 \o <<ReplayGap(r), Lost(code)>>)
      BY <3>1, <2>10, <2>11, <2>12, GapEnds, ZenonT(60)
    <3> QED BY <3>2, <3>3
  <2>15. Closed \in Connections /\ Closed.pending <= highWater
    BY DEF Closed, Connections
  <2> QED BY <2>13, <2>14, <2>15
<1>11. CASE k > l
  <2>1. PICK r \in Nat : Reaches(items, c.through, l + 1, r)
    BY <1>2
  <2>2. Seen(c, items) = r
    BY <1>2, <2>1, SeenIs
  <2>3. PICK b2 \in BOOLEAN : b2 = (c.slow \/ full <= l)
    BY <1>7
  <2>4. PICK n2 \in Nat : /\ n2 = IF full > l THEN c.pending ELSE c.pending + l + 1 - full
                          /\ n2 <= highWater
    <3>1. l + 1 - full \in Nat /\ full + highWater - c.pending > l
      BY <1>9, <1>11, <1>12 DEF Overrun
    <3> QED BY <3>1, <1>7, <1>12
  <2>5. inbox' = p /\ conn' = [c EXCEPT !.through = r, !.slow = b2, !.pending = n2]
    <3>1. ~(Overrun(c, full) <= l)
      BY <1>9, <1>11
    <3>2. inbox' = p /\ conn' = [c EXCEPT !.through = Seen(c, items), !.slow = c.slow \/ full <= l,
                                           !.pending = IF full > l THEN c.pending ELSE c.pending + l + 1 - full]
      BY <1>8, <3>1, <1>2, <1>3
    <3> QED BY <3>2, <2>2, <2>3, <2>4
  <2>6. /\ conn' \in Connections /\ conn'.pending = n2 /\ conn'.through = r
        /\ conn'.mode = c.mode /\ conn'.after = c.after /\ conn'.upto = c.upto
    BY <2>5 DEF Connections
  <2>7. Reaches(p, s, Len(p) + 1, r)
    <3>1. l \in 0..l
      OBVIOUS
    <3> QED BY <3>1, <1>1, <1>2, <1>3, <1>4, <2>1, <1>7, ReachesOn
  <2> QED BY <2>1, <2>4, <2>5, <2>6, <2>7, <1>2, <1>3, <1>4, <1>6
<1> QED BY <1>10, <1>11

\* The console takes the first of what is carried.
LEMMA Tailed ==
  ASSUME NEW q \in Seq(Carriable), q # << >>
  PROVE /\ Head(q) = q[1] /\ Head(q) \in Carriable /\ Tail(q) \in Seq(Carriable)
        /\ Len(q) \in Nat /\ Len(q) >= 1 /\ Len(Tail(q)) = Len(q) - 1
        /\ DOMAIN q = 1..Len(q) /\ DOMAIN Tail(q) = 1..(Len(q) - 1)
        /\ \A j \in 1..(Len(q) - 1) : Tail(q)[j] = q[j + 1]
<1>1. PICK m \in Nat : m = Len(q) /\ m >= 1
  BY EmptySeq
<1>2. Tail(q) \in Seq(Carriable) /\ Len(Tail(q)) = m - 1 /\ Head(q) \in Carriable
  BY <1>1, HeadTailProperties
<1>3. \A j \in 1..(m - 1) : Tail(q)[j] = q[j + 1]
  BY <1>1, <1>2, HeadTailProperties
<1>4. DOMAIN Tail(q) = 1..(m - 1) /\ DOMAIN q = 1..m
  BY <1>1, <1>2
<1>5. Head(q) = q[1]
  OBVIOUS
<1> QED BY <1>1, <1>2, <1>3, <1>4, <1>5

\* It gets as far as before by what is left,
LEMMA TailReaches ==
  ASSUME NEW q \in Seq(Carriable), q # << >>, NEW s \in Nat, NEW s2 \in Nat, NEW r \in Nat,
         NEW i \in 1..Len(q), Reaches(q, s, i + 1, r),
         s2 = IF IsEnvelope(Head(q)) THEN Head(q).n ELSE s,
         IsEnvelope(Head(q)) => s < Head(q).n
  PROVE Reaches(Tail(q), s2, i, r)
<1>1. PICK p : p = Tail(q)
  OBVIOUS
<1>2. PICK m \in Nat : m = Len(q) /\ m >= 1
  BY Tailed
<1>3. i \in 1..m /\ (i + 1) - 1 = i /\ 1 \in 1..i /\ q[1] = Head(q)
  BY <1>2, Tailed
<1>4. \A j \in 1..(i - 1) : j + 1 \in 1..i /\ p[j] = q[j + 1]
  <2>1. \A j \in 1..(i - 1) : j + 1 \in 1..i /\ j \in 1..(m - 1)
    BY <1>3
  <2> QED BY <2>1, <1>1, <1>2, Tailed
<1>5. /\ r = s \/ \E j \in 1..i : q[j] = Envelope(r)
      /\ s <= r
      /\ \A j \in 1..i : IsEnvelope(q[j]) => q[j].n <= r
  BY <1>3 DEF Reaches
<1>6. s2 <= r
  BY <1>3, <1>5
<1>7. \A j \in 1..(i - 1) : IsEnvelope(p[j]) => p[j].n <= r
  BY <1>4, <1>5
<1>8. r = s2 \/ \E j \in 1..(i - 1) : p[j] = Envelope(r)
  <2>1. CASE r = s
    BY <2>1, <1>6
  <2>2. CASE \E j \in 1..i : q[j] = Envelope(r)
    <3>1. PICK j \in 1..i : q[j] = Envelope(r)
      BY <2>2
    <3>2. CASE j = 1
      BY <3>1, <3>2, <1>3, Frames DEF IsEnvelope
    <3>3. CASE j # 1
      <4>1. j - 1 \in 1..(i - 1) /\ (j - 1) + 1 = j
        BY <3>3, <1>3
      <4> QED BY <4>1, <3>1, <1>4
    <3> QED BY <3>2, <3>3
  <2> QED BY <2>1, <2>2, <1>5
<1> QED BY <1>1, <1>6, <1>7, <1>8 DEF Reaches

\* knows of the same gaps,
LEMMA TailGaps ==
  ASSUME NEW q \in Seq(Carriable), q # << >>, NEW rs, NEW rs2,
         NEW i \in 1..Len(q), GapBefore(q, rs, i + 1),
         Head(q).kind = "gap" \/ (\E j \in DOMAIN rs : rs[j] = GapRow)
           => \E j \in DOMAIN rs2 : rs2[j] = GapRow
  PROVE GapBefore(Tail(q), rs2, i)
<1>1. PICK p : p = Tail(q)
  OBVIOUS
<1>2. PICK m \in Nat : m = Len(q) /\ m >= 1
  BY Tailed
<1>3. i \in 1..m /\ (i + 1) - 1 = i /\ q[1] = Head(q)
  BY <1>2, Tailed
<1>4. \A j \in 1..(i - 1) : p[j] = q[j + 1]
  <2>1. \A j \in 1..(i - 1) : j \in 1..(m - 1)
    BY <1>3
  <2> QED BY <2>1, <1>1, <1>2, Tailed
<1>5. CASE \E j \in DOMAIN rs : rs[j] = GapRow
  BY <1>5 DEF GapBefore
<1>6. CASE \E j \in 1..i : q[j].kind = "gap"
  <2>1. PICK j \in 1..i : q[j].kind = "gap"
    BY <1>6
  <2>2. CASE j = 1
    BY <2>1, <2>2, <1>3 DEF GapBefore
  <2>3. CASE j # 1
    <3>1. j - 1 \in 1..(i - 1) /\ (j - 1) + 1 = j
      BY <2>3, <1>3
    <3> QED BY <3>1, <2>1, <1>1, <1>4 DEF GapBefore
  <2> QED BY <2>2, <2>3
<1> QED BY <1>3, <1>5, <1>6 DEF GapBefore

\* and draws the same parts:
LEMMA TailDrawn ==
  ASSUME NEW q \in Seq(Carriable), q # << >>, NEW ks, NEW b, NEW b2,
         NEW i \in 1..Len(q),
         \A x \in 1..Parts :
           x \in b2 <=> (x \in b /\ ~Clears(ks, Head(q))) \/ Head(q) = Item("part", x)
  PROVE Drawn(Tail(q), ks, b2, i) = Drawn(q, ks, b, i + 1)
<1>1. PICK p : p = Tail(q)
  OBVIOUS
<1>2. PICK m \in Nat : m = Len(q) /\ m >= 1
  BY Tailed
<1>3. i \in 1..m /\ (i + 1) - 1 = i /\ q[1] = Head(q) /\ 1 \in 1..i /\ i \in Nat
  BY <1>2, Tailed
<1>4. \A j \in 1..(i - 1) : p[j] = q[j + 1]
  <2>1. \A j \in 1..(i - 1) : j \in 1..(m - 1)
    BY <1>3
  <2> QED BY <2>1, <1>1, <1>2, Tailed
<1> SUFFICES ASSUME NEW x \in 1..Parts
             PROVE x \in Drawn(p, ks, b2, i) <=> x \in Drawn(q, ks, b, i + 1)
  <2>1. Drawn(p, ks, b2, i) \subseteq 1..Parts /\ Drawn(q, ks, b, i + 1) \subseteq 1..Parts
    BY DEF Drawn
  <2> QED BY <2>1, <1>1
<1>5. \A j \in 1..i : (\A k \in (j + 1)..i : ~Clears(ks, q[k])) <=> (\A k \in j..(i - 1) : ~Clears(ks, p[k]))
  <2> SUFFICES ASSUME NEW j \in 1..i
               PROVE (\A k \in (j + 1)..i : ~Clears(ks, q[k])) <=> (\A k \in j..(i - 1) : ~Clears(ks, p[k]))
    OBVIOUS
  <2>1. \A k \in j..(i - 1) : k + 1 \in (j + 1)..i /\ k \in 1..(i - 1)
    BY <1>3
  <2>2. \A k \in (j + 1)..i : k - 1 \in j..(i - 1) /\ k - 1 \in 1..(i - 1) /\ (k - 1) + 1 = k
    BY <1>3
  <2>3. ASSUME \A k \in (j + 1)..i : ~Clears(ks, q[k]), NEW k \in j..(i - 1) PROVE ~Clears(ks, p[k])
    BY <2>1, <2>3, <1>4
  <2>4. ASSUME \A k \in j..(i - 1) : ~Clears(ks, p[k]), NEW k \in (j + 1)..i PROVE ~Clears(ks, q[k])
    BY <2>2, <2>4, <1>4
  <2> QED BY <2>3, <2>4
<1>6. (\A k \in 1..i : ~Clears(ks, q[k])) <=> ~Clears(ks, Head(q)) /\ (\A k \in 1..(i - 1) : ~Clears(ks, p[k]))
  <2>1. (\A k \in 2..i : ~Clears(ks, q[k])) <=> (\A k \in 1..(i - 1) : ~Clears(ks, p[k]))
    BY <1>5, <1>3, 1 + 1 = 2
  <2>2. \A k \in 1..i : k = 1 \/ k \in 2..i
    OBVIOUS
  <2>3. 2..i \subseteq 1..i
    OBVIOUS
  <2> QED BY <2>1, <2>2, <2>3, <1>3
<1>7. (\E j \in 1..i : q[j] = Item("part", x) /\ \A k \in (j + 1)..i : ~Clears(ks, q[k]))
      <=> \/ Head(q) = Item("part", x) /\ \A k \in 1..(i - 1) : ~Clears(ks, p[k])
          \/ \E j \in 1..(i - 1) : p[j] = Item("part", x) /\ \A k \in (j + 1)..(i - 1) : ~Clears(ks, p[k])
  <2>1. ASSUME NEW j \in 1..i, q[j] = Item("part", x) /\ \A k \in (j + 1)..i : ~Clears(ks, q[k])
        PROVE \/ Head(q) = Item("part", x) /\ \A k \in 1..(i - 1) : ~Clears(ks, p[k])
              \/ \E l \in 1..(i - 1) : p[l] = Item("part", x) /\ \A k \in (l + 1)..(i - 1) : ~Clears(ks, p[k])
    <3>1. \A k \in j..(i - 1) : ~Clears(ks, p[k])
      BY <2>1, <1>5
    <3>2. CASE j = 1
      BY <3>1, <3>2, <2>1, <1>3
    <3>3. CASE j # 1
      <4>1. PICK l \in 1..(i - 1) : l + 1 = j
        <5>1. j - 1 \in 1..(i - 1) /\ (j - 1) + 1 = j
          BY <3>3, <1>3
        <5> QED BY <5>1
      <4> QED BY <4>1, <3>1, <2>1, <1>4
    <3> QED BY <3>2, <3>3
  <2>2. ASSUME Head(q) = Item("part", x) /\ \A k \in 1..(i - 1) : ~Clears(ks, p[k])
        PROVE \E j \in 1..i : q[j] = Item("part", x) /\ \A k \in (j + 1)..i : ~Clears(ks, q[k])
    <3>1. \A k \in (1 + 1)..i : ~Clears(ks, q[k])
      BY <2>2, <1>3, <1>5
    <3> QED BY <3>1, <2>2, <1>3
  <2>3. ASSUME NEW l \in 1..(i - 1), p[l] = Item("part", x) /\ \A k \in (l + 1)..(i - 1) : ~Clears(ks, p[k])
        PROVE \E j \in 1..i : q[j] = Item("part", x) /\ \A k \in (j + 1)..i : ~Clears(ks, q[k])
    <3>1. PICK j \in 1..i : j = l + 1
      BY <1>3
    <3>2. q[j] = Item("part", x)
      BY <3>1, <2>3, <1>4
    <3>3. \A k \in (j + 1)..i : ~Clears(ks, q[k])
      BY <3>1, <2>3, <1>5
    <3> QED BY <3>2, <3>3
  <2> QED BY <2>1, <2>2, <2>3
<1>8. ~Clears(ks, Item("part", x))
  BY DEF Clears, Item, IsEnvelope
<1> QED BY <1>3, <1>6, <1>7, <1>8 DEF Drawn

\* what is left follows on what it now shows.
LEMMA TailCarries ==
  ASSUME NEW q \in Seq(Carriable), q # << >>, NEW ks \in Seq({"message", "note"}),
         NEW s \in Nat, NEW s2 \in Nat, NEW b, NEW b2, NEW rs, NEW rs2,
         Carries(q, ks, s, b, rs),
         s2 = IF IsEnvelope(Head(q)) THEN Head(q).n ELSE s,
         IsEnvelope(Head(q)) => s < Head(q).n,
         \A x \in 1..Parts :
           x \in b2 <=> (x \in b /\ ~Clears(ks, Head(q))) \/ Head(q) = Item("part", x),
         Head(q).kind = "gap" \/ (\E j \in DOMAIN rs : rs[j] = GapRow)
           => \E j \in DOMAIN rs2 : rs2[j] = GapRow
  PROVE Carries(Tail(q), ks, s2, b2, rs2)
<1>1. PICK p : p = Tail(q)
  OBVIOUS
<1>2. PICK m \in Nat : m = Len(q) /\ m >= 1
  BY Tailed
<1>3. /\ DOMAIN q = 1..m /\ DOMAIN p = 1..(m - 1)
      /\ \A j \in 1..(m - 1) : p[j] = q[j + 1]
  BY <1>1, <1>2, Tailed
<1> SUFFICES ASSUME NEW i \in 1..(m - 1) PROVE FollowsOn(p, ks, s2, b2, rs2, i)
  BY <1>1, <1>3 DEF Carries
<1>4. i \in 1..m /\ i + 1 \in 1..m /\ p[i] = q[i + 1]
  BY <1>3
<1>5. FollowsOn(q, ks, s, b, rs, i + 1)
  BY <1>3, <1>4 DEF Carries
<1>6. \A r \in Nat : Reaches(q, s, i + 1, r) => Reaches(p, s2, i, r)
  BY <1>1, <1>2, <1>4, TailReaches
<1>7. GapBefore(q, rs, i + 1) => GapBefore(p, rs2, i)
  BY <1>1, <1>2, <1>4, TailGaps
<1>8. Drawn(p, ks, b2, i) = Drawn(q, ks, b, i + 1)
  BY <1>1, <1>2, <1>4, TailDrawn
<1>9. q[i + 1] \in Carriable
  BY <1>2, <1>4
<1>10. q[i + 1].n \in Nat /\ Len(ks) \in Nat /\ 0..Len(ks) \subseteq Nat
  BY <1>9 DEF Carriable
<1> QED BY <1>4, <1>5, <1>6, <1>7, <1>8, <1>10 DEF FollowsOn

\* A kind told later changes nothing of what is carried.
LEMMA MoreKinds ==
  ASSUME NEW q \in Seq(Carriable), NEW ks \in Seq({"message", "note"}), NEW k \in {"message", "note"},
         NEW s, NEW b, NEW rs, Carries(q, ks, s, b, rs)
  PROVE /\ Carries(q, Append(ks, k), s, b, rs)
        /\ \A i \in 1..(Len(q) + 1) : Drawn(q, Append(ks, k), b, i) = Drawn(q, ks, b, i)
<1>1. PICK ks2 : ks2 = Append(ks, k)
  OBVIOUS
<1>2. PICK m \in Nat : m = Len(q)
  OBVIOUS
<1>3. PICK n \in Nat : n = Len(ks)
  OBVIOUS
<1>4. /\ DOMAIN q = 1..m /\ ks2 \in Seq({"message", "note"}) /\ Len(ks2) = n + 1
      /\ \A j \in 1..n : ks2[j] = ks[j]
  BY <1>1, <1>2, <1>3
<1>5. \A j \in 1..m : IsEnvelope(q[j]) => q[j].n \in 1..n
  <2> SUFFICES ASSUME NEW j \in 1..m, IsEnvelope(q[j]) PROVE q[j].n \in 1..n
    OBVIOUS
  <2>1. q[j] \in Carriable
    BY <1>2
  <2>2. FollowsOn(q, ks, s, b, rs, j)
    BY <1>4 DEF Carries
  <2>3. PICK r \in 0..n : r < q[j].n /\ q[j].n <= n
    BY <2>2, <1>3 DEF FollowsOn
  <2> QED BY <2>1, <2>3 DEF Carriable
<1>6. \A j \in 1..m : Clears(ks2, q[j]) <=> Clears(ks, q[j])
  BY <1>4, <1>5 DEF Clears
<1>7. ASSUME NEW i \in 1..(m + 1) PROVE Drawn(q, ks2, b, i) = Drawn(q, ks, b, i)
  <2>1. 1..(i - 1) \subseteq 1..m /\ \A j \in 1..(i - 1) : (j + 1)..(i - 1) \subseteq 1..m
    OBVIOUS
  <2>2. (\A l \in 1..(i - 1) : ~Clears(ks2, q[l])) <=> (\A l \in 1..(i - 1) : ~Clears(ks, q[l]))
    BY <1>6, <2>1
  <2>3. \A j \in 1..(i - 1) :
          (\A l \in (j + 1)..(i - 1) : ~Clears(ks2, q[l])) <=> (\A l \in (j + 1)..(i - 1) : ~Clears(ks, q[l]))
    BY <1>6, <2>1
  <2> QED BY <2>2, <2>3 DEF Drawn
<1>8. ASSUME NEW i \in 1..m PROVE FollowsOn(q, ks2, s, b, rs, i)
  <2>1. FollowsOn(q, ks, s, b, rs, i)
    BY <1>4 DEF Carries
  <2>2. Drawn(q, ks2, b, i) = Drawn(q, ks, b, i)
    BY <1>7
  <2>3. IsEnvelope(q[i]) => ks2[q[i].n] = ks[q[i].n] /\ q[i].n <= n + 1
    BY <1>4, <1>5
  <2>4. 0..n \subseteq 0..(n + 1)
    OBVIOUS
  <2> QED BY <2>1, <2>2, <2>3, <2>4, <1>3, <1>4 DEF FollowsOn
<1> QED BY <1>1, <1>2, <1>4, <1>7, <1>8 DEF Carries

\* A console gets to one place.
LEMMA ReachesOnce ==
  ASSUME NEW q, NEW s \in Nat, NEW i \in Nat, NEW r1 \in Nat, NEW r2 \in Nat,
         Reaches(q, s, i, r1), Reaches(q, s, i, r2)
  PROVE r1 = r2
<1>1. \A x, y \in Nat : Reaches(q, s, i, x) /\ Reaches(q, s, i, y) => x <= y
  <2> SUFFICES ASSUME NEW x \in Nat, NEW y \in Nat, Reaches(q, s, i, x), Reaches(q, s, i, y) PROVE x <= y
    OBVIOUS
  <2>1. CASE x = s
    BY <2>1 DEF Reaches
  <2>2. CASE \E j \in 1..(i - 1) : q[j] = Envelope(x)
    <3>1. PICK j \in 1..(i - 1) : q[j] = Envelope(x)
      BY <2>2
    <3>2. IsEnvelope(q[j]) /\ q[j].n = x
      BY <3>1, Frames DEF IsEnvelope
    <3> QED BY <3>2 DEF Reaches
  <2> QED BY <2>1, <2>2 DEF Reaches
<1>2. r1 <= r2 /\ r2 <= r1
  BY <1>1
<1> QED BY <1>2

\* What subscribe serves from the ring, and goLive from what was buffered.
LEMMA RunIs ==
  ASSUME NEW f \in Nat, NEW end \in Nat, f <= end
  PROVE /\ Run(f + 1, end) \in Seq(Carriable) /\ Len(Run(f + 1, end)) = end - f
        /\ IsRun(Run(f + 1, end), f) /\ NoneLost(Run(f + 1, end))
        /\ \A j \in 1..Len(Run(f + 1, end)) : Run(f + 1, end)[j].kind # "part"
<1>1. PICK n \in Nat : n = end - f /\ end + 1 - (f + 1) = n
  OBVIOUS
<1>2. PICK run : run = Run(f + 1, end)
  OBVIOUS
<1>3. run = [i \in 1..n |-> Envelope(f + 1 + i - 1)]
  BY <1>1, <1>2 DEF Run
<1>4. \A i \in 1..n : run[i] = Envelope(f + i) /\ f + i \in Nat
  <2>1. \A i \in 1..n : f + 1 + i - 1 = f + i /\ f + i \in Nat
    OBVIOUS
  <2> QED BY <2>1, <1>3
<1>5. \A i \in 1..n : run[i] \in Carriable /\ run[i].kind = "envelope"
  BY <1>4, Frames
<1>6. DOMAIN run = 1..n
  BY <1>3
<1>7. run \in [1..n -> Carriable]
  BY <1>3, <1>5
<1>8. run \in Seq(Carriable) /\ Len(run) = n
  BY <1>6, <1>7
<1> QED BY <1>1, <1>2, <1>4, <1>5, <1>6, <1>8 DEF IsRun, NoneLost

\* What the edge owes of the invariant.
Ready ==
  /\ Linked' /\ Carried' /\ Attached'
  /\ conn' \in Connections /\ conn'.pending <= highWater /\ inbox' \in Seq(Carriable)

\* guardedWrite keeps it, whoever calls it.
LEMMA WriteKeeps ==
  ASSUME NEW c \in Connections, c.pending <= highWater, highWater \in Nat,
         NEW q \in Seq(Carriable), NEW items \in Seq(Carriable), lastSeq \in Nat,
         NEW ks, ks = kinds',
         Carries(q \o items, ks, lastSeq, bubble, rows), Reaches(q, lastSeq, Len(q) + 1, c.through),
         \A k \in 0..Len(items) : \E r \in Nat : Reaches(items, c.through, k + 1, r),
         NoneLost(q), NoneLost(items),
         Write(c, q, items),
         stream' = "open", UNCHANGED <<edge, hole, lastId, viewVars>>, edge = "sse" => lastId = lastSeq,
         c.mode \in {"live", "replaying"},
         c.mode = "replaying" => /\ c.upto <= Len(ks)
                                 /\ Drawn(q \o items, ks, bubble, Len(q \o items) + 1) = {},
         c.mode = "live" => Whole(Drawn(q \o items, ks, bubble, Len(q \o items) + 1), streamed'),
         \A r \in Nat : Reaches(items, c.through, Len(items) + 1, r) =>
           r <= Len(ks) /\ (c.mode = "live" => r = Len(ks) \/ hole # 0)
  PROVE Ready
<1>1. /\ conn' \in Connections /\ conn'.pending <= highWater
      /\ inbox' \in Seq(Carriable) /\ Carries(inbox', ks, lastSeq, bubble, rows)
      /\ \/ conn' = Closed /\ LostLast(inbox')
         \/ /\ inbox' = q \o items /\ NoneLost(inbox')
            /\ conn'.mode = c.mode /\ conn'.after = c.after /\ conn'.upto = c.upto
            /\ Reaches(items, c.through, Len(items) + 1, conn'.through)
            /\ Reaches(inbox', lastSeq, Len(inbox') + 1, conn'.through)
  BY Offered
<1>2. /\ edge' = edge /\ hole' = hole /\ lastId' = lastId /\ lastSeq' = lastSeq
      /\ bubble' = bubble /\ rows' = rows
  BY DEF viewVars
<1>3. Carried'
  BY <1>1, <1>2 DEF Carried
<1>4. CASE conn' = Closed /\ LostLast(inbox')
  <2>1. conn'.mode = "closed"
    BY <1>4 DEF Closed
  <2>2. Linked'
    BY <2>1, <1>2, <1>4 DEF Linked, LostLast
  <2>3. Attached'
    BY <2>1 DEF Attached
  <2> QED BY <2>2, <2>3, <1>1, <1>3 DEF Ready
<1>5. CASE /\ inbox' = q \o items /\ NoneLost(inbox')
           /\ conn'.mode = c.mode /\ conn'.after = c.after /\ conn'.upto = c.upto
           /\ Reaches(items, c.through, Len(items) + 1, conn'.through)
           /\ Reaches(inbox', lastSeq, Len(inbox') + 1, conn'.through)
  <2>1. conn'.through \in Nat
    BY <1>1 DEF Connections
  <2>2. conn'.mode \in {"live", "replaying"}
    BY <1>5
  <2>3. Linked'
    BY <2>2, <1>2, <1>5 DEF Linked, NoneLost
  <2>4. conn'.through <= Len(ks) /\ (c.mode = "live" => conn'.through = Len(ks) \/ hole # 0)
    BY <2>1, <1>5
  <2>5. AtEnd' = Drawn(q \o items, ks, bubble, Len(q \o items) + 1)
    BY <1>2, <1>5 DEF AtEnd
  <2>6. Attached'
    BY <2>2, <2>4, <2>5, <1>2, <1>5 DEF Attached, last
  <2> QED BY <2>3, <2>6, <1>1, <1>3 DEF Ready
<1> QED BY <1>1, <1>4, <1>5

\* What is known of each variable.
LEMMA ViewFacts ==
  ASSUME ViewInv
  PROVE /\ edge \in {"sse", "ws"} /\ highWater \in Nat /\ hole \in Nat
        /\ kinds \in Seq({"message", "note"}) /\ last = Len(kinds) /\ last \in Nat
        /\ MaxSeq \in Nat /\ Parts \in Nat /\ last <= MaxSeq /\ streamed \in 0..Parts
        /\ conn \in Connections /\ conn.pending <= highWater
        /\ stream \in {"dialling", "open", "abandoned"} /\ inbox \in Seq(Carriable)
        /\ lastId \in 0..last /\ lastSeq \in 0..last /\ lastSeq \in Nat /\ refetched \in BOOLEAN
        /\ rows \in Seq(Nat) /\ bubble \subseteq 1..Parts
<1>1. ViewTypes
  BY DEF ViewInv
<1>2. /\ edge \in {"sse", "ws"} /\ highWater \in Nat /\ hole \in Nat
      /\ kinds \in Seq({"message", "note"}) /\ last <= MaxSeq /\ streamed \in 0..Parts
      /\ conn \in Connections /\ conn.pending <= highWater
      /\ stream \in {"dialling", "open", "abandoned"} /\ inbox \in Seq(Carriable)
      /\ lastId \in 0..last /\ lastSeq \in 0..last /\ refetched \in BOOLEAN
      /\ rows \in Seq(Nat) /\ bubble \subseteq 1..Parts
  BY <1>1, Zenon DEF ViewTypes
<1>3. last = Len(kinds) /\ last \in Nat
  <2>1. kinds \in Seq({"message", "note"})
    BY <1>2
  <2>2. Len(kinds) \in Nat
    BY <2>1, LenProperties
  <2> QED BY <2>2 DEF last
<1>4. lastSeq \in Nat
  <2>1. lastSeq \in 0..last
    BY <1>2
  <2> QED BY <2>1, <1>3
<1>5. MaxSeq \in Nat /\ Parts \in Nat
  BY ViewAssumption
<1> QED BY <1>2, <1>3, <1>4, <1>5, Zenon

\* A connection that ended keeps it.
LEMMA EndKeeps ==
  ASSUME NEW ks, ks = kinds', conn' = Closed, inbox' \in Seq(Carriable), highWater \in Nat,
         Carries(inbox', ks, lastSeq, bubble, rows), LostLast(inbox'), stream' = "open",
         UNCHANGED <<edge, lastId, viewVars>>, edge = "sse" => lastId = lastSeq
  PROVE Ready
<1>1. conn'.mode = "closed" /\ conn' \in Connections /\ conn'.pending <= highWater
  BY DEF Closed, Connections
<1>2. edge' = edge /\ lastId' = lastId /\ lastSeq' = lastSeq /\ bubble' = bubble /\ rows' = rows
  BY DEF viewVars
<1>3. Carried'
  BY <1>2 DEF Carried
<1>4. Linked'
  BY <1>1, <1>2 DEF Linked, LostLast
<1>5. Attached'
  BY <1>1 DEF Attached
<1> QED BY <1>1, <1>3, <1>4, <1>5 DEF Ready

\* The edge and the core leave the view alone, so that is enough.
LEMMA EdgeStep ==
  ASSUME ViewInv, Ready, stream' \in {"dialling", "open", "abandoned"},
         UNCHANGED <<edge, highWater, hole, lastId, viewVars>>,
         kinds' \in Seq({"message", "note"}), last <= last', last' <= MaxSeq, streamed' \in 0..Parts
  PROVE ViewInv'
<1>1. /\ edge' = edge /\ highWater' = highWater /\ hole' = hole /\ lastId' = lastId
      /\ lastSeq' = lastSeq /\ refetched' = refetched /\ rows' = rows /\ bubble' = bubble /\ cut' = cut
  BY DEF viewVars
<1>2. last \in Nat /\ last' \in Nat /\ MaxSeq \in Nat
  <2>1. last' = Len(kinds')
    BY DEF last
  <2> QED BY <2>1, ViewFacts
<1>3. ViewTypes'
  <2>1. lastId' \in 0..last' /\ lastSeq' \in 0..last'
    BY <1>1, <1>2, ViewFacts
  <2>2. conn' \in Connections /\ conn'.pending <= highWater' /\ inbox' \in Seq(Carriable)
    BY <1>1 DEF Ready
  <2> QED BY <2>1, <2>2, <1>1, ViewFacts, Zenon DEF ViewTypes
<1>4. Over'
  <2>1. hole # 0 => last = MaxSeq /\ hole < MaxSeq
    BY DEF ViewInv, Over
  <2>2. hole' # 0 => last' = MaxSeq /\ hole' < MaxSeq
    BY <2>1, <1>1, <1>2
  <2> QED BY <2>2 DEF Over
<1>5. Shown'
  BY <1>1 DEF ViewInv, Shown
<1> QED BY <1>3, <1>4, <1>5 DEF ViewInv, Ready

\* subscribe: the position is the one the console is at.
LEMMA SubscribeKeeps ==
  ASSUME ViewInv, NEW c \in Connections, c.pending <= highWater, NEW after \in Nat, after = lastSeq,
         NEW greeting \in Seq(Carriable), NEW q \in Seq(Carriable), q = inbox \o greeting,
         Subscribe(c, after, greeting),
         Carries(q, kinds, lastSeq, bubble, rows), NoneLost(q),
         Reaches(q, lastSeq, Len(q) + 1, lastSeq), Drawn(q, kinds, bubble, Len(q) + 1) = {},
         stream' = "open", UNCHANGED <<coreVars, lastId, viewVars>>
  PROVE Ready
<1>1. /\ edge' = edge /\ highWater' = highWater /\ hole' = hole /\ lastId' = lastId
      /\ kinds' = kinds /\ streamed' = streamed /\ UNCHANGED viewVars
      /\ lastSeq' = lastSeq /\ bubble' = bubble /\ rows' = rows
  BY DEF coreVars, viewVars
<1>2. /\ lastSeq \in Nat /\ last \in Nat /\ lastSeq <= last /\ kinds \in Seq({"message", "note"})
      /\ highWater \in Nat /\ streamed \in Nat
      /\ (edge = "sse" => lastId = lastSeq)
  <2>1. edge = "sse" => lastId = lastSeq
    BY DEF ViewInv, Linked
  <2> QED BY <2>1, ViewFacts
<1>3. PICK start \in Connections : /\ start = [c EXCEPT !.after = after, !.through = after]
                                /\ start.pending <= highWater
  <2>1. /\ [c EXCEPT !.after = after, !.through = after] \in Connections
        /\ [c EXCEPT !.after = after, !.through = after].pending = c.pending
    BY DEF Connections
  <2> QED BY <2>1
<1>4. start.through = lastSeq
  BY <1>3 DEF Connections
<1>5. CASE last - after <= RingCapacity
  <2>1. PICK live \in Connections : live = [start EXCEPT !.mode = "live"]
    BY DEF Connections
  <2>2. live.mode = "live" /\ live.through = lastSeq /\ live.pending <= highWater
    BY <2>1, <1>3, <1>4 DEF Connections
  <2>3. PICK items \in Seq(Carriable) : items = Run(after + 1, last)
    BY <1>2, RunIs
  <2>4. /\ Len(items) = last - lastSeq /\ IsRun(items, lastSeq) /\ NoneLost(items)
        /\ \A j \in 1..Len(items) : items[j].kind # "part"
    BY <2>3, <1>2, RunIs
  <2>5. Write(live, q, items)
    BY <1>3, <1>5, <2>1, <2>3 DEF Subscribe
  <2>6. lastSeq + Len(items) = last /\ Len(items) \in Nat
    BY <2>4, <1>2
  <2>7. Carries(q \o items, kinds, lastSeq, bubble, rows)
    <3>1. lastSeq + Len(items) <= Len(kinds) /\ lastSeq <= lastSeq
      BY <2>6, <1>2 DEF last
    <3> QED BY <3>1, <2>4, <1>2, RunCarries
  <2>8. \A k \in 0..Len(items) :
          LET r == IF k = 0 THEN lastSeq ELSE lastSeq + k
          IN r \in Nat /\ Reaches(items, live.through, k + 1, r)
    <3>1. lastSeq <= lastSeq
      BY <1>2
    <3> QED BY <3>1, <2>2, <2>4, <1>2, RunReaches, ZenonT(60)
  <2>9. \A k \in 0..Len(items) : \E r \in Nat : Reaches(items, live.through, k + 1, r)
    BY <2>8
  <2>10. Reaches(items, live.through, Len(items) + 1, last)
    <3>1. Len(items) \in 0..Len(items)
      BY <2>6
    <3>2. last = IF Len(items) = 0 THEN lastSeq ELSE lastSeq + Len(items)
      BY <2>6, <1>2
    <3> QED BY <3>1, <3>2, <2>8
  <2>11. \A r \in Nat : Reaches(items, live.through, Len(items) + 1, r) => r = last
    <3>1. live.through \in Nat /\ Len(items) + 1 \in Nat
      BY <2>6, <2>2, <1>2
    <3> QED BY <3>1, <2>10, <1>2, ReachesOnce
  <2>12. Drawn(q \o items, kinds, bubble, Len(q \o items) + 1) = {}
    <3>1. Len(items) \in 0..Len(items) /\ Len(q \o items) + 1 = Len(q) + Len(items) + 1
      BY <2>6, Joined
    <3>2. Drawn(q \o items, kinds, bubble, Len(q) + Len(items) + 1) \subseteq Drawn(q, kinds, bubble, Len(q) + 1)
      BY <3>1, <2>4, DrawnOn
    <3> QED BY <3>1, <3>2
  <2>13. Whole({}, streamed')
    BY DEF Whole
  <2>14. Reaches(q, lastSeq, Len(q) + 1, live.through)
    BY <2>2
  <2>15. PICK ks : ks = kinds
    OBVIOUS
  <2>16. last = Len(ks) /\ ks = kinds'
    BY <1>1, <2>15 DEF last
  <2>17. UNCHANGED <<edge, hole, lastId, viewVars>>
    BY <1>1
  <2>18. /\ Carries(q \o items, ks, lastSeq, bubble, rows)
         /\ live.mode = "live" => Whole(Drawn(q \o items, ks, bubble, Len(q \o items) + 1), streamed')
    BY <2>7, <2>12, <2>13, <2>15
  <2>19. \A r \in Nat : Reaches(items, live.through, Len(items) + 1, r) =>
           r <= Len(ks) /\ (live.mode = "live" => r = Len(ks) \/ hole # 0)
    BY <2>11, <2>16, <1>2
  <2>20. live.mode \in {"live", "replaying"} /\ live.mode # "replaying"
    BY <2>2
  <2> QED BY <2>2, <2>4, <2>5, <2>9, <2>14, <2>16, <2>17, <2>18, <2>19, <2>20, <1>2, WriteKeeps
<1>6. CASE ~(last - after <= RingCapacity)
  <2>1. conn' = [start EXCEPT !.mode = "replaying", !.upto = last] /\ inbox' = q
    BY <1>3, <1>6 DEF Subscribe
  <2>2. /\ conn' \in Connections /\ conn'.mode = "replaying" /\ conn'.upto = last
        /\ conn'.through = lastSeq /\ conn'.pending <= highWater
    BY <2>1, <1>2, <1>3, <1>4 DEF Connections
  <2>3. Linked'
    BY <2>1, <2>2, <1>1, <1>2 DEF Linked, NoneLost
  <2>4. Carried'
    BY <2>1, <1>1 DEF Carried
  <2>5. AtEnd' = {}
    BY <2>1, <1>1 DEF AtEnd
  <2>6. last' = last
    BY <1>1 DEF last
  <2>7. Attached'
    BY <2>1, <2>2, <2>5, <2>6, <1>1, <1>2 DEF Attached
  <2> QED BY <2>1, <2>2, <2>3, <2>4, <2>7 DEF Ready
<1> QED BY <1>5, <1>6

\* Who has a connection has an open stream, and no end of it is on its way.
LEMMA Connected ==
  ASSUME ViewInv, conn.mode # "closed"
  PROVE stream = "open" /\ NoneLost(inbox)
BY DEF ViewInv, Linked, NoneLost

\* The parts of the invariant.
LEMMA InvParts ==
  ASSUME ViewInv
  PROVE /\ Linked /\ Attached /\ Over /\ Shown
        /\ Carries(inbox, kinds, lastSeq, bubble, rows)
        /\ edge = "sse" => lastId = lastSeq
BY DEF ViewInv, Carried, Linked

\* One lemma per action.
LEMMA DrainKeeps == ASSUME ViewInv, Drain PROVE ViewInv'
<1>1. /\ UNCHANGED <<edge, highWater, hole, lastId, viewVars>> /\ stream' = stream
      /\ kinds' = kinds /\ streamed' = streamed /\ inbox' = inbox /\ last' = last
      /\ lastSeq' = lastSeq /\ bubble' = bubble /\ rows' = rows
      /\ conn' = [conn EXCEPT !.slow = FALSE, !.pending = 0]
  BY DEF Drain, coreVars, viewVars, last
<1>2. conn \in Connections /\ highWater \in Nat
  BY ViewFacts
<1>3. /\ conn' \in Connections /\ conn'.pending <= highWater /\ conn'.mode = conn.mode
      /\ conn'.after = conn.after /\ conn'.upto = conn.upto /\ conn'.through = conn.through
  <2>1. PICK c \in Connections : c = conn
    BY <1>2
  <2>2. PICK d : d = [c EXCEPT !.slow = FALSE, !.pending = 0]
    OBVIOUS
  <2>3. /\ d \in Connections /\ d.pending = 0 /\ d.mode = c.mode
        /\ d.after = c.after /\ d.upto = c.upto /\ d.through = c.through
    BY <2>2 DEF Connections
  <2>4. conn' = d
    BY <1>1, <2>1, <2>2
  <2>5. 0 <= highWater
    BY <1>2
  <2> QED BY <2>1, <2>3, <2>4, <2>5
<1>4. Linked'
  BY <1>1, <1>3, InvParts DEF Linked
<1>5. Carried'
  BY <1>1, InvParts DEF Carried
<1>6. AtEnd' = AtEnd
  BY <1>1 DEF AtEnd
<1>7. Attached'
  BY <1>1, <1>3, <1>6, InvParts DEF Attached
<1>8. inbox' \in Seq(Carriable)
  BY <1>1, ViewFacts
<1>9. Ready
  BY <1>3, <1>4, <1>5, <1>7, <1>8 DEF Ready
<1>10. /\ stream' \in {"dialling", "open", "abandoned"} /\ kinds' \in Seq({"message", "note"})
       /\ last <= last' /\ last' <= MaxSeq /\ streamed' \in 0..Parts
  BY <1>1, ViewFacts
<1> QED BY <1>1, <1>9, <1>10, EdgeStep

LEMMA ConnectSseKeeps == ASSUME ViewInv, ConnectSse PROVE ViewInv'
<1>1. /\ UNCHANGED coreVars /\ UNCHANGED viewVars /\ lastId' = lastId /\ stream' = "open"
      /\ edge = "sse" /\ stream = "dialling" /\ Subscribe(Closed, lastId, <<Opened>>)
  BY DEF ConnectSse
<1>2. inbox = << >> /\ lastId = lastSeq
  BY <1>1, InvParts DEF Linked
<1>3. Closed \in Connections /\ Closed.pending <= highWater
  BY ViewFacts DEF Closed, Connections
<1>4. PICK o \in Carriable : o = Opened /\ o.kind = "open"
  BY Frames
<1>5. PICK q : q = <<o>>
  OBVIOUS
<1>6. /\ q \in Seq(Carriable) /\ Len(q) = 1 /\ q[1] = o /\ DOMAIN q = 1..1
      /\ q = inbox \o <<Opened>> /\ q = Append(<< >>, o) /\ <<Opened>> \in Seq(Carriable)
  BY <1>2, <1>4, <1>5
<1>7. Carries(q, kinds, lastSeq, bubble, rows)
  <2>1. FollowsOn(q, kinds, lastSeq, bubble, rows, 1)
    BY <1>4, <1>6 DEF FollowsOn, IsEnvelope
  <2> QED BY <2>1, <1>6 DEF Carries
<1>8. NoneLost(q)
  BY <1>4, <1>6 DEF NoneLost
<1>9. lastSeq \in Nat /\ lastId \in Nat
  BY <1>2, ViewFacts
<1>10. Reaches(q, lastSeq, Len(q) + 1, lastSeq)
  BY <1>4, <1>6, <1>9 DEF Reaches, IsEnvelope
<1>11. Drawn(q, kinds, bubble, Len(q) + 1) = {}
  <2>1. Clears(kinds, o)
    BY <1>4 DEF Clears
  <2>2. << >> \in Seq(Carriable) /\ Len(<< >>) + 2 = Len(q) + 1
    BY <1>6
  <2> QED BY <2>1, <2>2, <1>6, DrawnOne
<1>12. UNCHANGED <<coreVars, lastId, viewVars>>
  BY <1>1
<1>13. Ready
  BY <1>1, <1>2, <1>3, <1>6, <1>7, <1>8, <1>9, <1>10, <1>11, <1>12, SubscribeKeeps
<1>14. /\ UNCHANGED <<edge, highWater, hole, lastId, viewVars>>
       /\ kinds' = kinds /\ streamed' = streamed /\ last' = last
  BY <1>1 DEF coreVars, last
<1>15. /\ stream' \in {"dialling", "open", "abandoned"} /\ kinds' \in Seq({"message", "note"})
       /\ last <= last' /\ last' <= MaxSeq /\ streamed' \in 0..Parts
  BY <1>1, <1>14, ViewFacts
<1> QED BY <1>13, <1>14, <1>15, EdgeStep

LEMMA FirstMessageKeeps == ASSUME ViewInv, FirstMessage PROVE ViewInv'
<1>1. /\ UNCHANGED coreVars /\ UNCHANGED viewVars /\ lastId' = lastId /\ stream' = stream
      /\ conn.mode = "asked" /\ Subscribe(conn, conn.after, << >>)
  BY DEF FirstMessage
<1>2. inbox = << >> /\ conn.after = lastSeq /\ stream = "open" /\ NoneLost(inbox) /\ AtEnd = {}
  BY <1>1, InvParts, Connected DEF Linked, Attached
<1>3. /\ conn \in Connections /\ conn.pending <= highWater /\ lastSeq \in Nat
      /\ << >> \in Seq(Carriable) /\ inbox \in Seq(Carriable) /\ inbox = inbox \o << >>
      /\ conn.after \in Nat
  BY <1>2, ViewFacts
<1>4. Reaches(inbox, lastSeq, Len(inbox) + 1, lastSeq)
  BY <1>2, <1>3 DEF Reaches
<1>5. Drawn(inbox, kinds, bubble, Len(inbox) + 1) = {}
  BY <1>2 DEF AtEnd
<1>6. UNCHANGED <<coreVars, lastId, viewVars>> /\ stream' = "open"
  BY <1>1, <1>2
<1>7. Carries(inbox, kinds, lastSeq, bubble, rows)
  BY InvParts
<1>8. Ready
  BY <1>1, <1>2, <1>3, <1>4, <1>5, <1>6, <1>7, SubscribeKeeps
<1>9. /\ UNCHANGED <<edge, highWater, hole, lastId, viewVars>>
      /\ kinds' = kinds /\ streamed' = streamed /\ last' = last
  BY <1>1 DEF coreVars, last
<1>10. /\ stream' \in {"dialling", "open", "abandoned"} /\ kinds' \in Seq({"message", "note"})
       /\ last <= last' /\ last' <= MaxSeq /\ streamed' \in 0..Parts
  BY <1>6, <1>9, ViewFacts
<1> QED BY <1>8, <1>9, <1>10, EdgeStep

LEMMA ConnectWsKeeps == ASSUME ViewInv, ConnectWs PROVE ViewInv'
<1>1. /\ UNCHANGED coreVars /\ UNCHANGED viewVars /\ lastId' = lastId /\ stream' = "open"
      /\ edge = "ws" /\ stream = "dialling"
      /\ conn' = [Closed EXCEPT !.mode = "greeting"] /\ inbox' = Append(inbox, Opened)
  BY DEF ConnectWs
<1>2. inbox = << >>
  BY <1>1, InvParts DEF Linked
<1>3. PICK o \in Carriable : o = Opened /\ o.kind = "open"
  BY Frames
<1>4. /\ inbox' \in Seq(Carriable) /\ Len(inbox') = 1 /\ inbox'[1] = o /\ DOMAIN inbox' = 1..1
      /\ inbox' = <<Opened>> /\ inbox' = Append(<< >>, o)
  BY <1>1, <1>2, <1>3
<1>5. /\ conn' \in Connections /\ conn'.pending = 0 /\ conn'.mode = "greeting"
  BY <1>1 DEF Closed, Connections
<1>6. /\ UNCHANGED <<edge, highWater, hole, lastId, viewVars>> /\ edge' = "ws"
      /\ kinds' = kinds /\ streamed' = streamed /\ last' = last
      /\ lastSeq' = lastSeq /\ bubble' = bubble /\ rows' = rows
  BY <1>1 DEF coreVars, viewVars, last
<1>7. Carried'
  <2>1. FollowsOn(inbox', kinds, lastSeq, bubble, rows, 1)
    BY <1>3, <1>4 DEF FollowsOn, IsEnvelope
  <2>2. Carries(inbox', kinds, lastSeq, bubble, rows)
    BY <2>1, <1>4 DEF Carries
  <2> QED BY <2>2, <1>6 DEF Carried
<1>8. Linked'
  BY <1>1, <1>3, <1>4, <1>5, <1>6 DEF Linked
<1>9. AtEnd' = {}
  <2>1. Clears(kinds, o)
    BY <1>3 DEF Clears
  <2>2. << >> \in Seq(Carriable) /\ Len(<< >>) + 2 = Len(inbox') + 1
    BY <1>4
  <2>3. Drawn(inbox', kinds, bubble, Len(inbox') + 1) = {}
    BY <2>1, <2>2, <1>4, DrawnOne
  <2> QED BY <2>3, <1>6 DEF AtEnd
<1>10. Attached'
  BY <1>5, <1>9 DEF Attached
<1>11. Ready
  BY <1>4, <1>5, <1>7, <1>8, <1>10, ViewFacts DEF Ready
<1>12. /\ stream' \in {"dialling", "open", "abandoned"} /\ kinds' \in Seq({"message", "note"})
       /\ last <= last' /\ last' <= MaxSeq /\ streamed' \in 0..Parts
  BY <1>1, <1>6, ViewFacts
<1> QED BY <1>6, <1>11, <1>12, EdgeStep

LEMMA DeadlineKeeps == ASSUME ViewInv, FirstFrameDeadline PROVE ViewInv'
<1>1. /\ UNCHANGED coreVars /\ UNCHANGED viewVars /\ lastId' = lastId /\ stream' = stream
      /\ conn.mode = "greeting" /\ conn' = Closed /\ inbox' = Append(inbox, Lost(4408))
  BY DEF FirstFrameDeadline
<1>2. stream = "open" /\ NoneLost(inbox)
  BY <1>1, Connected
<1>3. PICK code \in Nat : code = 4408
  OBVIOUS
<1>4. inbox \in Seq(Carriable) /\ lastSeq \in Nat /\ highWater \in Nat
  BY ViewFacts
<1>5. Carries(inbox, kinds, lastSeq, bubble, rows) /\ (edge = "sse" => lastId = lastSeq)
  BY InvParts
<1>6. /\ inbox' \in Seq(Carriable) /\ Carries(inbox', kinds, lastSeq, bubble, rows) /\ LostLast(inbox')
  BY <1>1, <1>2, <1>3, <1>4, <1>5, Ends
<1>7. /\ UNCHANGED <<edge, highWater, hole, lastId, viewVars>> /\ kinds' = kinds
      /\ streamed' = streamed /\ last' = last
  BY <1>1 DEF coreVars, last
<1>8. stream' = "open" /\ UNCHANGED <<edge, lastId, viewVars>>
  BY <1>1, <1>2, <1>7
<1>9. Ready
  BY <1>1, <1>4, <1>5, <1>6, <1>7, <1>8, EndKeeps
<1>10. /\ stream' \in {"dialling", "open", "abandoned"} /\ kinds' \in Seq({"message", "note"})
       /\ last <= last' /\ last' <= MaxSeq /\ streamed' \in 0..Parts
  BY <1>7, <1>8, ViewFacts
<1> QED BY <1>7, <1>9, <1>10, EdgeStep

LEMMA DropKeeps == ASSUME ViewInv, Drop PROVE ViewInv'
<1>1. /\ UNCHANGED coreVars /\ UNCHANGED viewVars /\ lastId' = lastId /\ stream' = stream
      /\ conn.mode # "closed" /\ conn' = Closed
  BY DEF Drop
<1>2. PICK kept \in 0..Len(inbox) : inbox' = SubSeq(inbox, 1, kept) \o <<Lost(1006)>>
  BY DEF Drop
<1>3. stream = "open" /\ NoneLost(inbox)
  BY <1>1, Connected
<1>4. PICK code \in Nat : code = 1006
  OBVIOUS
<1>5. inbox \in Seq(Carriable) /\ lastSeq \in Nat /\ highWater \in Nat
  BY ViewFacts
<1>6. Carries(inbox, kinds, lastSeq, bubble, rows) /\ (edge = "sse" => lastId = lastSeq)
  BY InvParts
<1>7. PICK p : p = SubSeq(inbox, 1, kept)
  OBVIOUS
<1>8. p \in Seq(Carriable) /\ Len(p) = kept /\ (\A j \in 1..kept : p[j] = inbox[j]) /\ DOMAIN p = 1..kept
  BY <1>5, <1>7
<1>9. Carries(p, kinds, lastSeq, bubble, rows)
  BY <1>5, <1>6, <1>8, PrefixCarries
<1>10. NoneLost(p)
  BY <1>3, <1>5, <1>8 DEF NoneLost
<1>11. Lost(code) \in Carriable
  BY Frames
<1>12. inbox' = Append(p, Lost(code))
  BY <1>2, <1>4, <1>7, <1>8, <1>11, AppendIsConcat
<1>13. /\ inbox' \in Seq(Carriable) /\ Carries(inbox', kinds, lastSeq, bubble, rows) /\ LostLast(inbox')
  BY <1>5, <1>8, <1>9, <1>10, <1>12, Ends
<1>14. /\ UNCHANGED <<edge, highWater, hole, lastId, viewVars>> /\ kinds' = kinds
       /\ streamed' = streamed /\ last' = last
  BY <1>1 DEF coreVars, last
<1>15. stream' = "open" /\ UNCHANGED <<edge, lastId, viewVars>>
  BY <1>1, <1>3, <1>14
<1>16. Ready
  BY <1>1, <1>5, <1>6, <1>13, <1>14, <1>15, EndKeeps
<1>17. /\ stream' \in {"dialling", "open", "abandoned"} /\ kinds' \in Seq({"message", "note"})
       /\ last <= last' /\ last' <= MaxSeq /\ streamed' \in 0..Parts
  BY <1>14, <1>15, ViewFacts
<1> QED BY <1>14, <1>16, <1>17, EdgeStep

\* A replay writes envelopes that follow the last one it wrote.
LEMMA ReplayRun ==
  ASSUME ViewInv, conn.mode = "replaying", NEW c \in Connections, c.pending <= highWater,
         c.through = conn.through, c.upto <= last, c.mode \in {"live", "replaying"},
         NEW items \in Seq(Carriable), IsRun(items, conn.through), NoneLost(items),
         \A j \in 1..Len(items) : items[j].kind # "part",
         conn.through + Len(items) <= last,
         c.mode = "live" => conn.through + Len(items) = last,
         Write(c, inbox, items), stream' = stream, UNCHANGED <<coreVars, lastId, viewVars>>
  PROVE ViewInv'
<1>1. /\ UNCHANGED <<edge, highWater, hole, lastId, viewVars>>
      /\ kinds' = kinds /\ streamed' = streamed /\ last' = last /\ last = Len(kinds)
  BY DEF coreVars, last
<1>2. stream = "open" /\ NoneLost(inbox) /\ stream' = "open"
  BY Connected
<1>3. /\ conn.through <= last /\ Reaches(inbox, lastSeq, Len(inbox) + 1, conn.through) /\ AtEnd = {}
      /\ Carries(inbox, kinds, lastSeq, bubble, rows) /\ (edge = "sse" => lastId = lastSeq)
  BY InvParts DEF Attached
<1>4. /\ inbox \in Seq(Carriable) /\ kinds \in Seq({"message", "note"}) /\ lastSeq \in Nat
      /\ highWater \in Nat /\ last \in Nat /\ conn \in Connections
  BY ViewFacts
<1>5. PICK t \in Nat : t = conn.through
  BY <1>4 DEF Connections
<1>6. PICK ks : ks = kinds
  OBVIOUS
<1>7. PICK l \in Nat : l = Len(items)
  OBVIOUS
<1>8. Carries(inbox \o items, ks, lastSeq, bubble, rows)
  <2>1. t <= t /\ t + Len(items) <= Len(ks) /\ Drawn(inbox, ks, bubble, Len(inbox) + 1) = {}
    BY <1>1, <1>3, <1>5, <1>6 DEF AtEnd
  <2> QED BY <2>1, <1>3, <1>4, <1>5, <1>6, RunCarries
<1>9. \A k \in 0..Len(items) :
        LET r == IF k = 0 THEN t ELSE t + k
        IN r \in Nat /\ Reaches(items, c.through, k + 1, r)
  <2>1. t <= t
    OBVIOUS
  <2> QED BY <2>1, <1>5, RunReaches, ZenonT(60)
<1>10. \A k \in 0..Len(items) : \E r \in Nat : Reaches(items, c.through, k + 1, r)
  BY <1>9
<1>11. PICK n \in Nat : n = t + l
  OBVIOUS
<1>12. Reaches(items, c.through, Len(items) + 1, n)
  <2>1. l \in 0..Len(items) /\ n = IF l = 0 THEN t ELSE t + l
    BY <1>7, <1>11
  <2> QED BY <2>1, <1>7, <1>9
<1>13. \A r \in Nat : Reaches(items, c.through, Len(items) + 1, r) => r = n
  <2>1. c.through \in Nat /\ Len(items) + 1 \in Nat
    BY <1>5
  <2> QED BY <2>1, <1>12, ReachesOnce
<1>14. Drawn(inbox \o items, ks, bubble, Len(inbox \o items) + 1) = {}
  <2>1. l \in 0..Len(items) /\ Len(inbox \o items) + 1 = Len(inbox) + l + 1
    BY <1>4, <1>7, Joined
  <2>2. Drawn(inbox \o items, ks, bubble, Len(inbox) + l + 1) \subseteq Drawn(inbox, ks, bubble, Len(inbox) + 1)
    BY <2>1, <1>4, DrawnOn
  <2> QED BY <2>1, <2>2, <1>3, <1>6 DEF AtEnd
<1>15. Whole({}, streamed')
  BY DEF Whole
<1>16. /\ c.upto <= Len(ks) /\ ks = kinds' /\ UNCHANGED <<edge, hole, lastId, viewVars>>
       /\ Reaches(inbox, lastSeq, Len(inbox) + 1, c.through)
  BY <1>1, <1>3, <1>6
<1>17. \A r \in Nat : Reaches(items, c.through, Len(items) + 1, r) =>
         r <= Len(ks) /\ (c.mode = "live" => r = Len(ks) \/ hole # 0)
  BY <1>1, <1>5, <1>6, <1>7, <1>11, <1>13
<1>18. c.mode = "replaying" => /\ c.upto <= Len(ks)
                               /\ Drawn(inbox \o items, ks, bubble, Len(inbox \o items) + 1) = {}
  BY <1>14, <1>16
<1>19. c.mode = "live" => Whole(Drawn(inbox \o items, ks, bubble, Len(inbox \o items) + 1), streamed')
  BY <1>14, <1>15
<1>20. Ready
  BY <1>2, <1>3, <1>4, <1>8, <1>10, <1>16, <1>17, <1>18, <1>19, WriteKeeps
<1>21. /\ stream' \in {"dialling", "open", "abandoned"} /\ kinds' \in Seq({"message", "note"})
       /\ last <= last' /\ last' <= MaxSeq /\ streamed' \in 0..Parts
  BY <1>1, <1>2, ViewFacts
<1> QED BY <1>1, <1>20, <1>21, EdgeStep

LEMMA ReplayNextKeeps == ASSUME ViewInv, ReplayNext PROVE ViewInv'
<1>1. /\ UNCHANGED coreVars /\ UNCHANGED viewVars /\ lastId' = lastId /\ stream' = stream
      /\ conn.mode = "replaying" /\ conn.through < last
      /\ Write(conn, inbox, <<Envelope(conn.through + 1)>>)
  BY DEF ReplayNext
<1>2. conn \in Connections /\ conn.pending <= highWater /\ last \in Nat /\ conn.upto <= last
  BY <1>1, ViewFacts, InvParts DEF Attached
<1>3. PICK t \in Nat : t = conn.through
  BY <1>2 DEF Connections
<1>4. PICK e \in Carriable : e = Envelope(t + 1) /\ e.kind = "envelope"
  BY Frames, t + 1 \in Nat
<1>5. PICK items : items = <<e>>
  OBVIOUS
<1>6. items \in Seq(Carriable) /\ Len(items) = 1 /\ items[1] = e /\ DOMAIN items = 1..1
  BY <1>5
<1>7. IsRun(items, conn.through) /\ NoneLost(items) /\ \A j \in 1..Len(items) : items[j].kind # "part"
  BY <1>3, <1>4, <1>6 DEF IsRun, NoneLost
<1>8. conn.through + Len(items) <= last /\ Write(conn, inbox, items)
  BY <1>1, <1>2, <1>3, <1>4, <1>5, <1>6
<1>9. UNCHANGED <<coreVars, lastId, viewVars>> /\ conn.mode \in {"live", "replaying"} /\ conn.mode # "live"
  BY <1>1
<1> QED BY <1>1, <1>2, <1>6, <1>7, <1>8, <1>9, ReplayRun

LEMMA GoLiveKeeps == ASSUME ViewInv, GoLive PROVE ViewInv'
<1>1. /\ UNCHANGED coreVars /\ UNCHANGED viewVars /\ lastId' = lastId /\ stream' = stream
      /\ conn.mode = "replaying"
      /\ Write([conn EXCEPT !.mode = "live"], inbox, Run(conn.through + 1, last))
  BY DEF GoLive
<1>2. /\ conn \in Connections /\ conn.pending <= highWater /\ last \in Nat /\ conn.upto <= last
      /\ conn.through <= last
  BY <1>1, ViewFacts, InvParts DEF Attached
<1>3. PICK t \in Nat : t = conn.through
  BY <1>2 DEF Connections
<1>4. PICK c \in Connections : /\ c = [conn EXCEPT !.mode = "live"]
                               /\ c.mode = "live" /\ c.through = conn.through /\ c.upto = conn.upto
                               /\ c.pending = conn.pending
  <2>1. PICK d : d = [conn EXCEPT !.mode = "live"]
    OBVIOUS
  <2>2. /\ d \in Connections /\ d.mode = "live" /\ d.through = conn.through /\ d.upto = conn.upto
        /\ d.pending = conn.pending
    BY <2>1, <1>2 DEF Connections
  <2> QED BY <2>1, <2>2
<1>5. PICK items \in Seq(Carriable) : items = Run(t + 1, last)
  BY <1>2, <1>3, RunIs
<1>6. /\ Len(items) = last - t /\ IsRun(items, t) /\ NoneLost(items)
      /\ \A j \in 1..Len(items) : items[j].kind # "part"
  BY <1>2, <1>3, <1>5, RunIs
<1>7. conn.through + Len(items) = last /\ conn.through + Len(items) <= last
  <2>1. t + (last - t) = last /\ last <= last
    BY <1>2
  <2> QED BY <2>1, <1>3, <1>6
<1>8. /\ UNCHANGED <<coreVars, lastId, viewVars>> /\ Write(c, inbox, items)
      /\ c.upto <= last /\ c.pending <= highWater /\ IsRun(items, conn.through)
      /\ c.mode \in {"live", "replaying"}
  BY <1>1, <1>2, <1>3, <1>4, <1>5, <1>6
<1> QED BY <1>1, <1>4, <1>6, <1>7, <1>8, ReplayRun

LEMMA ReplayHoleKeeps == ASSUME ViewInv, ReplayHole PROVE ViewInv'
<1> DEFINE from == IF conn.upto > conn.through THEN conn.upto ELSE conn.through
<1>1. /\ UNCHANGED coreVars /\ UNCHANGED viewVars /\ lastId' = lastId /\ stream' = stream
      /\ conn.mode = "replaying" /\ conn.through + 1 = hole
      /\ Write([conn EXCEPT !.mode = "live"], inbox, <<ReplayGap(conn.through)>> \o Run(from + 1, last))
  BY DEF ReplayHole
<1>2. /\ conn \in Connections /\ conn.pending <= highWater /\ last \in Nat /\ conn.upto <= last
      /\ conn.through <= last /\ Reaches(inbox, lastSeq, Len(inbox) + 1, conn.through) /\ AtEnd = {}
      /\ Carries(inbox, kinds, lastSeq, bubble, rows) /\ (edge = "sse" => lastId = lastSeq)
      /\ inbox \in Seq(Carriable) /\ kinds \in Seq({"message", "note"}) /\ lastSeq \in Nat
      /\ highWater \in Nat
  BY <1>1, ViewFacts, InvParts DEF Attached
<1>3. PICK t \in Nat : t = conn.through
  BY <1>2 DEF Connections
<1>4. PICK f \in Nat : f = from /\ t <= f /\ f <= last
  <2>1. conn.upto \in Nat
    BY <1>2 DEF Connections
  <2> QED BY <2>1, <1>2, <1>3
<1>5. PICK c \in Connections : /\ c = [conn EXCEPT !.mode = "live"]
                               /\ c.mode = "live" /\ c.through = t /\ c.pending <= highWater
  <2>1. PICK d : d = [conn EXCEPT !.mode = "live"]
    OBVIOUS
  <2>2. d \in Connections /\ d.mode = "live" /\ d.through = conn.through /\ d.pending = conn.pending
    BY <2>1, <1>2 DEF Connections
  <2> QED BY <2>1, <2>2, <1>2, <1>3
<1>6. PICK run \in Seq(Carriable) : run = Run(f + 1, last)
  BY <1>2, <1>4, RunIs
<1>7. /\ Len(run) = last - f /\ IsRun(run, f) /\ NoneLost(run)
      /\ \A j \in 1..Len(run) : run[j].kind # "part"
  BY <1>2, <1>4, <1>6, RunIs
<1>8. PICK g \in Carriable : g = ReplayGap(t) /\ g.kind = "gap" /\ g.n = t
  BY Frames
<1>9. PICK l \in Nat : l = Len(run)
  OBVIOUS
<1>10. PICK items : items = <<g>> \o run
  OBVIOUS
<1>11. /\ items \in Seq(Carriable) /\ Len(items) = l + 1 /\ DOMAIN items = 1..(l + 1) /\ DOMAIN run = 1..l
       /\ items[1] = g /\ \A j \in 1..l : items[1 + j] = run[j]
  <2>1. <<g>> \in Seq(Carriable) /\ Len(<<g>>) = 1 /\ 1 \in 1..1 /\ <<g>>[1] = g
    OBVIOUS
  <2> QED BY <2>1, <1>9, <1>10, Joined
<1>12. \A j \in 1..(l + 1) : j = 1 \/ \E k \in 1..l : j = 1 + k
  <2> SUFFICES ASSUME NEW j \in 1..(l + 1), j # 1 PROVE \E k \in 1..l : j = 1 + k
    OBVIOUS
  <2>1. j - 1 \in 1..l /\ j = 1 + (j - 1)
    OBVIOUS
  <2> QED BY <2>1
<1>13. NoneLost(items) /\ \A j \in 1..Len(items) : items[j].kind # "part"
  <2> SUFFICES ASSUME NEW j \in 1..(l + 1) PROVE items[j].kind # "lost" /\ items[j].kind # "part"
    BY <1>11 DEF NoneLost
  <2>1. CASE j = 1
    BY <2>1, <1>8, <1>11
  <2>2. CASE j # 1
    <3>1. PICK k \in 1..l : j = 1 + k
      BY <2>2, <1>12
    <3> QED BY <3>1, <1>7, <1>9, <1>11 DEF NoneLost
  <2> QED BY <2>1, <2>2
<1>14. PICK q : q = Append(inbox, g)
  OBVIOUS
<1>15. PICK m \in Nat : m = Len(inbox)
  BY <1>2
<1>16. /\ q \in Seq(Carriable) /\ Len(q) = m + 1 /\ DOMAIN q = 1..(m + 1)
       /\ (\A j \in 1..m : q[j] = inbox[j]) /\ q[m + 1] = g
  BY <1>2, <1>14, <1>15, Appended
<1>17. Reaches(q, lastSeq, m + 1, t)
  <2>1. m + 1 \in Nat /\ (m + 1) - 1 = m
    OBVIOUS
  <2> QED BY <2>1, <1>2, <1>3, <1>15, <1>16, PrefixReaches
<1>18. Carries(q, kinds, lastSeq, bubble, rows)
  <2>1. FollowsOn(q, kinds, lastSeq, bubble, rows, m + 1)
    BY <1>8, <1>16, <1>17 DEF FollowsOn, IsEnvelope
  <2> QED BY <2>1, <1>2, <1>14, <1>15, CarriesOneMore
<1>19. Reaches(q, lastSeq, Len(q) + 1, t)
  <2>1. ~IsEnvelope(g) /\ Reaches(inbox, lastSeq, Len(inbox) + 1, t) /\ Len(q) + 1 = Len(inbox) + 2
    BY <1>2, <1>3, <1>8, <1>15, <1>16 DEF IsEnvelope
  <2> QED BY <2>1, <1>2, <1>14, ReachesOne
<1>20. GapBefore(q, rows, Len(q) + 1)
  <2>1. m + 1 \in 1..((Len(q) + 1) - 1)
    BY <1>16
  <2> QED BY <2>1, <1>8, <1>16 DEF GapBefore
<1>21. Drawn(q, kinds, bubble, Len(q) + 1) = {}
  <2>1. ~Clears(kinds, g) /\ \A x \in 1..Parts : g # Item("part", x)
    BY <1>8, Frames DEF Clears, IsEnvelope
  <2>2. Len(q) + 1 = Len(inbox) + 2
    BY <1>15, <1>16
  <2>3. Drawn(Append(inbox, g), kinds, bubble, Len(inbox) + 2) =
          IF Clears(kinds, g) THEN {}
          ELSE Drawn(inbox, kinds, bubble, Len(inbox) + 1) \cup {p \in 1..Parts : g = Item("part", p)}
    BY <1>2, DrawnOne, ZenonT(60)
  <2>4. {p \in 1..Parts : g = Item("part", p)} = {}
    BY <2>1
  <2>5. Drawn(inbox, kinds, bubble, Len(inbox) + 1) = {}
    BY <1>2 DEF AtEnd
  <2> QED BY <2>1, <2>2, <2>3, <2>4, <2>5, <1>14
<1>22. inbox \o items = q \o run
  <2>1. <<g>> \in Seq(Carriable)
    OBVIOUS
  <2>2. inbox \o (<<g>> \o run) = (inbox \o <<g>>) \o run
    BY <2>1, <1>2, ConcatAssociative
  <2>3. inbox \o <<g>> = q
    BY <1>2, <1>14, AppendIsConcat
  <2> QED BY <2>2, <2>3, <1>10
<1>23. PICK ks \in Seq({"message", "note"}) : ks = kinds /\ Len(ks) = last
  BY <1>2 DEF last
<1>24. Carries(inbox \o items, ks, lastSeq, bubble, rows)
  <2>1. f + Len(run) <= Len(ks)
    BY <1>2, <1>4, <1>7, <1>23
  <2>2. Carries(q \o run, ks, lastSeq, bubble, rows)
    BY <2>1, <1>2, <1>4, <1>7, <1>16, <1>18, <1>19, <1>20, <1>21, <1>23, RunCarries
  <2> QED BY <2>2, <1>22
<1>25. Drawn(inbox \o items, ks, bubble, Len(inbox \o items) + 1) = {}
  <2>1. l \in 0..Len(run) /\ Len(q \o run) + 1 = Len(q) + l + 1
    <3>1. Len(q \o run) = Len(q) + Len(run)
      BY <1>16, Joined
    <3> QED BY <3>1, <1>9
  <2>2. Drawn(q \o run, ks, bubble, Len(q) + l + 1) \subseteq Drawn(q, ks, bubble, Len(q) + 1)
    BY <2>1, <1>7, <1>16, DrawnOn
  <2> QED BY <2>1, <2>2, <1>21, <1>22, <1>23
<1>26. ASSUME NEW k \in 0..Len(items)
       PROVE \E r \in Nat : r <= last /\ Reaches(items, c.through, k + 1, r)
  <2>1. CASE k = 0
    <3>1. Reaches(items, t, k + 1, t)
      BY <2>1 DEF Reaches
    <3> QED BY <3>1, <1>2, <1>3, <1>5
  <2>2. CASE k # 0
    <3>1. PICK j \in Nat : k = 1 + j
      <4>1. k - 1 \in Nat /\ k = 1 + (k - 1)
        BY <2>2
      <4> QED BY <4>1
    <3>2. j \in 0..Len(run)
      BY <3>1, <1>9, <1>11
    <3>3. PICK r \in Nat : r = (IF j = 0 THEN t ELSE f + j) /\ r <= last
      <4>1. f + j <= last /\ t <= last /\ t \in Nat /\ f + j \in Nat
        <5>1. j <= last - f /\ j \in Nat
          BY <3>1, <3>2, <1>7
        <5>2. last \in Nat
          BY <1>2
        <5>3. f <= last /\ t <= last /\ t \in Nat
          BY <1>4, <5>2
        <5>4. f + j <= last
          BY <5>1, <5>2, <5>3
        <5> QED BY <5>3, <5>4, <5>1
      <4> QED BY <4>1
    <3>4. Reaches(run, t, j + 1, r)
      BY <3>2, <3>3, <1>4, <1>7, RunReaches
    <3>5. <<g>> \in Seq(Carriable) /\ Len(<<g>>) = 1 /\ <<g>>[1] = g
      OBVIOUS
    <3>6. Reaches(<<g>>, t, 1 + 1, t)
      <4>1. ~IsEnvelope(g) /\ \A i \in 1..((1 + 1) - 1) : i = 1
        BY <1>8 DEF IsEnvelope
      <4> QED BY <4>1, <3>5 DEF Reaches
    <3>7. Reaches(<<g>> \o run, t, 1 + j + 1, r)
      BY <3>2, <3>4, <3>5, <3>6, ReachesOn
    <3>8. 1 + j + 1 = k + 1
      BY <3>1
    <3> QED BY <3>3, <3>7, <3>8, <1>5, <1>10
  <2> QED BY <2>1, <2>2
<1>27. \A k \in 0..Len(items) : \E r \in Nat : Reaches(items, c.through, k + 1, r)
  BY <1>26
<1>28. \A r \in Nat : Reaches(items, c.through, Len(items) + 1, r) => r <= last
  <2>1. Len(items) \in 0..Len(items) /\ c.through \in Nat /\ Len(items) + 1 \in Nat
    BY <1>5, <1>11
  <2>2. PICK r2 \in Nat : r2 <= last /\ Reaches(items, c.through, Len(items) + 1, r2)
    BY <2>1, <1>26
  <2>3. \A r \in Nat : Reaches(items, c.through, Len(items) + 1, r) => r = r2
    BY <2>1, <2>2, ReachesOnce
  <2> QED BY <2>2, <2>3
<1>29. hole # 0
  BY <1>1, <1>3
<1>30. \A r \in Nat : Reaches(items, c.through, Len(items) + 1, r) =>
         r <= Len(ks) /\ (c.mode = "live" => r = Len(ks) \/ hole # 0)
  BY <1>23, <1>28, <1>29
<1>31. Write(c, inbox, items)
  BY <1>1, <1>3, <1>4, <1>5, <1>6, <1>8, <1>10
<1>32. /\ UNCHANGED <<edge, highWater, hole, lastId, viewVars>>
       /\ kinds' = kinds /\ streamed' = streamed /\ last' = last
  BY <1>1 DEF coreVars, last
<1>33. NoneLost(inbox) /\ stream' = "open"
  BY <1>1, Connected
<1>34. Whole({}, streamed')
  BY DEF Whole
<1>35. /\ c.mode = "live" => Whole(Drawn(inbox \o items, ks, bubble, Len(inbox \o items) + 1), streamed')
       /\ c.mode \in {"live", "replaying"} /\ c.mode # "replaying"
  BY <1>5, <1>25, <1>34
<1>36. /\ Reaches(inbox, lastSeq, Len(inbox) + 1, c.through) /\ ks = kinds'
       /\ UNCHANGED <<edge, hole, lastId, viewVars>>
  BY <1>2, <1>3, <1>5, <1>23, <1>32
<1>37. Ready
  BY <1>2, <1>5, <1>11, <1>13, <1>24, <1>27, <1>30, <1>31, <1>33, <1>35, <1>36, WriteKeeps
<1>38. /\ stream' \in {"dialling", "open", "abandoned"} /\ kinds' \in Seq({"message", "note"})
       /\ last <= last' /\ last' <= MaxSeq /\ streamed' \in 0..Parts
  BY <1>32, <1>33, ViewFacts
<1> QED BY <1>32, <1>37, <1>38, EdgeStep

\* One item written to a live connection.
LEMMA LiveWrite ==
  ASSUME ViewInv, conn.mode = "live", NEW e \in Carriable, e.kind # "lost", Write(conn, inbox, <<e>>),
         NEW ks, ks = kinds', NEW n \in Nat, n = Len(ks),
         Carries(Append(inbox, e), ks, lastSeq, bubble, rows),
         IF IsEnvelope(e) THEN e = Envelope(n) /\ conn.through <= n ELSE conn.through = n \/ (conn.through <= n /\ hole # 0),
         Whole(Drawn(Append(inbox, e), ks, bubble, Len(inbox) + 2), streamed'),
         stream' = stream, UNCHANGED <<edge, hole, lastId, viewVars>>
  PROVE Ready
<1>1. stream' = "open" /\ NoneLost(inbox)
  BY Connected
<1>2. /\ conn \in Connections /\ conn.pending <= highWater /\ inbox \in Seq(Carriable)
      /\ lastSeq \in Nat /\ highWater \in Nat
      /\ Reaches(inbox, lastSeq, Len(inbox) + 1, conn.through) /\ (edge = "sse" => lastId = lastSeq)
  BY ViewFacts, InvParts DEF Attached
<1>3. PICK t \in Nat : t = conn.through
  BY <1>2 DEF Connections
<1>4. PICK items : items = <<e>>
  OBVIOUS
<1>5. /\ items \in Seq(Carriable) /\ Len(items) = 1 /\ DOMAIN items = 1..1 /\ items[1] = e
  BY <1>4
<1>6. NoneLost(items)
  BY <1>5 DEF NoneLost
<1>7. inbox \o items = Append(inbox, e) /\ Len(inbox \o items) + 1 = Len(inbox) + 2
  <2>1. inbox \o items = Append(inbox, e)
    BY <1>2, <1>4, AppendIsConcat
  <2> QED BY <2>1, <1>2, Appended
<1>8. PICK r \in Nat : r = (IF IsEnvelope(e) THEN n ELSE t) /\ r <= n /\ (r = n \/ hole # 0)
  BY <1>3
<1>9. Reaches(items, t, 0 + 1, t)
  BY DEF Reaches
<1>10. Reaches(items, t, 1 + 1, r)
  <2>1. \A j \in 1..((1 + 1) - 1) : j = 1
    OBVIOUS
  <2>2. 1 \in 1..((1 + 1) - 1) /\ t <= t
    OBVIOUS
  <2>3. CASE IsEnvelope(e)
    <3>1. r = n /\ e = Envelope(r) /\ t <= r
      BY <2>3, <1>3, <1>8
    <3>2. e.n = r
      BY <3>1, Frames
    <3> QED BY <3>1, <3>2, <2>1, <2>2, <1>5 DEF Reaches
  <2>4. CASE ~IsEnvelope(e)
    BY <2>1, <2>2, <2>4, <1>5, <1>8 DEF Reaches
  <2> QED BY <2>3, <2>4
<1>11. \A k \in 0..Len(items) : \E x \in Nat : Reaches(items, conn.through, k + 1, x)
  <2>1. \A k \in 0..1 : k = 0 \/ k = 1
    OBVIOUS
  <2> QED BY <2>1, <1>3, <1>5, <1>9, <1>10
<1>12. \A x \in Nat : Reaches(items, conn.through, Len(items) + 1, x) =>
         x <= Len(ks) /\ (conn.mode = "live" => x = Len(ks) \/ hole # 0)
  <2>1. ASSUME NEW x \in Nat, Reaches(items, t, 1 + 1, x) PROVE x = r
    BY <2>1, <1>10, ReachesOnce, 1 + 1 \in Nat
  <2> QED BY <2>1, <1>3, <1>5, <1>8
<1>13. /\ Carries(inbox \o items, ks, lastSeq, bubble, rows)
       /\ conn.mode = "live" => Whole(Drawn(inbox \o items, ks, bubble, Len(inbox \o items) + 1), streamed')
       /\ conn.mode \in {"live", "replaying"} /\ conn.mode # "replaying" /\ Write(conn, inbox, items)
  BY <1>4, <1>7
<1> QED BY <1>1, <1>2, <1>5, <1>6, <1>11, <1>12, <1>13, WriteKeeps

\* No connection is live, and nothing is written.
LEMMA SameReady ==
  ASSUME ViewInv, UNCHANGED <<conn, inbox, edge, hole, lastId, stream, viewVars>>,
         conn.mode # "live",
         NEW ks, ks = kinds', last <= Len(ks), Len(ks) \in Nat,
         Carries(inbox, ks, lastSeq, bubble, rows),
         Drawn(inbox, ks, bubble, Len(inbox) + 1) = AtEnd
  PROVE Ready
<1>1. /\ conn' = conn /\ inbox' = inbox /\ edge' = edge /\ hole' = hole /\ lastId' = lastId /\ stream' = stream
      /\ lastSeq' = lastSeq /\ bubble' = bubble /\ rows' = rows /\ last' = Len(ks)
  BY DEF viewVars, last
<1>2. Linked'
  BY <1>1, InvParts DEF Linked
<1>3. Carried'
  BY <1>1 DEF Carried
<1>4. AtEnd' = AtEnd
  BY <1>1 DEF AtEnd
<1>5. conn \in Connections /\ conn.pending <= highWater /\ inbox \in Seq(Carriable) /\ last \in Nat
  BY ViewFacts
<1>6. conn.through \in Nat /\ conn.upto \in Nat
  BY <1>5 DEF Connections
<1>7. Attached'
  BY <1>1, <1>4, <1>5, <1>6, InvParts DEF Attached
<1> QED BY <1>1, <1>2, <1>3, <1>5, <1>7 DEF Ready

LEMMA DeltaKeeps == ASSUME ViewInv, Delta PROVE ViewInv'
<1>1. /\ UNCHANGED <<edge, highWater, hole, lastId, viewVars>> /\ stream' = stream
      /\ kinds' = kinds /\ last' = last /\ last = Len(kinds)
      /\ streamed < Parts /\ streamed' = streamed + 1
  BY DEF Delta, last
<1>2. /\ streamed \in Nat /\ Parts \in Nat /\ inbox \in Seq(Carriable) /\ last \in Nat
      /\ Carries(inbox, kinds, lastSeq, bubble, rows) /\ lastSeq \in Nat /\ conn \in Connections
  BY ViewFacts, InvParts
<1>3. Ready
  <2>1. CASE conn.mode = "live"
    <3>1. PICK p \in 1..Parts : p = streamed + 1 /\ p \in Nat
      BY <1>1, <1>2
    <3>2. PICK e \in Carriable : e = Item("part", p) /\ e.kind = "part" /\ e.n = p
      BY <3>1, Frames
    <3>3. Write(conn, inbox, <<e>>)
      BY <2>1, <1>1, <3>1, <3>2 DEF Delta
    <3>4. /\ conn.through <= last /\ (conn.through = last \/ hole # 0) /\ Whole(AtEnd, streamed)
      BY <2>1, InvParts DEF Attached
    <3>5. Append(inbox, e)[Len(inbox) + 1] = e
      BY <1>2, Appended
    <3>6. FollowsOn(Append(inbox, e), kinds, lastSeq, bubble, rows, Len(inbox) + 1)
      <4>1. PICK q : q = Append(inbox, e)
        OBVIOUS
      <4>2. PICK i : i = Len(inbox) + 1
        OBVIOUS
      <4>3. q[i].kind = "part" /\ q[i].n \in 1..Parts
        BY <4>1, <4>2, <3>1, <3>2, <3>5
      <4>4. FollowsOn(q, kinds, lastSeq, bubble, rows, i)
        BY <4>3 DEF FollowsOn, IsEnvelope
      <4> QED BY <4>1, <4>2, <4>4
    <3>7. Carries(Append(inbox, e), kinds, lastSeq, bubble, rows)
      BY <3>6, <1>2, CarriesOneMore
    <3>8. ~IsEnvelope(e) /\ ~Clears(kinds, e)
      BY <3>2 DEF Clears, IsEnvelope
    <3>9. Drawn(Append(inbox, e), kinds, bubble, Len(inbox) + 2) =
            IF Clears(kinds, e) THEN {}
            ELSE Drawn(inbox, kinds, bubble, Len(inbox) + 1) \cup {x \in 1..Parts : e = Item("part", x)}
      BY <1>2, DrawnOne
    <3>10. {x \in 1..Parts : e = Item("part", x)} = {p}
      BY <3>1, <3>2, Frames
    <3>11. Drawn(Append(inbox, e), kinds, bubble, Len(inbox) + 2) = AtEnd \cup {p}
      BY <3>8, <3>9, <3>10 DEF AtEnd
    <3>12. Whole(AtEnd \cup {p}, streamed')
      <4>1. PICK d : d = AtEnd
        OBVIOUS
      <4>2. d \subseteq 1..streamed /\ \A x \in d : x..streamed \subseteq d
        BY <3>4, <4>1 DEF Whole
      <4>3. d \cup {p} \subseteq 1..p
        BY <4>2, <3>1, <1>2
      <4>4. \A x \in d \cup {p} : x..p \subseteq d \cup {p}
        BY <4>2, <3>1, <1>2
      <4> QED BY <4>1, <4>3, <4>4, <3>1, <1>1 DEF Whole
    <3>13. e.kind # "lost"
      BY <3>2
    <3>14. PICK ks : ks = kinds
      OBVIOUS
    <3>15. /\ ks = kinds' /\ last = Len(ks) /\ stream' = stream /\ UNCHANGED <<edge, hole, lastId, viewVars>>
           /\ Carries(Append(inbox, e), ks, lastSeq, bubble, rows)
           /\ Whole(Drawn(Append(inbox, e), ks, bubble, Len(inbox) + 2), streamed')
      BY <1>1, <3>7, <3>11, <3>12, <3>14
    <3>16. IF IsEnvelope(e) THEN e = Envelope(last) /\ conn.through <= last
           ELSE conn.through = last \/ (conn.through <= last /\ hole # 0)
      BY <3>4, <3>8
    <3> QED BY <2>1, <3>3, <3>13, <3>15, <3>16, <1>2, LiveWrite
  <2>2. CASE conn.mode # "live"
    <3>1. UNCHANGED <<conn, inbox, edge, hole, lastId, stream, viewVars>>
      BY <2>2, <1>1 DEF Delta
    <3>2. PICK ks : ks = kinds
      OBVIOUS
    <3>3. /\ ks = kinds' /\ last <= Len(ks) /\ Len(ks) \in Nat /\ Carries(inbox, ks, lastSeq, bubble, rows)
          /\ Drawn(inbox, ks, bubble, Len(inbox) + 1) = AtEnd
      BY <1>1, <1>2, <3>2 DEF AtEnd
    <3> QED BY <2>2, <3>1, <3>3, SameReady
  <2> QED BY <2>1, <2>2
<1>4. /\ stream' \in {"dialling", "open", "abandoned"} /\ kinds' \in Seq({"message", "note"})
      /\ last <= last' /\ last' <= MaxSeq /\ streamed' \in 0..Parts
  BY <1>1, <1>2, ViewFacts
<1> QED BY <1>1, <1>3, <1>4, EdgeStep

LEMMA EmitKeeps == ASSUME ViewInv, NEW kind \in {"message", "note"}, Emit(kind) PROVE ViewInv'
<1>1. /\ UNCHANGED <<edge, highWater, hole, lastId, viewVars>> /\ stream' = stream
      /\ last < MaxSeq /\ kinds' = Append(kinds, kind) /\ last = Len(kinds) /\ last' = Len(kinds')
      /\ (kind = "message" => streamed \in {0, Parts})
      /\ streamed' = IF kind = "message" THEN 0 ELSE streamed
  BY DEF Emit, last
<1>2. /\ streamed \in 0..Parts /\ Parts \in Nat /\ inbox \in Seq(Carriable) /\ last \in Nat /\ MaxSeq \in Nat
      /\ Carries(inbox, kinds, lastSeq, bubble, rows) /\ lastSeq \in Nat /\ conn \in Connections
      /\ kinds \in Seq({"message", "note"}) /\ highWater \in Nat /\ (edge = "sse" => lastId = lastSeq)
  BY ViewFacts, InvParts
<1>3. PICK ks \in Seq({"message", "note"}) :
        ks = Append(kinds, kind) /\ Len(ks) = last + 1 /\ ks[last + 1] = kind
  <2>1. PICK old \in Seq({"message", "note"}), n \in Nat : old = kinds /\ n = last /\ Len(old) = n
    BY <1>1, <1>2
  <2>2. kind \in {"message", "note"}
    OBVIOUS
  <2>3. PICK more : more = Append(old, kind)
    OBVIOUS
  <2>4. more \in Seq({"message", "note"})
    BY <2>2, <2>3
  <2>5. Len(more) = n + 1 /\ more[n + 1] = kind
    BY <2>1, <2>3
  <2> QED BY <2>1, <2>3, <2>4, <2>5
<1>4. hole = 0
  BY <1>1, <1>2, InvParts DEF Over
<1>5. PICK m \in Nat : m = Len(inbox)
  BY <1>2
<1>6. /\ Carries(inbox, ks, lastSeq, bubble, rows)
      /\ Drawn(inbox, ks, bubble, Len(inbox) + 1) = AtEnd
  <2>1. Len(inbox) + 1 \in 1..(Len(inbox) + 1)
    BY <1>2
  <2> QED BY <2>1, <1>2, <1>3, MoreKinds DEF AtEnd
<1>7. Ready
  <2>1. CASE conn.mode = "live"
    <3>1. PICK n \in Nat : n = last + 1
      BY <1>2
    <3>2. PICK e \in Carriable : e = Envelope(n) /\ e.kind = "envelope" /\ e.n = n
      BY Frames
    <3>3. Write(conn, inbox, <<e>>)
      BY <2>1, <3>1, <3>2 DEF Emit, Fans, Swamped
    <3>4. /\ conn.through = last /\ Whole(AtEnd, streamed)
          /\ Reaches(inbox, lastSeq, Len(inbox) + 1, conn.through)
      BY <2>1, <1>4, InvParts DEF Attached
    <3>5. PICK q : q = Append(inbox, e)
      OBVIOUS
    <3>6. q[m + 1] = e /\ \A j \in 1..m : q[j] = inbox[j]
      BY <1>2, <1>5, <3>5, Appended
    <3>7. m + 1 \in Nat /\ (m + 1) - 1 = m
      OBVIOUS
    <3>8. Reaches(q, lastSeq, m + 1, last)
      BY <3>4, <3>6, <3>7, <1>5, PrefixReaches
    <3>9. Drawn(q, ks, bubble, m + 1) = AtEnd
      BY <3>6, <3>7, <1>5, <1>6, PrefixDrawn
    <3>10. kind = "message" => Whole(AtEnd, Parts)
      <4>1. CASE streamed = Parts
        BY <4>1, <3>4
      <4>2. CASE streamed = 0
        <5>1. 1..0 = {} /\ AtEnd \subseteq 1..0
          BY <4>2, <3>4 DEF Whole
        <5>2. AtEnd = {}
          BY <5>1
        <5> QED BY <5>2 DEF Whole
      <4> QED BY <4>1, <4>2, <1>1
    <3>11. FollowsOn(q, ks, lastSeq, bubble, rows, m + 1)
      <4>1. PICK i : i = m + 1
        OBVIOUS
      <4>2. q[i].kind = "envelope" /\ q[i].n = n
        BY <4>1, <3>2, <3>6
      <4>3. n <= Len(ks) /\ last \in 0..Len(ks) /\ last < n /\ n = last + 1
        BY <3>1, <1>2, <1>3
      <4>4. ks[n] = "message" => Whole(Drawn(q, ks, bubble, i), Parts)
        BY <4>1, <3>1, <3>9, <3>10, <1>3
      <4>5. FollowsOn(q, ks, lastSeq, bubble, rows, i)
        BY <4>1, <4>2, <4>3, <4>4, <3>8 DEF FollowsOn
      <4> QED BY <4>1, <4>5
    <3>12. Carries(q, ks, lastSeq, bubble, rows)
      BY <3>5, <3>11, <1>2, <1>5, <1>6, CarriesOneMore
    <3>13. Drawn(Append(inbox, e), ks, bubble, Len(inbox) + 2) =
             IF Clears(ks, e) THEN {}
             ELSE Drawn(inbox, ks, bubble, Len(inbox) + 1) \cup {x \in 1..Parts : e = Item("part", x)}
      BY <1>2, DrawnOne
    <3>14. {x \in 1..Parts : e = Item("part", x)} = {}
      BY <3>2, Frames
    <3>15. Clears(ks, e) <=> kind = "message"
      BY <3>1, <3>2, <1>3 DEF Clears, IsEnvelope
    <3>16. Whole(Drawn(Append(inbox, e), ks, bubble, Len(inbox) + 2), streamed')
      <4>1. CASE kind = "message"
        <5>1. Drawn(Append(inbox, e), ks, bubble, Len(inbox) + 2) = {}
          BY <4>1, <3>13, <3>15
        <5> QED BY <5>1 DEF Whole
      <4>2. CASE kind # "message"
        <5>1. Drawn(Append(inbox, e), ks, bubble, Len(inbox) + 2) = AtEnd
          BY <4>2, <3>13, <3>14, <3>15, <1>6
        <5>2. streamed' = streamed
          BY <4>2, <1>1
        <5> QED BY <5>1, <5>2, <3>4
      <4> QED BY <4>1, <4>2
    <3>17. ks = kinds' /\ n = Len(ks) /\ e.kind # "lost"
      BY <1>1, <1>3, <3>1, <3>2
    <3>18. IF IsEnvelope(e) THEN e = Envelope(n) /\ conn.through <= n
           ELSE conn.through = n \/ (conn.through <= n /\ hole # 0)
      BY <3>1, <3>2, <3>4, <1>2 DEF IsEnvelope
    <3>19. UNCHANGED <<edge, hole, lastId, viewVars>> /\ stream' = stream
      BY <1>1
    <3> QED BY <2>1, <3>3, <3>5, <3>12, <3>16, <3>17, <3>18, <3>19, LiveWrite
  <2>2. CASE Swamped(last + 1) /\ conn.mode = "replaying"
    <3>1. conn' = Closed /\ inbox' = inbox \o <<ReplayGap(conn.through), Lost(1000)>>
      <4>1. Fans(last + 1)
        BY DEF Emit
      <4>2. Swamped(last + 1) /\ conn.mode # "live"
        BY <2>2
      <4> QED BY <4>1, <4>2, Zenon DEF Fans
    <3>2. NoneLost(inbox) /\ stream' = "open"
      BY <2>2, <1>1, Connected
    <3>3. PICK t \in Nat : t = conn.through /\ Reaches(inbox, lastSeq, Len(inbox) + 1, t)
      BY <2>2, <1>2, InvParts DEF Attached, Connections
    <3>4. PICK code \in Nat : code = 1000
      OBVIOUS
    <3>5. /\ inbox \o <<ReplayGap(t), Lost(code)>> \in Seq(Carriable)
          /\ Carries(inbox \o <<ReplayGap(t), Lost(code)>>, ks, lastSeq, bubble, rows)
          /\ LostLast(inbox \o <<ReplayGap(t), Lost(code)>>)
      BY <3>2, <3>3, <1>2, <1>6, GapEnds, ZenonT(60)
    <3>6. /\ inbox' \in Seq(Carriable) /\ Carries(inbox', ks, lastSeq, bubble, rows) /\ LostLast(inbox')
      BY <3>1, <3>3, <3>4, <3>5
    <3>7. ks = kinds' /\ UNCHANGED <<edge, lastId, viewVars>>
      BY <1>1, <1>3
    <3>8. conn' = Closed /\ stream' = "open"
      BY <3>1, <3>2
    <3>9. highWater \in Nat /\ (edge = "sse" => lastId = lastSeq)
      BY <1>2
    <3>10. edge' = edge /\ lastId' = lastId /\ lastSeq' = lastSeq /\ bubble' = bubble /\ rows' = rows
      BY <3>7 DEF viewVars
    <3>11. conn'.mode = "closed" /\ conn' \in Connections /\ conn'.pending <= highWater
      BY <3>8, <3>9 DEF Closed, Connections
    <3>12. Carried'
      <4>1. Carries(inbox', kinds', lastSeq, bubble, rows)
        BY <3>6, <3>7
      <4> QED BY <4>1, <3>10 DEF Carried
    <3>13. Linked'
      BY <3>6, <3>8, <3>9, <3>10, <3>11 DEF Linked, LostLast
    <3>14. Attached'
      BY <3>11 DEF Attached
    <3>15. inbox' \in Seq(Carriable)
      BY <3>6
    <3> QED BY <3>11, <3>12, <3>13, <3>14, <3>15 DEF Ready
  <2>3. CASE conn.mode # "live" /\ ~Swamped(last + 1)
    <3>1. UNCHANGED <<conn, inbox>>
      <4>1. Fans(last + 1)
        BY DEF Emit
      <4> QED BY <4>1, <2>3, Zenon DEF Fans
    <3>2. UNCHANGED <<conn, inbox, edge, hole, lastId, stream, viewVars>>
      BY <3>1, <1>1
    <3>3. ks = kinds' /\ last <= Len(ks) /\ Len(ks) \in Nat
      BY <1>1, <1>2, <1>3
    <3> QED BY <2>3, <3>2, <3>3, <1>6, SameReady
  <2>4. Swamped(last + 1) => conn.mode = "replaying"
    BY DEF Swamped
  <2> QED BY <2>1, <2>2, <2>3, <2>4, Zenon
<1>8. /\ stream' \in {"dialling", "open", "abandoned"} /\ kinds' \in Seq({"message", "note"})
      /\ last <= last' /\ last' <= MaxSeq /\ streamed' \in 0..Parts
  BY <1>1, <1>2, <1>3, ViewFacts
<1> QED BY <1>1, <1>7, <1>8, EdgeStep

\* The console takes the head of what its connection has for it.
LEMMA TakeKeeps ==
  ASSUME ViewInv, inbox # << >>, inbox' = Tail(inbox), UNCHANGED coreVars,
         lastSeq' = IF IsEnvelope(Head(inbox)) THEN Head(inbox).n ELSE lastSeq,
         IsEnvelope(Head(inbox)) => lastSeq < Head(inbox).n,
         \A x \in 1..Parts :
           x \in bubble' <=> (x \in bubble /\ ~Clears(kinds, Head(inbox))) \/ Head(inbox) = Item("part", x),
         Head(inbox).kind = "gap" \/ (\E j \in DOMAIN rows : rows[j] = GapRow)
           => \E j \in DOMAIN rows' : rows'[j] = GapRow
  PROVE /\ Carried' /\ AtEnd' = AtEnd /\ inbox' \in Seq(Carriable)
        /\ conn.mode \in {"replaying", "live"} => Reaches(inbox', lastSeq', Len(inbox') + 1, conn.through)
<1>1. /\ inbox \in Seq(Carriable) /\ kinds \in Seq({"message", "note"}) /\ lastSeq \in Nat
      /\ conn \in Connections /\ Carries(inbox, kinds, lastSeq, bubble, rows)
  BY ViewFacts, InvParts
<1>2. kinds' = kinds
  BY DEF coreVars
<1>3. PICK s2 \in Nat : s2 = lastSeq'
  <2>1. Head(inbox) \in Carriable
    BY <1>1, Tailed
  <2> QED BY <2>1, <1>1 DEF Carriable
<1>4. PICK b2 : b2 = bubble'
  OBVIOUS
<1>5. PICK rs2 : rs2 = rows'
  OBVIOUS
<1>6. PICK m \in Nat : m = Len(inbox) /\ m >= 1 /\ Len(Tail(inbox)) = m - 1 /\ Tail(inbox) \in Seq(Carriable)
  BY <1>1, Tailed
<1>7. /\ s2 = IF IsEnvelope(Head(inbox)) THEN Head(inbox).n ELSE lastSeq
      /\ \A x \in 1..Parts :
           x \in b2 <=> (x \in bubble /\ ~Clears(kinds, Head(inbox))) \/ Head(inbox) = Item("part", x)
      /\ (Head(inbox).kind = "gap" \/ (\E j \in DOMAIN rows : rows[j] = GapRow)
           => \E j \in DOMAIN rs2 : rs2[j] = GapRow)
  BY <1>3, <1>4, <1>5
<1>8. Carries(Tail(inbox), kinds, s2, b2, rs2)
  BY <1>1, <1>7, TailCarries
<1>9. Carried'
  BY <1>2, <1>3, <1>4, <1>5, <1>8 DEF Carried
<1>10. m \in 1..Len(inbox) /\ Len(Tail(inbox)) + 1 = m /\ Len(inbox) + 1 = m + 1
  BY <1>6
<1>11. Drawn(Tail(inbox), kinds, b2, m) = Drawn(inbox, kinds, bubble, m + 1)
  BY <1>1, <1>7, <1>10, TailDrawn
<1>12. AtEnd' = AtEnd
  BY <1>2, <1>4, <1>10, <1>11 DEF AtEnd
<1>13. ASSUME conn.mode \in {"replaying", "live"}
       PROVE Reaches(inbox', lastSeq', Len(inbox') + 1, conn.through)
  <2>1. PICK t \in Nat : t = conn.through
    BY <1>1 DEF Connections
  <2>2. Reaches(inbox, lastSeq, m + 1, t)
    BY <1>13, <1>10, <2>1, InvParts DEF Attached
  <2>3. Reaches(Tail(inbox), s2, m, t)
    BY <2>2, <1>1, <1>7, <1>10, TailReaches
  <2> QED BY <2>1, <2>3, <1>3, <1>10
<1> QED BY <1>6, <1>9, <1>12, <1>13

\* The console leaves the session alone.
LEMMA ConsoleStep ==
  ASSUME ViewInv, UNCHANGED coreVars,
         conn' \in Connections, conn'.pending <= highWater, inbox' \in Seq(Carriable),
         stream' \in {"dialling", "open", "abandoned"},
         lastId' \in 0..last, lastSeq' \in 0..last, refetched' \in BOOLEAN,
         rows' \in Seq(Nat), bubble' \subseteq 1..Parts,
         Linked', Carried', Attached', Shown'
  PROVE ViewInv'
<1>1. /\ edge' = edge /\ highWater' = highWater /\ hole' = hole /\ kinds' = kinds /\ streamed' = streamed
      /\ last' = last
  BY DEF coreVars, last
<1>2. ViewTypes'
  BY <1>1, ViewFacts, Zenon DEF ViewTypes
<1>3. Over'
  BY <1>1, InvParts DEF Over
<1> QED BY <1>2, <1>3 DEF ViewInv

\* openStream: nothing of the old view is left.
LEMMA OpenStreamKeeps ==
  ASSUME ViewInv, UNCHANGED coreVars, NEW queued, OpenStream(queued), refetched' \in BOOLEAN
  PROVE ViewInv'
<1>1. /\ inbox' = << >> /\ conn' = Closed /\ stream' = "dialling" /\ lastId' = 0 /\ lastSeq' = 0
      /\ rows' = << >> /\ bubble' = {} /\ cut' = {}
  BY DEF OpenStream
<1>2. /\ conn' \in Connections /\ conn'.pending = 0 /\ conn'.mode = "closed"
  BY <1>1 DEF Closed, Connections
<1>3. highWater \in Nat /\ last \in Nat
  BY ViewFacts
<1>4. conn'.pending <= highWater /\ 0 \in 0..last
  BY <1>2, <1>3
<1>5. inbox' \in Seq(Carriable) /\ rows' \in Seq(Nat) /\ bubble' \subseteq 1..Parts
  BY <1>1
<1>6. Linked'
  BY <1>1, <1>2 DEF Linked
<1>7. Carried'
  BY <1>1 DEF Carried, Carries
<1>8. Attached'
  BY <1>2 DEF Attached
<1>9. Shown'
  BY <1>1 DEF Shown
<1> QED BY <1>1, <1>2, <1>4, <1>5, <1>6, <1>7, <1>8, <1>9, ConsoleStep

LEMMA SelectKeeps == ASSUME ViewInv, Select PROVE ViewInv'
<1>1. UNCHANGED coreVars /\ OpenStream(inbox) /\ refetched' \in BOOLEAN
  BY DEF Select
<1> QED BY <1>1, OpenStreamKeeps

LEMMA OnOpenKeeps == ASSUME ViewInv, OnOpen PROVE ViewInv'
<1>1. /\ UNCHANGED coreVars /\ inbox # << >> /\ Head(inbox).kind = "open" /\ inbox' = Tail(inbox) /\ bubble' = {}
      /\ conn' = IF edge = "ws" /\ conn.mode = "greeting"
                 THEN [conn EXCEPT !.mode = "asked", !.after = lastSeq] ELSE conn
      /\ stream' = stream /\ lastId' = lastId /\ lastSeq' = lastSeq /\ refetched' = refetched
      /\ rows' = rows /\ cut' = cut /\ edge' = edge /\ kinds' = kinds
  BY DEF OnOpen, Takes, Rest, Next0, BubbleAtOpen, coreVars
<1>2. ~IsEnvelope(Head(inbox)) /\ Clears(kinds, Head(inbox)) /\ Head(inbox).kind # "gap"
  BY <1>1 DEF IsEnvelope, Clears
<1>3. \A x : Head(inbox) # Item("part", x)
  BY <1>1, Frames
<1>4. /\ Carried' /\ AtEnd' = AtEnd /\ inbox' \in Seq(Carriable)
      /\ conn.mode \in {"replaying", "live"} => Reaches(inbox', lastSeq', Len(inbox') + 1, conn.through)
  BY <1>1, <1>2, <1>3, TakeKeeps
<1>5. /\ conn \in Connections /\ conn.pending <= highWater /\ lastSeq \in Nat /\ inbox \in Seq(Carriable)
      /\ lastId \in 0..last /\ lastSeq \in 0..last /\ refetched \in BOOLEAN /\ rows \in Seq(Nat)
      /\ stream \in {"dialling", "open", "abandoned"}
  BY ViewFacts
<1>6. PICK m \in Nat : /\ m = Len(inbox) /\ m >= 1 /\ DOMAIN inbox = 1..m /\ Len(inbox') = m - 1
                       /\ DOMAIN inbox' = 1..(m - 1) /\ \A j \in 1..(m - 1) : inbox'[j] = inbox[j + 1]
  BY <1>1, <1>5, Tailed
<1>7. Shown'
  BY <1>1, InvParts DEF Shown
<1>8. \A i \in 1..(m - 1) : inbox'[i].kind = "lost" => i = m - 1 /\ conn.mode = "closed"
  <2> SUFFICES ASSUME NEW i \in 1..(m - 1), inbox'[i].kind = "lost" PROVE i = m - 1 /\ conn.mode = "closed"
    OBVIOUS
  <2>1. i + 1 \in 1..m /\ inbox[i + 1].kind = "lost"
    BY <1>6
  <2>2. i + 1 = m /\ conn.mode = "closed"
    BY <2>1, <1>6, InvParts DEF Linked
  <2> QED BY <2>2
<1>9. stream = "open"
  BY <1>1, <1>5, InvParts DEF Linked
<1>10. CASE edge = "ws" /\ conn.mode = "greeting"
  <2>1. PICK c \in Connections : c = conn
    BY <1>5
  <2>2. PICK d : d = [c EXCEPT !.mode = "asked", !.after = lastSeq]
    OBVIOUS
  <2>3. d \in Connections /\ d.mode = "asked" /\ d.after = lastSeq /\ d.pending = c.pending
    BY <2>2, <1>5 DEF Connections
  <2>4. conn' = d
    BY <2>1, <2>2, <1>1, <1>10
  <2>5. inbox = <<Opened>>
    BY <1>10, InvParts DEF Linked
  <2>6. inbox' = << >>
    BY <2>5, <1>1
  <2>7. Linked'
    BY <2>3, <2>4, <2>6, <1>1, <1>9, <1>10 DEF Linked
  <2>8. AtEnd' = {}
    BY <1>4, <1>10, InvParts DEF Attached
  <2>9. Attached'
    BY <2>3, <2>4, <2>8 DEF Attached
  <2>10. /\ conn' \in Connections /\ conn'.pending <= highWater /\ bubble' \subseteq 1..Parts
         /\ stream' \in {"dialling", "open", "abandoned"} /\ lastId' \in 0..last /\ lastSeq' \in 0..last
         /\ refetched' \in BOOLEAN /\ rows' \in Seq(Nat)
    BY <2>1, <2>3, <2>4, <1>1, <1>5
  <2> QED BY <1>1, <1>4, <1>7, <2>7, <2>9, <2>10, ConsoleStep
<1>11. CASE ~(edge = "ws" /\ conn.mode = "greeting")
  <2>1. conn' = conn
    BY <1>1, <1>11
  <2>2. conn.mode # "greeting"
    <3>1. edge \in {"sse", "ws"}
      BY ViewFacts
    <3>2. ASSUME conn.mode = "greeting", edge = "sse" PROVE FALSE
      BY <3>2, InvParts DEF Linked
    <3> QED BY <3>1, <3>2, <1>11
  <2>3. conn.mode # "asked"
    BY <1>1, InvParts DEF Linked
  <2>4. Linked'
    BY <2>1, <2>2, <2>3, <1>1, <1>6, <1>8, <1>9, InvParts DEF Linked
  <2>5. Attached'
    <3>1. /\ last' = last /\ streamed' = streamed /\ hole' = hole
      BY <1>1 DEF last, coreVars
    <3> QED BY <3>1, <2>1, <1>1, <1>4, InvParts DEF Attached
  <2>6. /\ conn' \in Connections /\ conn'.pending <= highWater /\ bubble' \subseteq 1..Parts
        /\ stream' \in {"dialling", "open", "abandoned"} /\ lastId' \in 0..last /\ lastSeq' \in 0..last
        /\ refetched' \in BOOLEAN /\ rows' \in Seq(Nat)
    BY <2>1, <1>1, <1>5
  <2> QED BY <1>1, <1>4, <1>7, <2>4, <2>5, <2>6, ConsoleStep
<1> QED BY <1>10, <1>11

\* What stays of Linked when the head is taken and the connection is left alone.
LEMMA TakeLinked ==
  ASSUME ViewInv, inbox # << >>, inbox' = Tail(inbox), conn' = conn, edge' = edge, stream' = stream,
         Head(inbox).kind # "open", edge = "sse" => lastId' = lastSeq'
  PROVE Linked'
<1>1. inbox \in Seq(Carriable) /\ stream \in {"dialling", "open", "abandoned"}
  BY ViewFacts
<1>2. PICK m \in Nat : /\ m = Len(inbox) /\ m >= 1 /\ DOMAIN inbox = 1..m /\ Len(inbox') = m - 1
                       /\ DOMAIN inbox' = 1..(m - 1) /\ (\A j \in 1..(m - 1) : inbox'[j] = inbox[j + 1])
                       /\ Head(inbox) = inbox[1]
  BY <1>1, Tailed
<1>3. \A i \in 1..(m - 1) : inbox'[i].kind = "lost" => i = m - 1 /\ conn.mode = "closed"
  <2> SUFFICES ASSUME NEW i \in 1..(m - 1), inbox'[i].kind = "lost" PROVE i = m - 1 /\ conn.mode = "closed"
    OBVIOUS
  <2>1. i + 1 \in 1..m /\ inbox[i + 1].kind = "lost"
    BY <1>2
  <2>2. i + 1 = m /\ conn.mode = "closed"
    BY <2>1, <1>2, InvParts DEF Linked
  <2> QED BY <2>2
<1>4. stream = "open"
  BY InvParts DEF Linked
<1>5. conn.mode # "asked"
  BY InvParts DEF Linked
<1>6. conn.mode # "greeting"
  <2>1. <<Opened>>[1].kind = "open"
    BY Frames
  <2> QED BY <2>1, <1>2, InvParts DEF Linked
<1> QED BY <1>2, <1>3, <1>4, <1>5, <1>6 DEF Linked

\* A row is added, for an envelope or for a gap.
LEMMA RowAdded ==
  ASSUME ViewInv, NEW n \in Nat, NEW s \in Nat, rows' = Append(rows, n), lastSeq' = s, lastSeq <= s, n <= s,
         n # GapRow => n = s /\ lastSeq < n,
         n # GapRow /\ (\A i \in DOMAIN rows : rows[i] # GapRow) => n = lastSeq + 1,
         \A drawn \in cut' : Whole(drawn, Parts)
  PROVE Shown'
<1>1. rows \in Seq(Nat) /\ lastSeq \in Nat
  BY ViewFacts
<1>2. PICK k \in Nat : k = Len(rows) /\ DOMAIN rows = 1..k
  BY <1>1
<1>3. PICK rs : rs = rows'
  OBVIOUS
<1>4. DOMAIN rs = 1..(k + 1) /\ Len(rs) = k + 1 /\ rs[k + 1] = n /\ \A j \in 1..k : rs[j] = rows[j]
  BY <1>1, <1>2, <1>3
<1>5. /\ \A i \in 1..k : /\ rows[i] <= lastSeq /\ rows[i] \in Nat
                         /\ (\A j \in 1..i : rows[j] # GapRow) => rows[i] = i
                         /\ rows[i] # GapRow => \A j \in 1..(i - 1) : rows[j] < rows[i]
      /\ (\A i \in 1..k : rows[i] # GapRow) => k = lastSeq
  BY <1>1, <1>2, InvParts DEF Shown
<1>6. ASSUME NEW i \in 1..(k + 1)
      PROVE /\ rs[i] <= s
            /\ (\A j \in 1..i : rs[j] # GapRow) => rs[i] = i
            /\ rs[i] # GapRow => \A j \in 1..(i - 1) : rs[j] < rs[i]
  <2>1. CASE i \in 1..k
    <3>1. \A j \in 1..i : j \in 1..k /\ rs[j] = rows[j]
      BY <2>1, <1>4
    <3>2. \A j \in 1..(i - 1) : j \in 1..i
      BY <2>1
    <3>3. rs[i] <= s
      BY <2>1, <1>1, <1>4, <1>5
    <3>4. (\A j \in 1..i : rs[j] # GapRow) => rs[i] = i
      BY <2>1, <3>1, <1>5
    <3>5. i \in 1..i
      BY <2>1
    <3>6. rs[i] # GapRow => \A j \in 1..(i - 1) : rs[j] < rs[i]
      BY <2>1, <3>1, <3>2, <3>5, <1>5
    <3> QED BY <3>3, <3>4, <3>6
  <2>2. CASE i = k + 1
    <3>1. 1..k \subseteq 1..(k + 1) /\ (k + 1) - 1 = k /\ k + 1 \in 1..(k + 1)
      OBVIOUS
    <3>2. (\A j \in 1..(k + 1) : rs[j] # GapRow) => n = k + 1
      <4> SUFFICES ASSUME \A j \in 1..(k + 1) : rs[j] # GapRow PROVE n = k + 1
        OBVIOUS
      <4>1. n # GapRow /\ \A j \in 1..k : rows[j] # GapRow
        BY <3>1, <1>4
      <4> QED BY <4>1, <1>2, <1>5
    <3>3. n # GapRow => \A j \in 1..k : rs[j] < n
      BY <1>1, <1>4, <1>5
    <3> QED BY <2>2, <3>1, <3>2, <3>3, <1>4
  <2> QED BY <2>1, <2>2
<1>7. (\A i \in 1..(k + 1) : rs[i] # GapRow) => k + 1 = s
  <2> SUFFICES ASSUME \A i \in 1..(k + 1) : rs[i] # GapRow PROVE k + 1 = s
    OBVIOUS
  <2>1. 1..k \subseteq 1..(k + 1) /\ k + 1 \in 1..(k + 1)
    OBVIOUS
  <2>2. n # GapRow /\ \A j \in 1..k : rows[j] # GapRow
    BY <2>1, <1>4
  <2> QED BY <2>2, <1>2, <1>5
<1> QED BY <1>3, <1>4, <1>6, <1>7 DEF Shown

LEMMA OnEnvelopeKeeps == ASSUME ViewInv, OnEnvelope PROVE ViewInv'
<1>1. PICK n : n = Head(inbox).n
  OBVIOUS
<1>2. /\ UNCHANGED coreVars /\ inbox # << >> /\ Head(inbox).kind = "envelope" /\ inbox' = Tail(inbox)
      /\ conn' = conn /\ stream' = stream /\ edge' = edge /\ lastId' = (IF edge = "sse" THEN n ELSE lastId)
      /\ refetched' = FALSE /\ lastSeq' = n /\ rows' = Append(rows, n)
      /\ IF kinds[n] = "message" /\ bubble # {}
         THEN bubble' = {} /\ cut' = cut \cup {bubble}
         ELSE bubble' = bubble /\ cut' = cut
  BY <1>1 DEF OnEnvelope, Takes, Rest, Next0, Handle, coreVars
<1>3. /\ inbox \in Seq(Carriable) /\ lastSeq \in Nat /\ last \in Nat /\ last = Len(kinds)
      /\ conn \in Connections /\ conn.pending <= highWater /\ rows \in Seq(Nat) /\ bubble \subseteq 1..Parts
      /\ lastId \in 0..last /\ stream \in {"dialling", "open", "abandoned"} /\ edge \in {"sse", "ws"}
  BY ViewFacts
<1>4. Head(inbox) = inbox[1] /\ Head(inbox) \in Carriable /\ 1 \in DOMAIN inbox
  BY <1>2, <1>3, Tailed
<1>5. n \in Nat
  BY <1>1, <1>4 DEF Carriable
<1>6. FollowsOn(inbox, kinds, lastSeq, bubble, rows, 1)
  BY <1>4, InvParts DEF Carries
<1>7. 1..(1 - 1) = {}
  OBVIOUS
<1>8. Drawn(inbox, kinds, bubble, 1) = bubble
  BY <1>3, <1>7 DEF Drawn
<1>9. IsEnvelope(Head(inbox)) /\ (Clears(kinds, Head(inbox)) <=> kinds[n] = "message")
      /\ Head(inbox).kind # "gap" /\ Head(inbox).kind # "open"
  BY <1>1, <1>2 DEF IsEnvelope, Clears
<1>10. /\ n <= last /\ (kinds[n] = "message" => Whole(bubble, Parts))
       /\ \E r \in 0..last : Reaches(inbox, lastSeq, 1, r) /\ r < n /\ (GapBefore(inbox, rows, 1) \/ n = r + 1)
  BY <1>1, <1>3, <1>4, <1>6, <1>8, <1>9 DEF FollowsOn
<1>11. lastSeq < n /\ ((\E j \in DOMAIN rows : rows[j] = GapRow) \/ n = lastSeq + 1)
  <2>1. PICK r \in 0..last : Reaches(inbox, lastSeq, 1, r) /\ r < n /\ (GapBefore(inbox, rows, 1) \/ n = r + 1)
    BY <1>10
  <2>2. r = lastSeq
    BY <2>1, <1>7 DEF Reaches
  <2>3. GapBefore(inbox, rows, 1) => \E j \in DOMAIN rows : rows[j] = GapRow
    BY <1>7 DEF GapBefore
  <2> QED BY <2>1, <2>2, <2>3
<1>12. \A x : Head(inbox) # Item("part", x)
  BY <1>2, Frames
<1>13. \A x \in 1..Parts :
         x \in bubble' <=> (x \in bubble /\ ~Clears(kinds, Head(inbox))) \/ Head(inbox) = Item("part", x)
  BY <1>2, <1>9, <1>12
<1>14. (\E j \in DOMAIN rows : rows[j] = GapRow) => \E j \in DOMAIN rows' : rows'[j] = GapRow
  <2>1. \A j \in DOMAIN rows : j \in DOMAIN Append(rows, n) /\ Append(rows, n)[j] = rows[j]
    BY <1>3, <1>5
  <2> QED BY <2>1, <1>2
<1>15. lastSeq' = IF IsEnvelope(Head(inbox)) THEN Head(inbox).n ELSE lastSeq
  BY <1>1, <1>2, <1>9
<1>16. /\ Carried' /\ AtEnd' = AtEnd /\ inbox' \in Seq(Carriable)
       /\ conn.mode \in {"replaying", "live"} => Reaches(inbox', lastSeq', Len(inbox') + 1, conn.through)
  BY <1>1, <1>2, <1>9, <1>11, <1>13, <1>14, <1>15, TakeKeeps
<1>17. Linked'
  <2>1. edge = "sse" => lastId' = lastSeq'
    BY <1>2
  <2> QED BY <2>1, <1>2, <1>9, TakeLinked
<1>18. Attached'
  <2>1. last' = last /\ streamed' = streamed /\ hole' = hole
    BY <1>2 DEF last, coreVars
  <2>2. conn.mode # "asked"
    BY <1>2, InvParts DEF Linked
  <2> QED BY <2>1, <2>2, <1>2, <1>16, InvParts DEF Attached
<1>19. \A drawn \in cut' : Whole(drawn, Parts)
  BY <1>2, <1>10, InvParts DEF Shown
<1>20. Shown'
  <2>1. (\A i \in DOMAIN rows : rows[i] # GapRow) => n = lastSeq + 1
    BY <1>11
  <2>2. lastSeq <= n /\ n <= n /\ lastSeq < n
    BY <1>3, <1>5, <1>11
  <2> QED BY <2>1, <2>2, <1>2, <1>5, <1>19, RowAdded
<1>21. n \in 0..last /\ Append(rows, n) \in Seq(Nat)
  BY <1>3, <1>5, <1>10
<1>22. /\ conn' \in Connections /\ conn'.pending <= highWater /\ bubble' \subseteq 1..Parts
       /\ stream' \in {"dialling", "open", "abandoned"} /\ lastId' \in 0..last /\ lastSeq' \in 0..last
       /\ refetched' \in BOOLEAN /\ rows' \in Seq(Nat)
  BY <1>2, <1>3, <1>21
<1> QED BY <1>2, <1>16, <1>17, <1>18, <1>20, <1>22, ConsoleStep

LEMMA OnPartKeeps == ASSUME ViewInv, OnPart PROVE ViewInv'
<1>1. PICK p : p = Head(inbox).n
  OBVIOUS
<1>2. /\ UNCHANGED coreVars /\ inbox # << >> /\ Head(inbox).kind = "part" /\ inbox' = Tail(inbox)
      /\ conn' = conn /\ stream' = stream /\ edge' = edge /\ lastId' = lastId
      /\ refetched' = refetched /\ lastSeq' = lastSeq /\ rows' = rows /\ cut' = cut
      /\ bubble' = bubble \cup {p}
  BY <1>1 DEF OnPart, Takes, Rest, Next0, coreVars
<1>3. /\ inbox \in Seq(Carriable) /\ lastSeq \in 0..last
      /\ conn \in Connections /\ conn.pending <= highWater /\ rows \in Seq(Nat) /\ bubble \subseteq 1..Parts
      /\ lastId \in 0..last /\ stream \in {"dialling", "open", "abandoned"} /\ refetched \in BOOLEAN
  BY ViewFacts
<1>4. Head(inbox) = inbox[1] /\ Head(inbox) \in Carriable /\ 1 \in DOMAIN inbox
  BY <1>2, <1>3, Tailed
<1>5. p \in 1..Parts
  <2>1. FollowsOn(inbox, kinds, lastSeq, bubble, rows, 1)
    BY <1>4, InvParts DEF Carries
  <2> QED BY <2>1, <1>1, <1>2, <1>4 DEF FollowsOn
<1>6. ~IsEnvelope(Head(inbox)) /\ ~Clears(kinds, Head(inbox)) /\ Head(inbox).kind # "gap" /\ Head(inbox).kind # "open"
  BY <1>2 DEF IsEnvelope, Clears
<1>7. \A x : Head(inbox) = Item("part", x) <=> x = p
  <2>1. Head(inbox) = Item("part", p)
    BY <1>1, <1>2, <1>4 DEF Item, Carriable
  <2> QED BY <2>1, Frames
<1>8. \A x \in 1..Parts :
        x \in bubble' <=> (x \in bubble /\ ~Clears(kinds, Head(inbox))) \/ Head(inbox) = Item("part", x)
  BY <1>2, <1>6, <1>7
<1>9. lastSeq' = IF IsEnvelope(Head(inbox)) THEN Head(inbox).n ELSE lastSeq
  BY <1>2, <1>6
<1>10. /\ Carried' /\ AtEnd' = AtEnd /\ inbox' \in Seq(Carriable)
       /\ conn.mode \in {"replaying", "live"} => Reaches(inbox', lastSeq', Len(inbox') + 1, conn.through)
  BY <1>2, <1>6, <1>8, <1>9, TakeKeeps
<1>11. Linked'
  <2>1. edge = "sse" => lastId' = lastSeq'
    BY <1>2, InvParts
  <2> QED BY <2>1, <1>2, <1>6, TakeLinked
<1>12. Attached'
  <2>1. last' = last /\ streamed' = streamed /\ hole' = hole
    BY <1>2 DEF last, coreVars
  <2>2. conn.mode # "asked"
    BY <1>2, InvParts DEF Linked
  <2> QED BY <2>1, <2>2, <1>2, <1>10, InvParts DEF Attached
<1>13. Shown'
  BY <1>2, InvParts DEF Shown
<1>14. /\ conn' \in Connections /\ conn'.pending <= highWater /\ bubble' \subseteq 1..Parts
       /\ stream' \in {"dialling", "open", "abandoned"} /\ lastId' \in 0..last /\ lastSeq' \in 0..last
       /\ refetched' \in BOOLEAN /\ rows' \in Seq(Nat)
  BY <1>2, <1>3, <1>5
<1> QED BY <1>2, <1>10, <1>11, <1>12, <1>13, <1>14, ConsoleStep

LEMMA OnGapKeeps == ASSUME ViewInv, OnGap PROVE ViewInv'
<1>1. PICK n : n = Head(inbox).n
  OBVIOUS
<1>2. UNCHANGED coreVars /\ inbox # << >> /\ Head(inbox).kind = "gap"
  BY DEF OnGap, Takes, Next0
<1>3. CASE ~refetched
  <2>1. refetched' = TRUE /\ OpenStream(Tail(inbox))
    BY <1>3 DEF OnGap
  <2> QED BY <2>1, <1>2, OpenStreamKeeps
<1>4. CASE refetched
  <2>1. /\ inbox' = Tail(inbox) /\ conn' = conn /\ stream' = stream /\ edge' = edge /\ lastId' = lastId
        /\ refetched' = refetched /\ lastSeq' = n /\ rows' = Append(rows, 0) /\ bubble' = bubble /\ cut' = cut
    BY <1>1, <1>2, <1>4 DEF OnGap, Rest, Next0, GapRow, coreVars
  <2>2. /\ inbox \in Seq(Carriable) /\ lastSeq \in 0..last /\ lastSeq \in Nat
        /\ conn \in Connections /\ conn.pending <= highWater /\ rows \in Seq(Nat) /\ bubble \subseteq 1..Parts
        /\ lastId \in 0..last /\ stream \in {"dialling", "open", "abandoned"} /\ refetched \in BOOLEAN
    BY ViewFacts
  <2>3. Head(inbox) = inbox[1] /\ Head(inbox) \in Carriable /\ 1 \in DOMAIN inbox
    BY <1>2, <2>2, Tailed
  <2>4. n = lastSeq
    <3>1. Reaches(inbox, lastSeq, 1, n)
      <4>1. FollowsOn(inbox, kinds, lastSeq, bubble, rows, 1)
        BY <2>3, InvParts DEF Carries
      <4> QED BY <4>1, <1>1, <1>2, <2>3 DEF FollowsOn
    <3>2. 1..(1 - 1) = {}
      OBVIOUS
    <3> QED BY <3>1, <3>2 DEF Reaches
  <2>5. ~IsEnvelope(Head(inbox)) /\ ~Clears(kinds, Head(inbox)) /\ Head(inbox).kind # "open"
    BY <1>2 DEF IsEnvelope, Clears
  <2>6. \A x : Head(inbox) # Item("part", x)
    BY <1>2, Frames
  <2>7. \A x \in 1..Parts :
          x \in bubble' <=> (x \in bubble /\ ~Clears(kinds, Head(inbox))) \/ Head(inbox) = Item("part", x)
    BY <2>1, <2>5, <2>6
  <2>8. lastSeq' = IF IsEnvelope(Head(inbox)) THEN Head(inbox).n ELSE lastSeq
    BY <2>1, <2>4, <2>5
  <2>9. \E j \in DOMAIN rows' : rows'[j] = GapRow
    <3>1. Len(rows) + 1 \in DOMAIN Append(rows, 0) /\ Append(rows, 0)[Len(rows) + 1] = 0
      BY <2>2
    <3> QED BY <3>1, <2>1 DEF GapRow
  <2>10. /\ Carried' /\ AtEnd' = AtEnd /\ inbox' \in Seq(Carriable)
         /\ conn.mode \in {"replaying", "live"} => Reaches(inbox', lastSeq', Len(inbox') + 1, conn.through)
    BY <1>2, <2>1, <2>5, <2>7, <2>8, <2>9, TakeKeeps
  <2>11. Linked'
    <3>1. edge = "sse" => lastId' = lastSeq'
      BY <2>1, <2>4, InvParts
    <3> QED BY <3>1, <1>2, <2>1, <2>5, TakeLinked
  <2>12. Attached'
    <3>1. last' = last /\ streamed' = streamed /\ hole' = hole
      BY <1>2 DEF last, coreVars
    <3>2. conn.mode # "asked"
      BY <1>2, InvParts DEF Linked
    <3> QED BY <3>1, <3>2, <2>1, <2>10, InvParts DEF Attached
  <2>13. Shown'
    <3>1. \A drawn \in cut' : Whole(drawn, Parts)
      BY <2>1, InvParts DEF Shown
    <3>2. 0 \in Nat /\ n \in Nat /\ lastSeq <= n /\ 0 <= n /\ 0 = GapRow
      BY <2>2, <2>4 DEF GapRow
    <3> QED BY <3>1, <3>2, <2>1, RowAdded
  <2>14. /\ conn' \in Connections /\ conn'.pending <= highWater /\ bubble' \subseteq 1..Parts
         /\ stream' \in {"dialling", "open", "abandoned"} /\ lastId' \in 0..last /\ lastSeq' \in 0..last
         /\ refetched' \in BOOLEAN /\ rows' \in Seq(Nat)
    <3>1. Append(rows, 0) \in Seq(Nat)
      BY <2>2
    <3> QED BY <3>1, <2>1, <2>2, <2>4
  <2> QED BY <1>2, <2>10, <2>11, <2>12, <2>13, <2>14, ConsoleStep
<1> QED BY <1>3, <1>4

LEMMA OnLostKeeps == ASSUME ViewInv, OnLost PROVE ViewInv'
<1>1. /\ UNCHANGED coreVars /\ inbox # << >> /\ Head(inbox).kind = "lost" /\ inbox' = Tail(inbox)
      /\ conn' = conn /\ stream' \in {"dialling", "abandoned"} /\ edge' = edge /\ lastId' = lastId
      /\ refetched' = refetched /\ lastSeq' = lastSeq /\ rows' = rows /\ cut' = cut /\ bubble' = bubble
  BY DEF OnLost, Takes, Rest, Next0, coreVars, viewVars
<1>2. /\ inbox \in Seq(Carriable) /\ lastSeq \in 0..last
      /\ conn \in Connections /\ conn.pending <= highWater /\ rows \in Seq(Nat) /\ bubble \subseteq 1..Parts
      /\ lastId \in 0..last /\ refetched \in BOOLEAN
  BY ViewFacts
<1>3. Head(inbox) = inbox[1] /\ 1 \in DOMAIN inbox /\ Tail(inbox) \in Seq(Carriable) /\ Len(Tail(inbox)) = Len(inbox) - 1
  BY <1>1, <1>2, Tailed
<1>4. Len(inbox) = 1 /\ conn.mode = "closed"
  BY <1>1, <1>3, InvParts DEF Linked
<1>5. inbox' = << >>
  <2>1. Len(Tail(inbox)) = 0
    BY <1>3, <1>4
  <2> QED BY <2>1, <1>1, <1>3, EmptySeq
<1>6. Linked'
  BY <1>1, <1>4, <1>5, InvParts DEF Linked
<1>7. Carried'
  BY <1>5 DEF Carried, Carries
<1>8. Attached'
  BY <1>1, <1>4 DEF Attached
<1>9. Shown'
  BY <1>1, InvParts DEF Shown
<1>10. /\ conn' \in Connections /\ conn'.pending <= highWater /\ bubble' \subseteq 1..Parts
       /\ stream' \in {"dialling", "open", "abandoned"} /\ lastId' \in 0..last /\ lastSeq' \in 0..last
       /\ refetched' \in BOOLEAN /\ rows' \in Seq(Nat) /\ inbox' \in Seq(Carriable)
  BY <1>1, <1>2, <1>3
<1> QED BY <1>1, <1>6, <1>7, <1>8, <1>9, <1>10, ConsoleStep

\* Nothing changes but what a superseded stream has queued.
LEMMA ViewSame ==
  ASSUME ViewInv, UNCHANGED <<coreVars, conn, stream, inbox, lastId, viewVars>>
  PROVE ViewInv'
<1>1. /\ UNCHANGED coreVars /\ conn' = conn /\ stream' = stream /\ inbox' = inbox /\ lastId' = lastId /\ edge' = edge
      /\ lastSeq' = lastSeq /\ refetched' = refetched /\ rows' = rows /\ bubble' = bubble /\ cut' = cut
      /\ kinds' = kinds /\ streamed' = streamed /\ hole' = hole /\ last' = last
  BY DEF coreVars, viewVars, last
<1>2. Linked'
  BY <1>1, InvParts DEF Linked
<1>3. Carried'
  BY <1>1, InvParts DEF Carried
<1>4. Attached'
  <2>1. AtEnd' = AtEnd
    BY <1>1 DEF AtEnd
  <2> QED BY <2>1, <1>1, InvParts DEF Attached
<1>5. Shown'
  BY <1>1, InvParts DEF Shown
<1>6. /\ conn' \in Connections /\ conn'.pending <= highWater /\ bubble' \subseteq 1..Parts
      /\ stream' \in {"dialling", "open", "abandoned"} /\ lastId' \in 0..last /\ lastSeq' \in 0..last
      /\ refetched' \in BOOLEAN /\ rows' \in Seq(Nat) /\ inbox' \in Seq(Carriable)
  BY <1>1, ViewFacts
<1> QED BY <1>1, <1>2, <1>3, <1>4, <1>5, <1>6, ConsoleStep

\* A session begins, or one with a lost line is opened.
LEMMA ViewStarts == ASSUME ViewInit PROVE ViewInv
<1>1. /\ edge \in {"sse", "ws"} /\ highWater \in HighWaters /\ hole \in Holes
      /\ kinds \in IF hole = 0 THEN {<< >>} ELSE [1..MaxSeq -> {"message", "note"}]
      /\ streamed = 0 /\ conn = Closed /\ stream = "dialling" /\ inbox = << >>
      /\ lastId = 0 /\ lastSeq = 0 /\ refetched = FALSE
      /\ rows = << >> /\ bubble = {} /\ cut = {}
  BY DEF ViewInit
<1>2. MaxSeq \in Nat /\ Parts \in Nat /\ highWater \in Nat /\ hole \in Nat /\ (hole # 0 => hole < MaxSeq)
  BY <1>1, ViewAssumption
<1>3. kinds \in Seq({"message", "note"}) /\ last \in 0..MaxSeq /\ (hole # 0 => last = MaxSeq)
  <2>1. CASE hole = 0
    <3>1. kinds = << >>
      BY <2>1, <1>1
    <3> QED BY <2>1, <3>1, <1>2 DEF last
  <2>2. CASE hole # 0
    <3>1. kinds \in [1..MaxSeq -> {"message", "note"}]
      BY <2>2, <1>1
    <3>2. kinds \in Seq({"message", "note"}) /\ Len(kinds) = MaxSeq
      BY <3>1, <1>2
    <3> QED BY <3>2, <1>2 DEF last
  <2> QED BY <2>1, <2>2
<1>4. conn \in Connections /\ conn.pending <= highWater /\ conn.mode = "closed"
  BY <1>1, <1>2 DEF Closed, Connections
<1>5. 0 \in 0..last /\ 0 \in 0..Parts /\ last <= MaxSeq
  BY <1>2, <1>3
<1>6. ViewTypes
  <2>1. edge \in {"sse", "ws"} /\ stream \in {"dialling", "open", "abandoned"} /\ refetched \in BOOLEAN
    <3>1. edge \in {"sse", "ws"} /\ stream = "dialling" /\ refetched = FALSE
      BY <1>1
    <3> QED BY <3>1
  <2>2. inbox \in Seq(Carriable) /\ rows \in Seq(Nat) /\ bubble \subseteq 1..Parts
    <3>1. inbox = << >> /\ rows = << >> /\ bubble = {}
      BY <1>1
    <3> HIDE DEF Carriable
    <3>2. << >> \in Seq(Carriable) /\ << >> \in Seq(Nat)
      OBVIOUS
    <3> QED BY <3>1, <3>2
  <2>3. lastId \in 0..last /\ lastSeq \in 0..last /\ streamed \in 0..Parts
    <3>1. lastId = 0 /\ lastSeq = 0 /\ streamed = 0
      BY <1>1
    <3> QED BY <3>1, <1>5
  <2>4. highWater \in Nat /\ hole \in Nat /\ last <= MaxSeq /\ conn.pending <= highWater
    BY <1>2, <1>4, <1>5
  <2> QED BY <2>1, <2>2, <2>3, <2>4, <1>3, <1>4, Zenon DEF ViewTypes
<1>7. Over
  BY <1>2, <1>3 DEF Over
<1>8. Linked
  BY <1>1, <1>4 DEF Linked
<1>9. Carried
  BY <1>1 DEF Carried, Carries
<1>10. Attached
  BY <1>4 DEF Attached
<1>11. Shown
  BY <1>1 DEF Shown
<1> QED BY <1>6, <1>7, <1>8, <1>9, <1>10, <1>11 DEF ViewInv

\* Every step.
LEMMA ViewKeeps == ASSUME ViewInv, [ViewNext]_allViewVars PROVE ViewInv'
<1>1. CASE \E kind \in {"message", "note"} : Emit(kind)
  BY <1>1, EmitKeeps
<1>2. CASE Delta
  BY <1>2, DeltaKeeps
<1>3. CASE Drain
  BY <1>3, DrainKeeps
<1>4. CASE Edge
  BY <1>4, ConnectSseKeeps, ConnectWsKeeps, FirstMessageKeeps, ReplayNextKeeps, ReplayHoleKeeps, GoLiveKeeps
  DEF Edge
<1>5. CASE FirstFrameDeadline
  BY <1>5, DeadlineKeeps
<1>6. CASE Drop
  BY <1>6, DropKeeps
<1>7. CASE Console
  BY <1>7, OnOpenKeeps, OnEnvelopeKeeps, OnPartKeeps, OnGapKeeps, OnLostKeeps DEF Console
<1>8. CASE OnStaleEnvelope
  <2>1. UNCHANGED <<coreVars, conn, stream, inbox, lastId, viewVars>>
    BY <1>8 DEF OnStaleEnvelope, Heeded
  <2> QED BY <2>1, ViewSame
<1>9. CASE Select
  BY <1>9, SelectKeeps
<1>10. CASE UNCHANGED allViewVars
  <2>1. UNCHANGED <<coreVars, conn, stream, inbox, lastId, viewVars>>
    BY <1>10 DEF allViewVars
  <2> QED BY <2>1, ViewSame
<1> QED BY <1>1, <1>2, <1>3, <1>4, <1>5, <1>6, <1>7, <1>8, <1>9, <1>10 DEF ViewNext

\* The inductive invariant holds throughout.
LEMMA ViewInvariant == ViewSpec => []ViewInv
<1>1. ViewInit => ViewInv
  BY ViewStarts
<1>2. ViewInv /\ [ViewNext]_allViewVars => ViewInv'
  BY ViewKeeps
<1> QED BY <1>1, <1>2, PTL DEF ViewSpec

\* Of every variable of the transcript its range, for any number of envelopes,
\* parts, lost connections and reselections: no position is beyond the session's
\* last seq, and no part beyond the message's.
THEOREM ViewTypeCorrect == ViewSpec => []ViewTypeOK
<1>1. ViewInv => ViewTypeOK
  <2> SUFFICES ASSUME ViewInv PROVE ViewTypeOK
    OBVIOUS
  <2>1. conn.mode \in {"closed", "greeting", "asked", "replaying", "live"}
    BY ViewFacts DEF Connections
  <2>2. lastId \in 0..MaxSeq /\ lastSeq \in 0..MaxSeq
    BY ViewFacts
  <2> QED BY <2>1, <2>2, ViewFacts DEF ViewTypeOK
<1> QED BY <1>1, ViewInvariant, PTL

\* Through reconnects, refetches, reselections and slow sockets, on either edge
\* and whatever line of the spill is lost, what is on screen is the session's
\* history: every envelope once and in order, with nothing missing but behind a
\* row that says so; and a message shown from its parts lacks none behind the
\* first it shows (app.js handleEnvelope and handleReplayGap, http-common's
\* guardedWrite, SessionCore.subscribe).
THEOREM ViewsAreHistory == ViewSpec => []ViewIsHistory
<1>1. ViewInv => ViewIsHistory
  <2> SUFFICES ASSUME ViewInv PROVE ViewIsHistory
    OBVIOUS
  <2>1. PICK k \in Nat : k = Len(rows) /\ DOMAIN rows = 1..k /\ \A i \in 1..k : rows[i] \in Nat
    BY ViewFacts
  <2>2. /\ \A i \in 1..k : /\ (\A j \in 1..i : rows[j] # GapRow) => rows[i] = i
                           /\ rows[i] # GapRow => \A j \in 1..(i - 1) : rows[j] < rows[i]
        /\ \A drawn \in cut : Whole(drawn, Parts)
    BY <2>1, InvParts DEF Shown
  <2>3. ASSUME NEW i \in 1..k, NEW x \in Nat, x \in {0} \cup {rows[j] : j \in 1..(i - 1)},
               \A j \in 1..(i - 1) : rows[j] <= x
        PROVE Before(i) = x
    <3> DEFINE seen == {0} \cup {rows[j] : j \in 1..(i - 1)}
    <3>1. 1..(i - 1) \subseteq 1..k
      BY <2>3
    <3>2. seen \subseteq Nat /\ \A y \in seen : y <= x
      BY <2>1, <2>3, <3>1
    <3>3. x \in seen
      BY <2>3
    <3>4. Before(i) = CHOOSE z \in seen : \A y \in seen : z >= y
      BY DEF Before, Max
    <3> HIDE DEF seen
    <3>5. \A y \in seen : x >= y
      BY <3>2
    <3>6. PICK z \in seen : z = (CHOOSE w \in seen : \A y \in seen : w >= y) /\ \A y \in seen : z >= y
      BY <3>3, <3>5
    <3>7. z = x
      BY <3>2, <3>3, <3>5, <3>6
    <3> QED BY <3>4, <3>6, <3>7
  <2>4. ASSUME NEW i \in 1..k, rows[i] # GapRow
        PROVE IF i > 1 /\ GapRow \in {rows[j] : j \in 1..(i - 1)}
              THEN rows[i] > Before(i) ELSE rows[i] = Before(i) + 1
    <3>1. 1..(i - 1) \subseteq 1..k /\ i \in 1..i
      BY <2>4
    <3>2. CASE GapRow \in {rows[j] : j \in 1..(i - 1)}
      <4>1. Before(i) < rows[i]
        <5> DEFINE shown == {rows[j] : j \in 1..(i - 1)} \ {0}
        <5>1. \A j \in 1..(i - 1) : rows[j] \in Nat /\ rows[j] < rows[i]
          BY <2>1, <2>2, <2>4, <3>1
        <5>2. rows[i] \in Nat /\ 0 < rows[i]
          BY <2>1, <2>4 DEF GapRow
        <5>3. CASE shown = {}
          <6>1. \A j \in 1..(i - 1) : rows[j] <= 0
            BY <5>1, <5>3
          <6>2. Before(i) = 0
            BY <6>1, <2>3
          <6> QED BY <6>2, <5>2
        <5>4. CASE shown # {}
          <6>1. shown \in SUBSET (1..rows[i])
            BY <5>1, <5>2
          <6> HIDE DEF shown
          <6>2. Max(shown) \in shown /\ \A y \in shown : y <= Max(shown)
            BY <6>1, <5>2, <5>4, MaxIsLast
          <6> USE DEF shown
          <6>3. PICK x \in Nat : /\ x \in {rows[j] : j \in 1..(i - 1)} /\ x # 0
                                /\ \A y \in shown : y <= x
            BY <6>2, <5>1
          <6>4. \A j \in 1..(i - 1) : rows[j] <= x
            <7>1. \A j \in 1..(i - 1) : rows[j] = 0 \/ rows[j] \in shown
              OBVIOUS
            <7> QED BY <7>1, <6>3
          <6>5. Before(i) = x
            BY <6>3, <6>4, <2>3
          <6> QED BY <6>3, <6>5, <5>1
        <5> QED BY <5>3, <5>4
      <4>2. i > 1
        BY <3>2
      <4> QED BY <4>1, <4>2, <3>2
    <3>3. CASE GapRow \notin {rows[j] : j \in 1..(i - 1)}
      <4>1. \A j \in 1..i : rows[j] # GapRow
        BY <3>3, <2>4
      <4>2. rows[i] = i /\ \A j \in 1..(i - 1) : rows[j] = j
        <5>1. \A j \in 1..(i - 1) : \A l \in 1..j : rows[l] # GapRow
          BY <4>1
        <5> QED BY <4>1, <5>1, <3>1, <2>2
      <4>3. Before(i) = i - 1
        <5>1. i - 1 \in Nat /\ \A j \in 1..(i - 1) : rows[j] <= i - 1
          BY <4>2
        <5>2. i - 1 = 0 \/ i - 1 \in 1..(i - 1)
          OBVIOUS
        <5>3. i - 1 \in {0} \cup {rows[j] : j \in 1..(i - 1)}
          BY <4>2, <5>2
        <5> QED BY <5>1, <5>3, <2>3
      <4> QED BY <4>2, <4>3, <3>3
    <3> QED BY <3>2, <3>3
  <2>5. \A drawn \in cut : \A p \in drawn : p..Parts \subseteq drawn
    BY <2>2 DEF Whole
  <2> QED BY <2>1, <2>4, <2>5 DEF ViewIsHistory
<1> QED BY <1>1, ViewInvariant, PTL
====
