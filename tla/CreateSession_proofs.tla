---- MODULE CreateSession_proofs ----
(***************************************************************************)
(* Proofs about CreateSession, for any sessions, requisitions and crashes, *)
(* with the host inside or outside the process: its types, that no two     *)
(* live sessions share a directory, that a refused creation holds no       *)
(* claim, and that creation is paid for exactly.                           *)
(***************************************************************************)
EXTENDS CreateSession, AppendLog_proofs

\* Where a create has neither an entry nor files, ...
Unstored == {"idle", "record", "prepare", "preparing", "adapter", "store", "unwind"}
\* ... and where it has both.
Stored == {"init", "commit", "committing", "publish"}

\* What a create has left behind by each of its steps.
StepOf(s) ==
  /\ up # "up" => pc[s] \in {"idle", "returned"}
  /\ out[s] # "none" => pc[s] = "returned"
  /\ pc[s] \in {"idle", "record"} => s \notin attempts
  /\ pc[s] \notin {"idle", "record", "returned"} => s \in attempts
  /\ pc[s] \in Unstored => meta[s] = "none"
  /\ pc[s] \in Stored => meta[s] # "none" /\ listed[s] = "creating"
  /\ pc[s] \notin Stored \cup {"returned"} => listed[s] = "absent"

\* What the host has done by then.
HostOf(s) ==
  /\ pc[s] \in {"idle", "record", "prepare"} => host[s] = "new"
  /\ pc[s] = "preparing" => /\ host[s] = "new" <=> s \in preparing
                            /\ host[s] \in {"new", "prepared", "aborted"}
  /\ pc[s] \in {"adapter", "store", "init", "commit"} => host[s] = "prepared"
  /\ pc[s] = "committing" => host[s] # "new"
  /\ pc[s] = "publish" => host[s] = "committed"
  /\ pc[s] \in {"cleanup", "unwind"} => host[s] = "aborted"
  /\ s \in preparing => /\ host[s] \in {"new", "aborted"}
                        /\ pc[s] \in {"preparing", "unwind", "returned"}
                        /\ s \notin asked
  /\ s \in asked => pc[s] \in {"committing", "publish", "cleanup", "unwind", "returned"}
  /\ (host[s] = "prepared" /\ s \in asked) \/ host[s] = "committing" =>
       meta[s] # "none" /\ pc[s] \in {"committing", "returned"}
  /\ host[s] = "committed" => meta[s] # "none"

\* The host has prepared the session's attempt, or is about to.
Open(s) == host[s] \in {"prepared", "committing"} \/ (s \in preparing /\ host[s] = "new")

\* A create that returned an error is one the host has done with; one that
\* rejected has asked for no commit.  Until the host is done, the record stays.
Settles(s) ==
  /\ out[s] = "error" => \/ host[s] \in {"aborted", "committed"}
                         \/ host[s] = "new" /\ s \notin preparing
  /\ out[s] = "rejected" => /\ outside /\ host[s] \in {"new", "prepared", "aborted"}
                            /\ host[s] = "aborted" \/ s \notin asked
  /\ Open(s) => s \in attempts

Row(s) == StepOf(s) /\ HostOf(s) /\ Settles(s)
Table == \A s \in Sessions : Row(s)

\* A session that holds a directory: while it is created, while it is live, and
\* while its host has not taken the abort of a create that rejected; from boot on
\* if its attempt was found.
Reserving == {"record", "prepare", "preparing", "adapter", "store"}
Boots ==
  /\ up # "up" => \A s \in Sessions : listed[s] = "absent"
  /\ up = "booting" => \A s \in attempts : alloc[s] # "none"
  /\ up = "down" => confirmed = {}
  /\ up = "booting" => \A s \in confirmed : host[s] = "committed"
Holds(s) ==
  \/ pc[s] \in Reserving
  \/ listed[s] # "absent" /\ state[s] = "live"
  \/ out[s] = "rejected" /\ Open(s) /\ up # "down"
HoldsPlace == \A s \in Sessions : Holds(s) => alloc[s] # "none"

\* Two directories overlap only when both were held at boot: nobody works in
\* either, and neither session can be seen.
Idles(s) == pc[s] = "returned" /\ listed[s] # "visible"
Apart ==
  \A s, t \in Sessions :
    s # t /\ alloc[s] # "none" /\ alloc[t] # "none" /\ PathsOverlap(cwd[s], cwd[t])
      => Idles(s) /\ Idles(t)

Places == Boots /\ HoldsPlace /\ (MaxLive = 1 => Apart)

\* Who prepared or commits holds the claim on its requisition, alone; the line
\* of who commits is on its way.
Claiming == {s \in Sessions : host[s] \in {"prepared", "committing"} /\ req[s] # NoReq}
Claims ==
  /\ claimed = Claiming
  /\ \A s \in claimed : /\ req[s] \in reserved \cap DOMAIN reqs
                        /\ reqs[req[s]].state = "approved"
  /\ \A s, t \in claimed : req[s] = req[t] => s = t
Line(s) == Requisition(req[s], "consumed", s)
Attaching ==
  \A a \in reqAppends : \E s \in claimed :
    host[s] = "committing" /\ a = [op |-> "attach", line |-> Line(s)]

\* The registry is the file's newest lines, but for those that were glued; an
\* inside host has none while its process is down.
Registry ==
  /\ IsFiniteSet(reqAppends)
  /\ \A r \in DOMAIN reqs : reqs[r] \in Lines /\ reqs[r].id = r
  /\ Reqs \ reqGlued \subseteq Ids(reqLog)
  /\ up = "down" /\ ~outside =>
       /\ reqs = << >> /\ reqAppends = {}
       /\ \A s \in Sessions : host[s] = "new"
  /\ up # "down" \/ outside =>
       \A r \in Reqs \ reqGlued : r \in DOMAIN reqs /\ reqs[r] = Latest(reqLog, r)
Promised == Claims /\ Attaching /\ Registry /\ (preparing # {} => outside)

\* A session somebody counts on has been paid for: its requisition's newest
\* line names it.
Paid(s) ==
  req[s] \notin {NoReq} \cup reqGlued =>
    req[s] \in Ids(reqLog) /\ Latest(reqLog, req[s]).session = s
CountedOn(s) == host[s] = "committed" \/ s \in confirmed \/ (meta[s] # "none" /\ s \notin attempts)

\* What a line that names a session promises: its files are there, and nobody
\* who could delete them is left.
Delivered(s) ==
  /\ meta[s] # "none"
  /\ \/ host[s] = "committed"
     \/ host[s] = "new" /\ pc[s] = "returned" /\ ~outside
Delivers(line) ==
  /\ line.state = "consumed" <=> line.session # NoSession
  /\ line.session # NoSession => Delivered(line.session)

Payments ==
  /\ \A s \in Sessions : CountedOn(s) => Paid(s)
  /\ \A i \in DOMAIN reqLog.lines : Delivers(reqLog.lines[i])
  /\ \A s \in Sessions : listed[s] = "visible" => s \notin attempts /\ meta[s] # "none"

Inv == TypeOK /\ Table /\ Places /\ Promised /\ Payments

---------------------------------------------------------------------------
(* What the host's three operations do.                                     *)

\* A session asks for a requisition there is, or for none.
LEMMA ReqType ==
  ASSUME TypeOK, NEW s \in Sessions
  PROVE  req[s] \in Reqs \cup {NoReq}
BY CreateAssumption DEF TypeOK, req

\* Only one session's state at the host changes.
HostMoves(s) ==
  /\ host' = [host EXCEPT ![s] = host'[s]]
  /\ UNCHANGED <<reqLog, reqs, reqGlued>>

\* prepare claims the requisition, or refuses.
LEMMA PreparesIs ==
  ASSUME TypeOK, NEW s \in Sessions, HostPrepares(s)
  PROVE  /\ HostMoves(s) /\ host'[s] \in {"prepared", "aborted"}
         /\ reserved' \subseteq Reqs /\ claimed' \subseteq Sessions
         /\ reqAppends' = reqAppends
<1>1. CASE req[s] = NoReq
  BY <1>1 DEF HostPrepares, HostMoves, TypeOK, reqVars
<1>2. CASE req[s] # NoReq /\ Claimable(req[s])
  BY <1>2, ReqType DEF HostPrepares, HostMoves, ClaimReq, TypeOK
<1>3. CASE req[s] # NoReq /\ ~Claimable(req[s])
  BY <1>3 DEF HostPrepares, HostMoves, TypeOK, reqVars
<1> QED
  BY <1>1, <1>2, <1>3

\* abort gives the claim back, unless the attempt was committed.
LEMMA AbortsIs ==
  ASSUME TypeOK, NEW s \in Sessions, HostAborts(s)
  PROVE  /\ HostMoves(s)
         /\ host'[s] = IF host[s] = "committed" THEN "committed" ELSE "aborted"
         /\ reserved' \subseteq Reqs /\ claimed' \subseteq Sessions
         /\ reqAppends' = reqAppends
<1>1. CASE host[s] = "committed"
  BY <1>1 DEF HostAborts, HostMoves, TypeOK, reqVars
<1>2. CASE host[s] # "committed" /\ s \in claimed
  BY <1>2 DEF HostAborts, HostMoves, ReleaseReq, TypeOK
<1>3. CASE host[s] # "committed" /\ s \notin claimed
  BY <1>3 DEF HostAborts, HostMoves, TypeOK, reqVars
<1> QED
  BY <1>1, <1>2, <1>3

\* create's abort is answered, or create rejects.
LEMMA AbortsEnds ==
  ASSUME TypeOK, NEW s \in Sessions, NEW step \in Steps, Aborts(s, step), host[s] # "committed"
  PROVE  /\ HostMoves(s) /\ reserved' \subseteq Reqs /\ claimed' \subseteq Sessions
         /\ reqAppends' = reqAppends
         /\ pc' = [pc EXCEPT ![s] = pc'[s]] /\ out' = [out EXCEPT ![s] = out'[s]]
         /\ \/ host'[s] = "aborted" /\ pc'[s] = step /\ out'[s] = out[s]
            \/ /\ outside /\ host'[s] = host[s]
               /\ pc'[s] = "returned" /\ out'[s] = "rejected"
<1>1. CASE HostAborts(s) /\ Goto(s, step)
  BY <1>1, AbortsIs DEF Goto, TypeOK
<1>2. CASE outside /\ Return(s, "rejected") /\ UNCHANGED <<reqVars, host, claimed>>
  BY <1>2 DEF Return, HostMoves, TypeOK, reqVars
<1> QED
  BY <1>1, <1>2 DEF Aborts

\* A line that names a session is one of the file's.
LEMMA ConsumedLine ==
  ASSUME NEW line \in Lines, NEW s
  PROVE  [line EXCEPT !.state = "consumed", !.session = s] = Requisition(line.id, "consumed", s)
<1>1. PICK r \in Reqs, state0 \in {"approved", "consumed"}, session0 \in Sessions \cup {NoSession} :
        line = [id |-> r, state |-> state0, session |-> session0]
  BY DEF Lines
<1>2. line.id = r
  BY <1>1
<1>3. [[id |-> r, state |-> state0, session |-> session0] EXCEPT !.state = "consumed"]
        = [id |-> r, state |-> "consumed", session |-> session0]
  OBVIOUS
<1>4. [[id |-> r, state |-> "consumed", session |-> session0] EXCEPT !.session = s]
        = [id |-> r, state |-> "consumed", session |-> s]
  OBVIOUS
<1> QED
  BY <1>1, <1>2, <1>3, <1>4 DEF Requisition

\* commit begins to append the line that consumes the requisition.
LEMMA StartsIs ==
  ASSUME TypeOK, Promised, NEW s \in Sessions, host[s] = "prepared", HostStarts(s)
  PROVE  /\ HostMoves(s) /\ host'[s] = "committing" /\ reserved' = reserved
         /\ reqAppends' = reqAppends \cup
              (IF req[s] = NoReq THEN {} ELSE {[op |-> "attach", line |-> Line(s)]})
         /\ req[s] # NoReq => Line(s) \in Lines
<1>1. CASE req[s] = NoReq
  BY <1>1 DEF HostStarts, HostMoves, TypeOK, reqVars
<1>2. CASE req[s] # NoReq
  <2>1. s \in claimed /\ req[s] \in DOMAIN reqs
    BY <1>2 DEF Promised, Claims, Claiming
  <2>2. reqs[req[s]] \in Lines /\ reqs[req[s]].id = req[s]
    BY <2>1 DEF Promised, Registry
  <2>3. [reqs[req[s]] EXCEPT !.state = "consumed", !.session = s] = Line(s)
    BY <2>2, ConsumedLine DEF Line
  <2>4. Line(s) \in Lines
    BY <1>2, ReqType DEF Line, Requisition, Lines
  <2>5. AttachSession(req[s], s) /\ host' = [host EXCEPT ![s] = "committing"]
    BY <1>2 DEF HostStarts
  <2> QED
    BY <1>2, <2>3, <2>4, <2>5 DEF HostMoves, AttachSession, TypeOK
<1> QED
  BY <1>1, <1>2

---------------------------------------------------------------------------
(* The table of the creations: each step changes one session's row.         *)

SameRow(t) ==
  /\ pc'[t] = pc[t] /\ out'[t] = out[t] /\ meta'[t] = meta[t] /\ listed'[t] = listed[t]
  /\ host'[t] = host[t]
  /\ t \in attempts' <=> t \in attempts
  /\ t \in preparing' <=> t \in preparing
  /\ t \in asked' <=> t \in asked

\* A row nobody touches stays right.
LEMMA RowsStay ==
  ASSUME Table, up' = up, outside' = outside, NEW t \in Sessions, SameRow(t)
  PROVE  Row(t)'
BY DEF Table, Row, StepOf, HostOf, Settles, Open, SameRow

\* reserve, ...
LEMMA ReserveTable ==
  ASSUME TypeOK, Table, NEW s \in Sessions, Reserve(s)
  PROVE  TypeOK' /\ Table' /\ \A t \in Sessions \ {s} : SameRow(t)
<1>1. TypeOK'
  BY DEF TypeOK, Reserve, At, Goto, Steps, reqVars, hostVars, diskVars, entryVars, bootVars
<1>2. \A t \in Sessions \ {s} : SameRow(t)
  BY DEF TypeOK, Reserve, At, Goto, SameRow, hostVars, diskVars, entryVars
<1>3. Row(s)'
  BY DEF TypeOK, Reserve, At, Serving, Goto, Table, Row, StepOf, HostOf, Settles, Open, Unstored,
         Stored, hostVars, diskVars, entryVars, bootVars
<1> QED
  BY <1>1, <1>2, <1>3, RowsStay DEF Table, Reserve, bootVars

\* ... the record of the attempt, ...
LEMMA RecordTable ==
  ASSUME TypeOK, Table, NEW s \in Sessions, RecordAttempt(s)
  PROVE  TypeOK' /\ Table' /\ \A t \in Sessions \ {s} : SameRow(t)
<1>1. TypeOK'
  <2>1. /\ pc' \in [Sessions -> Steps] /\ out' \in [Sessions -> {"none", "ok", "error", "unknown", "rejected"}]
        /\ alloc' \in [Sessions -> {"none", "pending", "live"}] /\ attempts' \subseteq Sessions
    <3>1. CASE Goto(s, "prepare") /\ attempts' = attempts \cup {s} /\ UNCHANGED alloc
      BY <3>1 DEF TypeOK, Goto, Steps
    <3>2. CASE Return(s, "error")
      BY <3>2 DEF TypeOK, RecordAttempt, Return, Steps
    <3> QED
      BY <3>1, <3>2 DEF RecordAttempt
  <2>2. UNCHANGED <<reqVars, hostVars, meta, entryVars, bootVars, input>>
    BY DEF RecordAttempt
  <2> QED
    BY <2>1, <2>2 DEF TypeOK, reqVars, hostVars, entryVars, bootVars
<1>2. \A t \in Sessions \ {s} : SameRow(t)
  BY DEF TypeOK, RecordAttempt, At, Goto, Return, SameRow, hostVars, entryVars
<1>3. Row(s)'
  BY DEF TypeOK, RecordAttempt, At, Serving, Goto, Return, Table, Row, StepOf, HostOf, Settles, Open,
         Unstored, Stored, hostVars, entryVars, bootVars
<1> QED
  BY <1>1, <1>2, <1>3, RowsStay DEF Table, RecordAttempt, bootVars

\* ... prepare, in the process or asked for, ...
LEMMA PrepareTable ==
  ASSUME TypeOK, Table, NEW s \in Sessions, Prepare(s)
  PROVE  TypeOK' /\ Table' /\ \A t \in Sessions \ {s} : SameRow(t)
<1>1. CASE outside
  <2>1. TypeOK'
    BY <1>1 DEF TypeOK, Prepare, At, Goto, Steps, reqVars, diskVars, entryVars, bootVars
  <2>2. \A t \in Sessions \ {s} : SameRow(t)
    BY <1>1 DEF TypeOK, Prepare, At, Goto, SameRow, diskVars, entryVars
  <2>3. Row(s)'
    BY <1>1 DEF TypeOK, Prepare, At, Serving, Goto, Table, Row, StepOf, HostOf, Settles, Open,
         Unstored, Stored, diskVars, entryVars, bootVars
  <2> QED
    BY <2>1, <2>2, <2>3, RowsStay DEF Table, Prepare, bootVars
<1>2. CASE ~outside
  <2> DEFINE moves == /\ HostMoves(s) /\ host'[s] \in {"prepared", "aborted"}
                      /\ reserved' \subseteq Reqs /\ claimed' \subseteq Sessions
                      /\ reqAppends' = reqAppends
  <2>1. moves /\ UNCHANGED preparing
    BY <1>2, PreparesIs DEF Prepare
  <2>2. TypeOK'
    BY <2>1 DEF TypeOK, HostMoves, Prepare, At, Goto, Steps, diskVars, entryVars, bootVars
  <2>3. \A t \in Sessions \ {s} : SameRow(t)
    BY <2>1 DEF TypeOK, HostMoves, Prepare, At, Goto, SameRow, diskVars, entryVars
  <2>4. Row(s)'
    BY <2>1 DEF TypeOK, HostMoves, Prepare, At, Serving, Goto, Table, Row, StepOf, HostOf, Settles, Open,
         Unstored, Stored, diskVars, entryVars, bootVars
  <2> QED
    BY <2>2, <2>3, <2>4, RowsStay DEF Table, Prepare, bootVars
<1> QED
  BY <1>1, <1>2

\* ... a slow one at its time, ...
LEMMA LatePrepareTable ==
  ASSUME TypeOK, Table, NEW s \in Sessions, LatePrepare(s)
  PROVE  TypeOK' /\ Table' /\ \A t \in Sessions \ {s} : SameRow(t)
<1>1. CASE Undone(s)
  <2>1. TypeOK'
    BY <1>1 DEF TypeOK, LatePrepare, reqVars, diskVars, entryVars, bootVars
  <2>2. \A t \in Sessions \ {s} : SameRow(t)
    BY <1>1 DEF TypeOK, LatePrepare, SameRow, diskVars, entryVars
  <2>3. Row(s)'
    BY <1>1 DEF TypeOK, LatePrepare, Undone, Table, Row, StepOf, HostOf, Settles, Open,
         Unstored, Stored, diskVars, entryVars, bootVars
  <2> QED
    BY <2>1, <2>2, <2>3, RowsStay DEF Table, LatePrepare, bootVars
<1>2. CASE ~Undone(s)
  <2> DEFINE moves == /\ HostMoves(s) /\ host'[s] \in {"prepared", "aborted"}
                      /\ reserved' \subseteq Reqs /\ claimed' \subseteq Sessions
                      /\ reqAppends' = reqAppends
  <2>1. moves /\ host[s] = "new"
    BY <1>2, PreparesIs DEF LatePrepare, Undone, Table, Row, HostOf
  <2>2. TypeOK'
    BY <2>1 DEF TypeOK, HostMoves, LatePrepare, diskVars, entryVars, bootVars
  <2>3. \A t \in Sessions \ {s} : SameRow(t)
    BY <2>1 DEF TypeOK, HostMoves, LatePrepare, SameRow, diskVars, entryVars
  <2>4. Row(s)'
    BY <2>1 DEF TypeOK, HostMoves, LatePrepare, Table, Row, StepOf, HostOf, Settles, Open,
         Unstored, Stored, diskVars, entryVars, bootVars
  <2> QED
    BY <2>2, <2>3, <2>4, RowsStay DEF Table, LatePrepare, bootVars
<1> QED
  BY <1>1, <1>2

\* ... an abort that was answered, or not, ...
AbortsFrom(s, step) ==
  /\ Serving /\ pc[s] \in {"preparing", "adapter"}
  /\ Aborts(s, step)
  /\ UNCHANGED <<asked, preparing, diskVars, entryVars, bootVars, input, alloc>>
LEMMA AbortsTable ==
  ASSUME TypeOK, Table, NEW s \in Sessions, AbortsFrom(s, "unwind")
  PROVE  TypeOK' /\ Table' /\ \A t \in Sessions \ {s} : SameRow(t)
<1>1. /\ HostMoves(s) /\ reserved' \subseteq Reqs /\ claimed' \subseteq Sessions
      /\ reqAppends' = reqAppends
      /\ pc' = [pc EXCEPT ![s] = pc'[s]] /\ out' = [out EXCEPT ![s] = out'[s]]
      /\ \/ host'[s] = "aborted" /\ pc'[s] = "unwind" /\ out'[s] = out[s]
         \/ /\ outside /\ host'[s] = host[s]
            /\ pc'[s] = "returned" /\ out'[s] = "rejected"
  BY AbortsEnds DEF AbortsFrom, Steps, Table, Row, HostOf
<1>2. UNCHANGED <<asked, preparing, diskVars, entryVars, bootVars, input, alloc>>
  BY DEF AbortsFrom
<1>3. TypeOK'
  <2>1. pc' \in [Sessions -> Steps]
    BY <1>1 DEF TypeOK, Steps
  <2>2. out' \in [Sessions -> {"none", "ok", "error", "unknown", "rejected"}]
    BY <1>1 DEF TypeOK
  <2>3. host' \in [Sessions -> {"new", "prepared", "committing", "committed", "aborted"}]
    BY <1>1 DEF TypeOK, HostMoves
  <2> QED
    BY <1>1, <1>2, <2>1, <2>2, <2>3 DEF TypeOK, HostMoves, diskVars, entryVars, bootVars
<1>4. \A t \in Sessions \ {s} : SameRow(t)
  BY <1>1, <1>2 DEF TypeOK, HostMoves, SameRow, diskVars, entryVars
<1>5. Row(s)'
  BY <1>1, <1>2 DEF TypeOK, AbortsFrom, Serving, Table, Row, StepOf, HostOf, Settles, Open,
         Unstored, Stored, diskVars, entryVars, bootVars
<1> QED
  BY <1>2, <1>3, <1>4, <1>5, RowsStay DEF Table, bootVars

\* ... one that comes late, ...
LEMMA LateAbortTable ==
  ASSUME TypeOK, Table, NEW s \in Sessions, LateAbort(s)
  PROVE  TypeOK' /\ Table' /\ \A t \in Sessions \ {s} : SameRow(t)
<1> DEFINE moves == /\ HostMoves(s) /\ host'[s] = "aborted"
                    /\ reserved' \subseteq Reqs /\ claimed' \subseteq Sessions
                    /\ reqAppends' = reqAppends
<1>1. moves
  BY AbortsIs DEF LateAbort, Table, Row, Settles
<1>2. TypeOK'
  BY <1>1 DEF TypeOK, HostMoves, LateAbort, diskVars, entryVars, bootVars
<1>3. \A t \in Sessions \ {s} : SameRow(t)
  BY <1>1 DEF TypeOK, HostMoves, LateAbort, SameRow, diskVars, entryVars
<1>4. Row(s)'
  BY <1>1 DEF TypeOK, HostMoves, LateAbort, Table, Row, StepOf, HostOf, Settles, Open,
         Unstored, Stored, diskVars, entryVars, bootVars
<1> QED
  BY <1>2, <1>3, <1>4, RowsStay DEF Table, LateAbort, bootVars

\* ... the answer to prepare, ...
LEMMA PrepareReturnsTable ==
  ASSUME TypeOK, Table, NEW s \in Sessions, PrepareReturns(s)
  PROVE  TypeOK' /\ Table' /\ \A t \in Sessions \ {s} : SameRow(t)
<1>1. CASE host[s] = "prepared" /\ Goto(s, "adapter") /\ UNCHANGED <<reqVars, host, claimed>>
  <2>1. TypeOK'
    BY <1>1 DEF TypeOK, PrepareReturns, At, Goto, Steps, reqVars, diskVars, entryVars, bootVars
  <2>2. \A t \in Sessions \ {s} : SameRow(t)
    BY <1>1 DEF TypeOK, PrepareReturns, At, Goto, SameRow, diskVars, entryVars
  <2>3. Row(s)'
    BY <1>1 DEF TypeOK, PrepareReturns, At, Serving, Goto, Table, Row, StepOf, HostOf, Settles,
         Open, Unstored, Stored, diskVars, entryVars, bootVars
  <2> QED
    BY <2>1, <2>2, <2>3, RowsStay DEF Table, PrepareReturns, bootVars
<1>2. CASE Aborts(s, "unwind")
  BY <1>2, AbortsTable DEF PrepareReturns, At, AbortsFrom
<1> QED
  BY <1>1, <1>2 DEF PrepareReturns

\* ... or its absence, ...
LEMMA PrepareTimesOutTable ==
  ASSUME TypeOK, Table, NEW s \in Sessions, PrepareTimesOut(s)
  PROVE  TypeOK' /\ Table' /\ \A t \in Sessions \ {s} : SameRow(t)
BY AbortsTable DEF PrepareTimesOut, At, AbortsFrom

\* ... the adapter, ...
LEMMA MakeAdapterTable ==
  ASSUME TypeOK, Table, NEW s \in Sessions, MakeAdapter(s)
  PROVE  TypeOK' /\ Table' /\ \A t \in Sessions \ {s} : SameRow(t)
<1>1. CASE Goto(s, "store") /\ UNCHANGED <<reqVars, host, claimed>>
  <2>1. TypeOK'
    BY <1>1 DEF TypeOK, MakeAdapter, At, Goto, Steps, reqVars, diskVars, entryVars, bootVars
  <2>2. \A t \in Sessions \ {s} : SameRow(t)
    BY <1>1 DEF TypeOK, MakeAdapter, At, Goto, SameRow, diskVars, entryVars
  <2>3. Row(s)'
    BY <1>1 DEF TypeOK, MakeAdapter, At, Serving, Goto, Table, Row, StepOf, HostOf, Settles,
         Open, Unstored, Stored, diskVars, entryVars, bootVars
  <2> QED
    BY <2>1, <2>2, <2>3, RowsStay DEF Table, MakeAdapter, bootVars
<1>2. CASE Aborts(s, "unwind")
  BY <1>2, AbortsTable DEF MakeAdapter, At, AbortsFrom
<1> QED
  BY <1>1, <1>2 DEF MakeAdapter

\* ... the files and the entry, ...
LEMMA StoreTable ==
  ASSUME TypeOK, Table, NEW s \in Sessions, StoreSession(s)
  PROVE  TypeOK' /\ Table' /\ \A t \in Sessions \ {s} : SameRow(t)
<1>1. CASE /\ meta' = [meta EXCEPT ![s] = "live"] /\ listed' = [listed EXCEPT ![s] = "creating"]
           /\ state' = [state EXCEPT ![s] = "live"] /\ Goto(s, "init")
           /\ UNCHANGED <<reqVars, host, claimed>>
  <2>1. TypeOK'
    BY <1>1 DEF TypeOK, StoreSession, At, Goto, Steps, reqVars, bootVars
  <2>2. \A t \in Sessions \ {s} : SameRow(t)
    BY <1>1 DEF TypeOK, StoreSession, At, Goto, SameRow
  <2>3. Row(s)'
    BY <1>1 DEF TypeOK, StoreSession, At, Serving, Goto, Table, Row, StepOf, HostOf, Settles, Open,
         Unstored, Stored, bootVars
  <2> QED
    BY <2>1, <2>2, <2>3, RowsStay DEF Table, StoreSession, bootVars
<1>2. CASE Aborts(s, "cleanup") /\ meta' \in {meta, [meta EXCEPT ![s] = "live"]}
           /\ UNCHANGED entryVars
  <2>1. /\ HostMoves(s) /\ reserved' \subseteq Reqs /\ claimed' \subseteq Sessions
        /\ reqAppends' = reqAppends
        /\ pc' = [pc EXCEPT ![s] = pc'[s]] /\ out' = [out EXCEPT ![s] = out'[s]]
        /\ \/ host'[s] = "aborted" /\ pc'[s] = "cleanup" /\ out'[s] = out[s]
           \/ /\ outside /\ host'[s] = host[s]
              /\ pc'[s] = "returned" /\ out'[s] = "rejected"
    BY <1>2, AbortsEnds DEF StoreSession, At, Steps, Table, Row, HostOf
  <2>2. TypeOK'
    <3>1. pc' \in [Sessions -> Steps]
      BY <2>1 DEF TypeOK, Steps
    <3>2. out' \in [Sessions -> {"none", "ok", "error", "unknown", "rejected"}]
      BY <2>1 DEF TypeOK
    <3>3. host' \in [Sessions -> {"new", "prepared", "committing", "committed", "aborted"}]
      BY <2>1 DEF TypeOK, HostMoves
    <3>4. meta' \in [Sessions -> {"none", "live", "ended"}]
      BY <1>2 DEF TypeOK
    <3> QED
      BY <1>2, <2>1, <3>1, <3>2, <3>3, <3>4 DEF TypeOK, HostMoves, StoreSession, entryVars, bootVars
  <2>3. \A t \in Sessions \ {s} : SameRow(t)
    BY <1>2, <2>1 DEF TypeOK, HostMoves, StoreSession, SameRow, entryVars
  <2>4. Row(s)'
    BY <1>2, <2>1 DEF TypeOK, StoreSession, At, Serving, Table, Row, StepOf,
         HostOf, Settles, Open, Unstored, Stored, entryVars, bootVars
  <2> QED
    BY <2>2, <2>3, <2>4, RowsStay DEF Table, StoreSession, bootVars
<1> QED
  BY <1>1, <1>2 DEF StoreSession

\* ... the checkpoints, ...
LEMMA InitCheckpointsTable ==
  ASSUME TypeOK, Table, NEW s \in Sessions, InitCheckpoints(s)
  PROVE  TypeOK' /\ Table' /\ \A t \in Sessions \ {s} : SameRow(t)
<1> DEFINE ends == /\ state' \in {state, [state EXCEPT ![s] = "ended"]}
                   /\ meta' \in {meta, [meta EXCEPT ![s] = "ended"]}
                   /\ alloc' \in {alloc, [alloc EXCEPT ![s] = "none"]}
<1>1. ends
  BY DEF InitCheckpoints
<1>2. TypeOK'
  <2>1. pc' \in [Sessions -> Steps] /\ out' = out
    BY DEF TypeOK, InitCheckpoints, Goto, Steps
  <2>2. /\ state' \in [Sessions -> {"none", "live", "ended"}]
        /\ meta' \in [Sessions -> {"none", "live", "ended"}]
        /\ alloc' \in [Sessions -> {"none", "pending", "live"}]
    BY <1>1 DEF TypeOK
  <2>3. UNCHANGED <<reqVars, hostVars, attempts, listed, bootVars, input>>
    BY DEF InitCheckpoints
  <2> QED
    BY <2>1, <2>2, <2>3 DEF TypeOK, reqVars, hostVars, bootVars
<1>3. \A t \in Sessions \ {s} : SameRow(t)
  BY <1>1 DEF TypeOK, InitCheckpoints, At, Goto, SameRow, hostVars
<1>4. Row(s)'
  BY <1>1 DEF TypeOK, InitCheckpoints, At, Serving, Goto, Table, Row, StepOf, HostOf, Settles, Open,
         Unstored, Stored, hostVars, bootVars
<1> QED
  BY <1>2, <1>3, <1>4, RowsStay DEF Table, InitCheckpoints, bootVars

\* ... commit, in the process or asked for, ...
LEMMA CommitTable ==
  ASSUME TypeOK, Table, Promised, NEW s \in Sessions, Commit(s)
  PROVE  TypeOK' /\ Table' /\ \A t \in Sessions \ {s} : SameRow(t)
<1> DEFINE moves == /\ HostMoves(s) /\ reserved' = reserved
                    /\ host'[s] = IF outside THEN "prepared" ELSE "committing"
                    /\ reqAppends' \subseteq [op : {"attach"}, line : Lines]
<1>0. host[s] = "prepared"
  BY DEF Commit, At, Table, Row, HostOf
<1>1. moves
  <2>1. CASE outside
    BY <1>0, <2>1 DEF Commit, TypeOK, HostMoves, reqVars
  <2>2. CASE ~outside
    BY <1>0, <2>2, StartsIs DEF Commit, TypeOK
  <2> QED
    BY <2>1, <2>2
<1>2. TypeOK'
  BY <1>1 DEF TypeOK, HostMoves, Commit, At, Goto, Steps, diskVars, entryVars, bootVars
<1>3. \A t \in Sessions \ {s} : SameRow(t)
  BY <1>1 DEF TypeOK, HostMoves, Commit, At, Goto, SameRow, diskVars, entryVars
<1>4. Row(s)'
  BY <1>0, <1>1 DEF TypeOK, HostMoves, Commit, At, Serving, Goto, Table, Row, StepOf, HostOf,
         Settles, Open, Unstored, Stored, diskVars, entryVars, bootVars
<1> QED
  BY <1>2, <1>3, <1>4, RowsStay DEF Table, Commit, bootVars

\* ... a slow one at its time, ...
LEMMA LateCommitTable ==
  ASSUME TypeOK, Table, Promised, NEW s \in Sessions, LateCommit(s)
  PROVE  TypeOK' /\ Table' /\ \A t \in Sessions \ {s} : SameRow(t)
<1> DEFINE moves == /\ HostMoves(s) /\ reserved' = reserved /\ host'[s] = "committing"
                    /\ reqAppends' \subseteq [op : {"attach"}, line : Lines]
<1>1. moves
  BY StartsIs DEF LateCommit, TypeOK
<1>2. TypeOK'
  BY <1>1 DEF TypeOK, HostMoves, LateCommit, diskVars, entryVars, bootVars
<1>3. \A t \in Sessions \ {s} : SameRow(t)
  BY <1>1 DEF TypeOK, HostMoves, LateCommit, SameRow, diskVars, entryVars
<1>4. Row(s)'
  BY <1>1 DEF TypeOK, HostMoves, LateCommit, Table, Row, StepOf, HostOf,
         Settles, Open, Unstored, Stored, diskVars, entryVars, bootVars
<1> QED
  BY <1>2, <1>3, <1>4, RowsStay DEF Table, LateCommit, bootVars

\* ... what the host makes of it, ...
LEMMA HostCommitsIs ==
  ASSUME TypeOK, Promised, NEW s \in Sessions, HostCommits(s)
  PROVE  /\ host[s] = "committing" /\ claimed' = claimed \ {s}
         /\ host' = [host EXCEPT ![s] = host'[s]] /\ host'[s] \in {"committed", "aborted"}
         /\ \/ req[s] = NoReq /\ UNCHANGED reqVars
            \/ /\ s \in claimed /\ Line(s) \in Lines
               /\ reqAppends' = reqAppends \ {[op |-> "attach", line |-> Line(s)]}
               /\ reserved' = reserved \ {req[s]}
               /\ \E o \in Appends(reqLog, Line(s), FALSE) :
                    /\ reqLog' = o.log /\ host'[s] = (IF o.ok THEN "committed" ELSE "aborted")
                    /\ reqs' = Recorded(Line(s), o.ok)
                    /\ reqGlued' = IF o.ok /\ Glues(reqLog) THEN reqGlued \cup {req[s]} ELSE reqGlued
<1>1. host[s] = "committing"
  BY DEF HostCommits
<1>2. ASSUME NEW ok \in BOOLEAN, Settled(s, ok)
      PROVE  /\ claimed' = claimed \ {s} /\ host' = [host EXCEPT ![s] = host'[s]]
             /\ host'[s] = IF ok THEN "committed" ELSE "aborted"
  BY <1>2 DEF Settled, TypeOK
<1>3. CASE req[s] = NoReq /\ UNCHANGED reqVars /\ \E ok \in {TRUE} \cup {~outside} : Settled(s, ok)
  BY <1>1, <1>2, <1>3 DEF TypeOK
<1>4. ASSUME NEW a \in reqAppends, NEW o \in Appends(reqLog, a.line, FALSE),
             a.op = "attach", a.line.session = s, Settled(s, o.ok),
             IF o.ok THEN ReqReturns(a, o)
             ELSE /\ reqAppends' = reqAppends \ {a}
                  /\ reqLog' = o.log
                  /\ reserved' = reserved \ {req[s]}
                  /\ UNCHANGED <<reqs, deciding, verdict, reqGlued>>
      PROVE  /\ s \in claimed /\ Line(s) \in Lines
             /\ reqAppends' = reqAppends \ {[op |-> "attach", line |-> Line(s)]}
             /\ reserved' = reserved \ {req[s]}
             /\ o \in Appends(reqLog, Line(s), FALSE) /\ o.ok \in BOOLEAN
             /\ reqLog' = o.log
             /\ reqs' = Recorded(Line(s), o.ok)
             /\ reqGlued' = IF o.ok /\ Glues(reqLog) THEN reqGlued \cup {req[s]} ELSE reqGlued
  <2>1. PICK t \in claimed : a = [op |-> "attach", line |-> Line(t)]
    BY <1>4 DEF Promised, Attaching
  <2>2. t = s /\ a.line = Line(s) /\ Line(s).id = req[s]
    BY <1>4, <2>1 DEF Line, Requisition
  <2>3. Line(s) \in Lines
    BY <1>4, <2>2 DEF TypeOK
  <2>4. o.ok \in BOOLEAN
    <3>1. reqLog \in [lines : Seq(Lines), torn : BOOLEAN]
      BY DEF TypeOK
    <3>2. o \in Appends(reqLog, Line(s), FALSE)
      BY <2>2
    <3> QED
      BY <2>3, <3>1, <3>2, AppendOutcome
  <2>5. CASE o.ok
    <3>1. ReqReturns(a, o)
      BY <1>4, <2>5
    <3>2. a.op = "attach" /\ a = [op |-> "attach", line |-> Line(s)]
      BY <2>1, <2>2
    <3> QED
      BY <2>1, <2>2, <2>3, <2>4, <2>5, <3>1, <3>2 DEF ReqReturns
  <2>6. CASE ~o.ok
    BY <1>4, <2>1, <2>2, <2>3, <2>4, <2>6 DEF Recorded
  <2> QED
    BY <2>5, <2>6
<1>5. CASE \E a \in reqAppends : \E o \in Appends(reqLog, a.line, FALSE) :
             /\ a.op = "attach" /\ a.line.session = s
             /\ Settled(s, o.ok)
             /\ IF o.ok THEN ReqReturns(a, o)
                ELSE /\ reqAppends' = reqAppends \ {a}
                     /\ reqLog' = o.log
                     /\ reserved' = reserved \ {req[s]}
                     /\ UNCHANGED <<reqs, deciding, verdict, reqGlued>>
  <2>1. PICK a \in reqAppends : \E o \in Appends(reqLog, a.line, FALSE) :
             /\ a.op = "attach" /\ a.line.session = s
             /\ Settled(s, o.ok)
             /\ IF o.ok THEN ReqReturns(a, o)
                ELSE /\ reqAppends' = reqAppends \ {a}
                     /\ reqLog' = o.log
                     /\ reserved' = reserved \ {req[s]}
                     /\ UNCHANGED <<reqs, deciding, verdict, reqGlued>>
    BY <1>5
  <2>2. PICK o \in Appends(reqLog, a.line, FALSE) :
             /\ a.op = "attach" /\ a.line.session = s
             /\ Settled(s, o.ok)
             /\ IF o.ok THEN ReqReturns(a, o)
                ELSE /\ reqAppends' = reqAppends \ {a}
                     /\ reqLog' = o.log
                     /\ reserved' = reserved \ {req[s]}
                     /\ UNCHANGED <<reqs, deciding, verdict, reqGlued>>
    BY <2>1
  <2>3. /\ s \in claimed /\ Line(s) \in Lines
        /\ reqAppends' = reqAppends \ {[op |-> "attach", line |-> Line(s)]}
        /\ reserved' = reserved \ {req[s]}
        /\ o \in Appends(reqLog, Line(s), FALSE) /\ o.ok \in BOOLEAN
        /\ reqLog' = o.log
        /\ reqs' = Recorded(Line(s), o.ok)
        /\ reqGlued' = IF o.ok /\ Glues(reqLog) THEN reqGlued \cup {req[s]} ELSE reqGlued
    BY <1>4, <2>2
  <2>4. /\ claimed' = claimed \ {s} /\ host' = [host EXCEPT ![s] = host'[s]]
        /\ host'[s] = IF o.ok THEN "committed" ELSE "aborted"
    BY <1>2, <2>2, <2>3
  <2> QED
    BY <1>1, <2>3, <2>4
<1> QED
  BY <1>3, <1>5 DEF HostCommits

LEMMA HostCommitsTable ==
  ASSUME TypeOK, Table, Promised, NEW s \in Sessions, HostCommits(s)
  PROVE  TypeOK' /\ Table' /\ \A t \in Sessions \ {s} : SameRow(t)
<1>1. /\ host[s] = "committing" /\ claimed' = claimed \ {s}
      /\ host' = [host EXCEPT ![s] = host'[s]] /\ host'[s] \in {"committed", "aborted"}
  BY HostCommitsIs
<1>2. UNCHANGED <<asked, preparing, diskVars, entryVars, bootVars, input, pc, out, alloc>>
  BY DEF HostCommits
<1>3. /\ reserved' \subseteq Reqs /\ reqAppends' \subseteq [op : {"attach"}, line : Lines]
      /\ reqLog' \in [lines : Seq(Lines), torn : BOOLEAN]
  <2>1. CASE UNCHANGED reqVars
    BY <2>1 DEF TypeOK, reqVars
  <2>2. CASE ~UNCHANGED reqVars
    <3>1. /\ Line(s) \in Lines
          /\ reqAppends' = reqAppends \ {[op |-> "attach", line |-> Line(s)]}
          /\ reserved' = reserved \ {req[s]}
          /\ \E o \in Appends(reqLog, Line(s), FALSE) : reqLog' = o.log
      BY <2>2, HostCommitsIs
    <3>2. reqLog \in [lines : Seq(Lines), torn : BOOLEAN]
      BY DEF TypeOK
    <3>3. \A o \in Appends(reqLog, Line(s), FALSE) : o.log \in [lines : Seq(Lines), torn : BOOLEAN]
      BY <3>1, <3>2, AppendOutcome
    <3>4. reserved \subseteq Reqs /\ reqAppends \subseteq [op : {"attach"}, line : Lines]
      BY DEF TypeOK
    <3> QED
      BY <3>1, <3>3, <3>4
  <2> QED
    BY <2>1, <2>2
<1>4. TypeOK'
  <2>1. /\ host' \in [Sessions -> {"new", "prepared", "committing", "committed", "aborted"}]
        /\ claimed' \subseteq Sessions
    BY <1>1 DEF TypeOK
  <2> QED
    BY <1>2, <1>3, <2>1 DEF TypeOK, diskVars, entryVars, bootVars
<1>5. \A t \in Sessions \ {s} : SameRow(t)
  BY <1>1, <1>2 DEF TypeOK, SameRow, diskVars, entryVars
<1>6. Row(s)'
  BY <1>1, <1>2 DEF TypeOK, Table, Row, StepOf, HostOf, Settles, Open,
         Unstored, Stored, diskVars, entryVars, bootVars
<1> QED
  BY <1>2, <1>4, <1>5, <1>6, RowsStay DEF Table, bootVars

\* ... its outcome, ...
LEMMA CommitReturnsTable ==
  ASSUME TypeOK, Table, NEW s \in Sessions, CommitReturns(s)
  PROVE  TypeOK' /\ Table' /\ \A t \in Sessions \ {s} : SameRow(t)
<1>1. At(s, "committing") /\ UNCHANGED <<asked, preparing, diskVars, state, bootVars, input, alloc>>
  BY DEF CommitReturns
<1>2. /\ HostMoves(s) /\ host'[s] = host[s] /\ reserved' \subseteq Reqs
      /\ claimed' \subseteq Sessions /\ reqAppends' = reqAppends
      /\ pc' = [pc EXCEPT ![s] = pc'[s]] /\ out' = [out EXCEPT ![s] = out'[s]]
      /\ listed' = [listed EXCEPT ![s] = listed'[s]]
      /\ \/ /\ host[s] = "committed" /\ pc'[s] = "publish"
            /\ out'[s] = out[s] /\ listed'[s] = listed[s]
         \/ /\ host[s] = "aborted" /\ pc'[s] = "cleanup"
            /\ out'[s] = out[s] /\ listed'[s] = "absent"
         \/ /\ host[s] = "aborted" /\ pc'[s] = "returned" /\ outside
            /\ out'[s] = "rejected" /\ listed'[s] \in {"absent", listed[s]}
  <2>1. CASE Outcome(s) = "publish" /\ Goto(s, "publish") /\ UNCHANGED <<reqVars, host, claimed, listed>>
    BY <2>1 DEF Outcome, Goto, HostMoves, TypeOK, reqVars
  <2>2. CASE /\ Outcome(s) = "cleanup" /\ Aborts(s, "cleanup")
             /\ listed' = IF out' = out THEN [listed EXCEPT ![s] = "absent"] ELSE listed
    <3>1. host[s] = "aborted"
      BY <2>2 DEF Outcome
    <3>2. CASE HostAborts(s) /\ Goto(s, "cleanup")
      BY <2>2, <3>1, <3>2, AbortsIs DEF Goto, TypeOK
    <3>3. CASE outside /\ Return(s, "rejected") /\ UNCHANGED <<reqVars, host, claimed>>
      <4>1. HostMoves(s) /\ host'[s] = host[s] /\ reserved' = reserved /\ reqAppends' = reqAppends
        BY <3>3 DEF HostMoves, TypeOK, reqVars
      <4>2. listed' = [listed EXCEPT ![s] = listed'[s]] /\ listed'[s] \in {"absent", listed[s]}
        BY <2>2 DEF TypeOK
      <4>3. /\ pc' = [pc EXCEPT ![s] = pc'[s]] /\ pc'[s] = "returned"
            /\ out' = [out EXCEPT ![s] = out'[s]] /\ out'[s] = "rejected"
        BY <3>3 DEF Return, TypeOK
      <4> QED
        BY <3>1, <3>3, <4>1, <4>2, <4>3 DEF TypeOK
    <3> QED
      BY <2>2, <3>2, <3>3 DEF Aborts
  <2> QED
    BY <2>1, <2>2 DEF CommitReturns
<1>3. TypeOK'
  <2>1. pc' \in [Sessions -> Steps]
    BY <1>2 DEF TypeOK, Steps
  <2>2. out' \in [Sessions -> {"none", "ok", "error", "unknown", "rejected"}]
    BY <1>2 DEF TypeOK
  <2>3. listed' \in [Sessions -> {"absent", "creating", "visible"}]
    BY <1>2 DEF TypeOK
  <2>4. host' \in [Sessions -> {"new", "prepared", "committing", "committed", "aborted"}]
    BY <1>2 DEF TypeOK, HostMoves
  <2> QED
    BY <1>1, <1>2, <2>1, <2>2, <2>3, <2>4 DEF TypeOK, HostMoves, diskVars, bootVars
<1>4. \A t \in Sessions \ {s} : SameRow(t)
  BY <1>1, <1>2 DEF TypeOK, HostMoves, SameRow, diskVars
<1>5. Row(s)'
  BY <1>1, <1>2 DEF TypeOK, At, Serving, Table, Row, StepOf, HostOf, Settles, Open, Unstored,
         Stored, diskVars, bootVars
<1> QED
  BY <1>1, <1>3, <1>4, <1>5, RowsStay DEF Table, bootVars

\* ... which may stay unknown, ...
LEMMA CommitTimesOutTable ==
  ASSUME TypeOK, Table, NEW s \in Sessions, CommitTimesOut(s)
  PROVE  TypeOK' /\ Table' /\ \A t \in Sessions \ {s} : SameRow(t)
<1>1. TypeOK'
  BY DEF TypeOK, CommitTimesOut, At, Return, Steps, reqVars, hostVars, diskVars, entryVars, bootVars
<1>2. \A t \in Sessions \ {s} : SameRow(t)
  BY DEF TypeOK, CommitTimesOut, At, Return, SameRow, hostVars, diskVars, entryVars
<1>3. Row(s)'
  BY DEF TypeOK, CommitTimesOut, At, Serving, Return, Table, Row, StepOf, HostOf, Settles, Open, Unstored,
         Stored, hostVars, diskVars, entryVars, bootVars
<1> QED
  BY <1>1, <1>2, <1>3, RowsStay DEF Table, CommitTimesOut, bootVars

\* ... the deletion of what was stored, ...
LEMMA CleanupTable ==
  ASSUME TypeOK, Table, NEW s \in Sessions, Cleanup(s)
  PROVE  TypeOK' /\ Table' /\ \A t \in Sessions \ {s} : SameRow(t)
<1>1. TypeOK'
  <2>1. /\ pc' \in [Sessions -> Steps] /\ out' \in [Sessions -> {"none", "ok", "error", "unknown", "rejected"}]
        /\ meta' \in [Sessions -> {"none", "live", "ended"}]
    BY DEF TypeOK, Cleanup, Goto, Return, Steps
  <2>2. UNCHANGED <<reqVars, hostVars, attempts, entryVars, bootVars, input, alloc>>
    BY DEF Cleanup
  <2> QED
    BY <2>1, <2>2 DEF TypeOK, reqVars, hostVars, entryVars, bootVars
<1>2. \A t \in Sessions \ {s} : SameRow(t)
  BY DEF TypeOK, Cleanup, At, Goto, Return, SameRow, hostVars, entryVars
<1>3. Row(s)'
  BY DEF TypeOK, Cleanup, At, Serving, Goto, Return, Table, Row, StepOf, HostOf, Settles, Open, Unstored,
         Stored, hostVars, entryVars, bootVars
<1> QED
  BY <1>1, <1>2, <1>3, RowsStay DEF Table, Cleanup, bootVars

\* ... and of the record, ...
LEMMA UnwindTable ==
  ASSUME TypeOK, Table, NEW s \in Sessions, Unwind(s)
  PROVE  TypeOK' /\ Table' /\ \A t \in Sessions \ {s} : SameRow(t)
<1>1. /\ attempts' \in {attempts, attempts \ {s}} /\ alloc' \in {alloc, [alloc EXCEPT ![s] = "none"]}
      /\ At(s, "unwind") /\ Return(s, "error")
      /\ UNCHANGED <<reqVars, hostVars, meta, entryVars, bootVars, input>>
  BY DEF Unwind, AttemptRemoved
<1>2. TypeOK'
  BY <1>1 DEF TypeOK, Return, Steps, reqVars, hostVars, entryVars, bootVars
<1>3. \A t \in Sessions \ {s} : SameRow(t)
  BY <1>1 DEF TypeOK, Return, SameRow, hostVars, entryVars
<1>4. Row(s)'
  BY <1>1 DEF TypeOK, At, Serving, Return, Table, Row, StepOf, HostOf, Settles, Open, Unstored,
         Stored, hostVars, entryVars, bootVars
<1> QED
  BY <1>1, <1>2, <1>3, <1>4, RowsStay DEF Table, bootVars

\* ... the publication, ...
LEMMA PublishTable ==
  ASSUME TypeOK, Table, NEW s \in Sessions, Publish(s)
  PROVE  TypeOK' /\ Table' /\ \A t \in Sessions \ {s} : SameRow(t)
<1>1. /\ attempts' \in {attempts, attempts \ {s}} /\ alloc' \in {alloc, [alloc EXCEPT ![s] = "live"]}
      /\ listed' \in {listed, [listed EXCEPT ![s] = "visible"]}
      /\ At(s, "publish") /\ (Return(s, "ok") \/ Return(s, "error"))
      /\ UNCHANGED <<reqVars, hostVars, meta, state, bootVars, input>>
  BY DEF Publish, AttemptRemoved
<1>2. TypeOK'
  <2>1. /\ pc' \in [Sessions -> Steps]
        /\ out' \in [Sessions -> {"none", "ok", "error", "unknown", "rejected"}]
    BY <1>1 DEF TypeOK, Return, Steps
  <2>2. /\ listed' \in [Sessions -> {"absent", "creating", "visible"}]
        /\ alloc' \in [Sessions -> {"none", "pending", "live"}]
        /\ attempts' \subseteq Sessions
    BY <1>1 DEF TypeOK
  <2> QED
    BY <1>1, <2>1, <2>2 DEF TypeOK, reqVars, hostVars, bootVars
<1>3. \A t \in Sessions \ {s} : SameRow(t)
  BY <1>1 DEF TypeOK, Return, SameRow, hostVars
<1>4. Row(s)'
  BY <1>1 DEF TypeOK, At, Serving, Return, Table, Row, StepOf, HostOf, Settles, Open, Unstored,
         Stored, hostVars, bootVars
<1> QED
  BY <1>1, <1>2, <1>3, <1>4, RowsStay DEF Table, bootVars

\* ... and the end of the session.
LEMMA EndTable ==
  ASSUME TypeOK, Table, NEW s \in Sessions, End(s)
  PROVE  TypeOK' /\ Table' /\ \A t \in Sessions \ {s} : SameRow(t)
<1>1. TypeOK'
  BY DEF TypeOK, End, reqVars, hostVars, bootVars
<1>2. \A t \in Sessions \ {s} : SameRow(t)
  BY DEF TypeOK, End, SameRow, hostVars
<1>3. Row(s)'
  BY DEF TypeOK, End, Serving, Table, Row, StepOf, HostOf, Settles, Open, Unstored,
         Stored, hostVars, bootVars
<1> QED
  BY <1>1, <1>2, <1>3, RowsStay DEF Table, End, bootVars

\* The process dies, ...
LEMMA CrashTable ==
  ASSUME TypeOK, Table, Promised, Crash
  PROVE  TypeOK' /\ Table'
<1>1. /\ up' = "down" /\ crashes' = crashes + 1
      /\ pc' = [s \in Sessions |-> IF pc[s] = "idle" THEN "idle" ELSE "returned"]
      /\ alloc' = [s \in Sessions |-> "none"]
      /\ listed' = [s \in Sessions |-> "absent"]
      /\ todo' = {} /\ confirmed' = {}
      /\ UNCHANGED <<attempts, meta, state, outside, input, out>>
  BY DEF Crash, diskVars
<1>2. /\ reserved' \subseteq Reqs /\ reqAppends' \subseteq [op : {"attach"}, line : Lines]
      /\ reqLog' \in [lines : Seq(Lines), torn : BOOLEAN]
      /\ \/ UNCHANGED hostVars
         \/ /\ host' = [s \in Sessions |-> "new"]
            /\ claimed' = {} /\ asked' = {} /\ preparing' = {}
  <2>1. CASE outside
    BY <2>1 DEF Crash, TypeOK, reqVars
  <2>2. CASE ~outside
    <3> DEFINE lines == {a.line : a \in reqAppends}
    <3>1. reqLog \in [lines : Seq(Lines), torn : BOOLEAN] /\ lines \in SUBSET Lines
      BY DEF TypeOK
    <3>2. IsFiniteSet(lines)
      BY LinesOnTheirWay DEF Promised, Registry
    <3>3. reqLog' \in Interrupted(reqLog, lines)
      BY <2>2 DEF Crash, ReqCrash
    <3>4. reqLog' \in [lines : Seq(Lines), torn : BOOLEAN]
      <4> HIDE DEF lines
      <4> QED
        BY <3>1, <3>2, <3>3, InterruptedOutcome
    <3> QED
      BY <2>2, <3>4 DEF Crash, ReqCrash
  <2> QED
    BY <2>1, <2>2
<1>3. TypeOK'
  BY <1>1, <1>2 DEF TypeOK, Steps, hostVars
<1>4. ASSUME NEW s \in Sessions PROVE Row(s)'
  BY <1>1, <1>2 DEF TypeOK, Table, Row, StepOf, HostOf, Settles, Open, Unstored, Stored, hostVars
<1> QED
  BY <1>3, <1>4 DEF Table

\* ... boots, ...
LEMMA RecoverTable ==
  ASSUME TypeOK, Table, Recover
  PROVE  TypeOK' /\ Table'
<1>1. /\ UNCHANGED <<reqLog, reserved, reqAppends>>
      /\ up' = "booting" /\ todo' = attempts
      /\ alloc' = [s \in Sessions |-> IF s \in attempts THEN "pending" ELSE "none"]
      /\ UNCHANGED <<hostVars, diskVars, entryVars, crashes, confirmed, outside, input, pc, out>>
  BY DEF Recover, ReqBoot, reqVars
<1>2. TypeOK'
  BY <1>1 DEF TypeOK, hostVars, diskVars, entryVars
<1>3. ASSUME NEW s \in Sessions PROVE Row(s)'
  BY <1>1, Recover DEF Recover, Table, Row, StepOf, HostOf, Settles, Open, Unstored, Stored, hostVars,
     diskVars, entryVars
<1> QED
  BY <1>2, <1>3 DEF Table

\* ... asks the host, ...
LEMMA AskHostTable ==
  ASSUME TypeOK, Table, NEW s \in Sessions, AskHost(s)
  PROVE  TypeOK' /\ Table' /\ \A t \in Sessions \ {s} : SameRow(t)
<1>1. /\ up = "booting" /\ todo' = todo \ {s} /\ confirmed' \in {confirmed, confirmed \cup {s}}
      /\ meta' \in {meta, [meta EXCEPT ![s] = "none"]} /\ attempts' \in {attempts, attempts \ {s}}
      /\ alloc' \in {alloc, [alloc EXCEPT ![s] = "none"]}
      /\ host[s] # "aborted" => UNCHANGED <<meta, attempts, alloc>>
      /\ UNCHANGED <<reqVars, hostVars, entryVars, up, crashes, outside, input, pc, out>>
  BY DEF AskHost, Refused
<1>2. TypeOK'
  BY <1>1 DEF TypeOK, reqVars, hostVars, entryVars
<1>3. \A t \in Sessions \ {s} : SameRow(t)
  BY <1>1 DEF TypeOK, SameRow, hostVars, entryVars
<1>4. Row(s)'
  BY <1>1 DEF TypeOK, Table, Row, StepOf, HostOf, Settles, Open, Unstored, Stored, hostVars, entryVars
<1> QED
  BY <1>1, <1>2, <1>3, <1>4, RowsStay DEF Table

LEMMA NoAnswerTable ==
  ASSUME TypeOK, Table, NEW s \in Sessions, NoAnswer(s)
  PROVE  TypeOK' /\ Table' /\ \A t \in Sessions \ {s} : SameRow(t)
<1>1. TypeOK'
  BY DEF TypeOK, NoAnswer, reqVars, hostVars, diskVars, entryVars
<1>2. \A t \in Sessions : SameRow(t)
  BY DEF NoAnswer, SameRow, hostVars, diskVars, entryVars
<1> QED
  BY <1>1, <1>2, RowsStay DEF Table, NoAnswer

\* ... and has its sessions back.
LEMMA RehydrateIs ==
  ASSUME TypeOK, Rehydrate
  PROVE  /\ up = "booting" /\ up' = "up"
         /\ UNCHANGED <<reqVars, hostVars, crashes, todo, confirmed, outside, input, pc, out>>
         /\ listed' \in [Sessions -> {"absent", "creating", "visible"}]
         /\ state' \in [Sessions -> {"none", "live", "ended"}]
         /\ meta' \in [Sessions -> {"none", "live", "ended"}]
         /\ alloc' \in [Sessions -> {"none", "pending", "live"}]
         /\ attempts' \subseteq attempts
         /\ \A s \in attempts \ attempts' : s \in confirmed /\ meta[s] # "none"
         /\ \A s \in Sessions :
              /\ meta'[s] = "none" <=> meta[s] = "none"
              /\ listed'[s] # "absent" => meta[s] # "none"
              /\ listed'[s] = "visible" => s \notin attempts' /\ alloc'[s] = "none"
              /\ alloc'[s] # "none" => alloc[s] # "none"
              /\ s \in attempts' => alloc'[s] = alloc[s]
              /\ listed'[s] # "absent" /\ state'[s] = "live" =>
                   s \in attempts /\ alloc'[s] = alloc[s]
<1> DEFINE loaded == {s \in Sessions : meta[s] # "none"}
           quarantined == attempts \ confirmed
<1>1. PICK unwritten \in SUBSET (loaded \ quarantined), stuck \in SUBSET (loaded \cap attempts) :
        LET hidden == quarantined \cup stuck \cup (unwritten \cap attempts)
        IN /\ listed' = [s \in Sessions |-> IF s \notin loaded THEN "absent"
                                            ELSE IF s \in hidden THEN "creating" ELSE "visible"]
           /\ state' = [s \in Sessions |-> IF s \in loaded \ quarantined THEN "ended" ELSE meta[s]]
           /\ meta' = [s \in Sessions |-> IF s \in loaded \ (quarantined \cup unwritten)
                                          THEN "ended" ELSE meta[s]]
           /\ attempts' = attempts \ (loaded \ hidden)
           /\ alloc' = [s \in Sessions |-> IF s \in loaded \ hidden THEN "none" ELSE alloc[s]]
  BY DEF Rehydrate
<1>2. PICK hidden : hidden = quarantined \cup stuck \cup (unwritten \cap attempts)
  OBVIOUS
<1>3. /\ listed' = [s \in Sessions |-> IF s \notin loaded THEN "absent"
                                            ELSE IF s \in hidden THEN "creating" ELSE "visible"]
      /\ state' = [s \in Sessions |-> IF s \in loaded \ quarantined THEN "ended" ELSE meta[s]]
      /\ meta' = [s \in Sessions |-> IF s \in loaded \ (quarantined \cup unwritten)
                                          THEN "ended" ELSE meta[s]]
      /\ attempts' = attempts \ (loaded \ hidden)
      /\ alloc' = [s \in Sessions |-> IF s \in loaded \ hidden THEN "none" ELSE alloc[s]]
  BY <1>1, <1>2
<1>4. /\ listed' \in [Sessions -> {"absent", "creating", "visible"}]
      /\ state' \in [Sessions -> {"none", "live", "ended"}]
      /\ meta' \in [Sessions -> {"none", "live", "ended"}]
      /\ alloc' \in [Sessions -> {"none", "pending", "live"}]
  BY <1>3 DEF TypeOK
<1>5. /\ attempts' \subseteq attempts
      /\ \A s \in attempts \ attempts' : s \in confirmed /\ meta[s] # "none"
  BY <1>2, <1>3
<1>6. ASSUME NEW s \in Sessions
      PROVE  /\ meta'[s] = "none" <=> meta[s] = "none"
             /\ listed'[s] # "absent" => meta[s] # "none"
             /\ listed'[s] = "visible" => s \notin attempts' /\ alloc'[s] = "none"
             /\ alloc'[s] # "none" => alloc[s] # "none"
             /\ s \in attempts' => alloc'[s] = alloc[s]
             /\ listed'[s] # "absent" /\ state'[s] = "live" => s \in attempts /\ alloc'[s] = alloc[s]
  <2>1. /\ meta'[s] = "none" <=> meta[s] = "none"
        /\ listed'[s] # "absent" => meta[s] # "none"
        /\ alloc'[s] # "none" => alloc[s] # "none"
        /\ s \in attempts' => alloc'[s] = alloc[s]
    BY <1>3
  <2>2. ASSUME listed'[s] = "visible" PROVE s \notin attempts' /\ alloc'[s] = "none"
    <3>1. s \in loaded \ hidden
      BY <1>3, <2>2
    <3> QED
      BY <1>3, <3>1
  <2>3. ASSUME listed'[s] # "absent", state'[s] = "live"
        PROVE  s \in attempts /\ alloc'[s] = alloc[s]
    <3>1. s \in loaded /\ s \in quarantined
      BY <1>3, <2>3
    <3> QED
      BY <1>2, <1>3, <3>1
  <2> QED
    BY <2>1, <2>2, <2>3
<1> QED
  BY <1>4, <1>5, <1>6 DEF Rehydrate

LEMMA RehydrateTable ==
  ASSUME TypeOK, Table, Places, Rehydrate
  PROVE  TypeOK' /\ Table'
<1>1. /\ up = "booting" /\ up' = "up" /\ attempts' \subseteq attempts
      /\ \A s \in attempts \ attempts' : s \in confirmed
      /\ UNCHANGED <<reqVars, hostVars, crashes, todo, confirmed, outside, input, pc, out>>
      /\ listed' \in [Sessions -> {"absent", "creating", "visible"}]
      /\ state' \in [Sessions -> {"none", "live", "ended"}]
      /\ meta' \in [Sessions -> {"none", "live", "ended"}]
      /\ alloc' \in [Sessions -> {"none", "pending", "live"}]
  BY RehydrateIs
<1>2. TypeOK'
  BY <1>1 DEF TypeOK, reqVars, hostVars
<1>3. ASSUME NEW s \in Sessions PROVE Row(s)'
  <2>1. /\ meta'[s] = "none" <=> meta[s] = "none"
        /\ listed'[s] # "absent" => meta[s] # "none"
    BY RehydrateIs
  <2>2. s \in attempts \ attempts' => host[s] = "committed"
    BY <1>1 DEF Places, Boots
  <2> QED
    BY <1>1, <2>1, <2>2 DEF TypeOK, Table, Row, StepOf, HostOf, Settles, Open, Unstored, Stored, hostVars
<1> QED
  BY <1>2, <1>3 DEF Table

---------------------------------------------------------------------------
(* The directories.                                                         *)

\* A step that reserves nothing leaves the directories apart.
Frees(s) ==
  /\ up = "up" /\ up' = "up" /\ UNCHANGED input
  /\ pc[s] # "returned" \/ listed[s] = "visible"
  /\ \A t \in Sessions \ {s} :
       UNCHANGED <<pc[t], listed[t], state[t], alloc[t]>>
  /\ alloc'[s] # "none" => alloc[s] # "none"
  /\ Holds(s)' => alloc'[s] # "none"
LEMMA FreesPlaces ==
  ASSUME Places, NEW s \in Sessions, Frees(s), \A t \in Sessions \ {s} : SameRow(t)
  PROVE  Places'
<1>1. Boots'
  BY DEF Boots, Frees
<1>2. HoldsPlace'
  <2> SUFFICES ASSUME NEW t \in Sessions, Holds(t)' PROVE alloc'[t] # "none"
    BY DEF HoldsPlace
  <2>1. t # s => Holds(t)
    BY DEF Holds, Open, Frees, SameRow
  <2> QED
    BY <2>1 DEF Places, HoldsPlace, Frees
<1>3. ASSUME Apart PROVE Apart'
  <2>1. cwd' = cwd
    BY DEF Frees, cwd
  <2>2. ASSUME NEW t \in Sessions, alloc'[t] # "none"
        PROVE  alloc[t] # "none" /\ (Idles(t) => Idles(t)')
    BY <2>2 DEF Frees, Idles
  <2> QED
    BY <1>3, <2>1, <2>2 DEF Apart, PathsOverlap
<1> QED
  BY <1>1, <1>2, <1>3 DEF Places

\* No step of a create but its reservation does.
LEMMA CreateStepFrees ==
  ASSUME TypeOK, Table, Places, NEW s \in Sessions, CreateStep(s), ~Reserve(s)
  PROVE  Frees(s)
<1>1. CASE RecordAttempt(s)
  BY <1>1 DEF RecordAttempt, At, Serving, Goto, Return, Frees, TypeOK, Table, Row, StepOf, Stored, Places, HoldsPlace,
     Holds, Open, Reserving, entryVars, bootVars
<1>2. CASE Prepare(s)
  BY <1>2 DEF Prepare, At, Serving, Goto, Frees, TypeOK, Table, Row, StepOf, Stored, Places, HoldsPlace,
     Holds, Open, Reserving, entryVars, bootVars
<1>3. CASE PrepareReturns(s)
  BY <1>3 DEF PrepareReturns, At, Serving, Aborts, Goto, Return, Frees, TypeOK, Table, Row, StepOf, Stored, Places, HoldsPlace,
     Holds, Open, Reserving, entryVars, bootVars
<1>4. CASE PrepareTimesOut(s)
  BY <1>4 DEF PrepareTimesOut, At, Serving, Aborts, Goto, Return, Frees, TypeOK, Table, Row, StepOf, Stored, Places, HoldsPlace,
     Holds, Open, Reserving, entryVars, bootVars
<1>5. CASE MakeAdapter(s)
  BY <1>5 DEF MakeAdapter, At, Serving, Aborts, Goto, Return, Frees, TypeOK, Table, Row, StepOf, Stored, Places, HoldsPlace,
     Holds, Open, Reserving, entryVars, bootVars
<1>6. CASE StoreSession(s)
  BY <1>6 DEF StoreSession, At, Serving, Aborts, Goto, Return, Frees, TypeOK, Table, Row, StepOf, Stored, Places, HoldsPlace,
     Holds, Open, Reserving, entryVars, bootVars
<1>7. CASE InitCheckpoints(s)
  BY <1>7 DEF InitCheckpoints, At, Serving, Goto, Frees, TypeOK, Table, Row, StepOf, Stored, Places, HoldsPlace,
     Holds, Open, Reserving, entryVars, bootVars
<1>8. CASE Commit(s)
  BY <1>8 DEF Commit, At, Serving, Goto, Frees, TypeOK, Table, Row, StepOf, Stored, Places, HoldsPlace,
     Holds, Open, Reserving, entryVars, bootVars
<1>9. CASE CommitReturns(s)
  BY <1>9 DEF CommitReturns, At, Serving, Aborts, Goto, Return, Outcome, HostOf, Frees, TypeOK, Table, Row, StepOf, Stored, Places, HoldsPlace,
     Holds, Open, Reserving, entryVars, bootVars
<1>10. CASE CommitTimesOut(s)
  BY <1>10 DEF CommitTimesOut, At, Serving, Return, Frees, TypeOK, Table, Row, StepOf, Stored, Places, HoldsPlace,
     Holds, Open, Reserving, entryVars, bootVars
<1>11. CASE Cleanup(s)
  BY <1>11 DEF Cleanup, At, Serving, Goto, Return, Frees, TypeOK, Table, Row, StepOf, Stored, Places, HoldsPlace,
     Holds, Open, Reserving, entryVars, bootVars
<1>12. CASE Unwind(s)
  BY <1>12 DEF Unwind, At, Serving, Return, Frees, TypeOK, Table, Row, StepOf, Stored, Places, HoldsPlace,
     Holds, Open, Reserving, entryVars, bootVars
<1>13. CASE Publish(s)
  BY <1>13 DEF Publish, At, Serving, Return, Frees, TypeOK, Table, Row, StepOf, Stored, Places, HoldsPlace,
     Holds, Open, Reserving, entryVars, bootVars
<1> QED
  BY <1>1, <1>2, <1>3, <1>4, <1>5, <1>6, <1>7, <1>8, <1>9, <1>10, <1>11, <1>12, <1>13 DEF CreateStep

\* A reservation finds no other in its way.
LEMMA ReservePlaces ==
  ASSUME TypeOK, Places, NEW s \in Sessions, Reserve(s)
  PROVE  Places'
<1> DEFINE inTheWay == {t \in Sessions : alloc[t] # "none" /\ PathsOverlap(cwd[s], cwd[t])}
<1>1. /\ up = "up" /\ up' = "up" /\ UNCHANGED <<input, listed, state, attempts, out, host, preparing>>
      /\ pc' = [pc EXCEPT ![s] = "record"] /\ alloc' = [alloc EXCEPT ![s] = "pending"]
      /\ pc[s] = "idle" /\ Cardinality(inTheWay) < MaxLive
  BY DEF Reserve, At, Serving, Goto, Free, entryVars, bootVars, diskVars, hostVars
<1>2. Boots'
  BY <1>1 DEF Boots
<1>3. HoldsPlace'
  BY <1>1 DEF Places, HoldsPlace, Holds, Open, TypeOK, Reserving
<1>4. ASSUME Apart, MaxLive = 1 PROVE Apart'
  <2>1. inTheWay = {}
    <3>1. IsFiniteSet(inTheWay)
      BY CreateAssumption, FS_Subset
    <3>2. Cardinality(inTheWay) \in Nat
      BY <3>1, FS_CardinalityType
    <3>3. Cardinality(inTheWay) = 0
      BY <1>1, <1>4, <3>2
    <3> QED
      BY <3>1, <3>3, FS_EmptySet
  <2>2. \A t \in Sessions : alloc[t] # "none" =>
          ~PathsOverlap(cwd[s], cwd[t]) /\ ~PathsOverlap(cwd[t], cwd[s])
    BY <2>1 DEF PathsOverlap
  <2>3. cwd' = cwd
    BY <1>1 DEF cwd
  <2> SUFFICES ASSUME NEW t \in Sessions, NEW u \in Sessions, t # u,
                      alloc'[t] # "none", alloc'[u] # "none", PathsOverlap(cwd[t], cwd[u])
      PROVE  Idles(t)' /\ Idles(u)'
    BY <2>3 DEF Apart, PathsOverlap
  <2>4. t # s /\ u # s
    BY <1>1, <2>2 DEF TypeOK
  <2>5. alloc[t] # "none" /\ alloc[u] # "none"
    BY <1>1, <2>4 DEF TypeOK
  <2>6. Idles(t) /\ Idles(u)
    BY <1>4, <2>5 DEF Apart
  <2> QED
    BY <1>1, <2>4, <2>6 DEF Idles, TypeOK
<1> QED
  BY <1>2, <1>3, <1>4 DEF Places

\* An end frees its directory.
LEMMA EndFrees ==
  ASSUME TypeOK, Table, Places, Payments, NEW s \in Sessions, End(s)
  PROVE  Frees(s)
<1>1. pc[s] \notin Reserving
  BY DEF End, Table, Row, StepOf, Stored, Reserving
<1>2. /\ up = "up" /\ up' = up /\ listed[s] = "visible" /\ UNCHANGED <<input, listed, pc>>
      /\ state' = [state EXCEPT ![s] = "ended"] /\ alloc' = [alloc EXCEPT ![s] = "none"]
  BY DEF End, Serving, bootVars
<1>3. ~Open(s)'
  <2>1. ~Open(s)
    BY <1>2 DEF Payments, Table, Row, Settles
  <2> QED
    BY <2>1 DEF End, Open, hostVars
<1> QED
  BY <1>1, <1>2, <1>3 DEF Frees, Holds, TypeOK

\* The host opens no attempt that was closed, and ends none that was committed.
LEMMA HostStepMoves ==
  ASSUME TypeOK, Table, Promised, NEW s \in Sessions, HostStep(s) \/ NoAnswer(s)
  PROVE  (Open(s)' => Open(s)) /\ (host[s] = "committed" => host'[s] = "committed")
<1>1. CASE LatePrepare(s)
  BY <1>1 DEF LatePrepare, Undone, HostPrepares, Table, Row, HostOf, Open, TypeOK
<1>2. CASE LateAbort(s)
  BY <1>2 DEF LateAbort, HostAborts, Open, TypeOK
<1>3. CASE LateCommit(s)
  BY <1>3 DEF LateCommit, HostStarts, Open, TypeOK
<1>4. CASE HostCommits(s)
  BY <1>4, HostCommitsIs DEF HostCommits, Open, TypeOK
<1>5. CASE NoAnswer(s)
  BY <1>5 DEF NoAnswer, Open, hostVars
<1> QED
  BY <1>1, <1>2, <1>3, <1>4, <1>5 DEF HostStep

\* What the host does, or does not answer, moves nobody.
LEMMA ElsewherePlaces ==
  ASSUME TypeOK, Places, UNCHANGED <<up, input, pc, out, alloc, listed, state, attempts, confirmed>>,
         \A s \in Sessions : Open(s)' => Open(s),
         \A s \in Sessions : host[s] = "committed" => host'[s] = "committed"
  PROVE  Places'
<1>1. cwd' = cwd
  BY DEF cwd
<1>2. Boots' /\ HoldsPlace'
  BY DEF TypeOK, Places, Boots, HoldsPlace, Holds
<1>3. Apart => Apart'
  BY <1>1 DEF Apart, Idles, PathsOverlap
<1> QED
  BY <1>2, <1>3 DEF Places

LEMMA CrashPlaces ==
  ASSUME TypeOK, Table, Crash
  PROVE  Places'
<1>1. /\ up' = "down"
      /\ pc' = [s \in Sessions |-> IF pc[s] = "idle" THEN "idle" ELSE "returned"]
      /\ alloc' = [s \in Sessions |-> "none"]
      /\ listed' = [s \in Sessions |-> "absent"] /\ confirmed' = {}
  BY DEF Crash
<1>2. Boots' /\ HoldsPlace'
  BY <1>1 DEF Boots, HoldsPlace, Holds, Reserving
<1>3. Apart'
  BY <1>1 DEF Apart
<1> QED
  BY <1>2, <1>3 DEF Places

\* Boot gives every attempt its directory back; their creates are over.
LEMMA RecoverPlaces ==
  ASSUME TypeOK, Table, Places, Recover
  PROVE  Places'
<1>1. /\ up = "down" /\ up' = "booting"
      /\ alloc' = [s \in Sessions |-> IF s \in attempts THEN "pending" ELSE "none"]
      /\ UNCHANGED <<attempts, listed, state, pc, out, host, preparing, confirmed>>
  BY DEF Recover, hostVars, diskVars, entryVars
<1>2. ASSUME NEW s \in Sessions
      PROVE  listed[s] = "absent" /\ pc[s] \in {"idle", "returned"}
             /\ (s \in attempts => pc[s] = "returned") /\ (Open(s) => s \in attempts)
  BY <1>1 DEF Places, Boots, Table, Row, StepOf, Settles
<1>3. Boots'
  <2>1. attempts \subseteq Sessions
    BY DEF TypeOK
  <2> QED
    BY <1>1, <1>2, <2>1 DEF Places, Boots
<1>4. HoldsPlace'
  BY <1>1, <1>2 DEF HoldsPlace, Holds, Open, Reserving
<1>5. Apart'
  BY <1>1, <1>2 DEF Apart, Idles
<1> QED
  BY <1>3, <1>4, <1>5 DEF Places

LEMMA AskHostPlaces ==
  ASSUME TypeOK, Table, Places, NEW s \in Sessions, AskHost(s)
  PROVE  Places'
<1>1. /\ up = "booting" /\ up' = "booting"
      /\ UNCHANGED <<listed, state, pc, out, host, preparing, input>>
      /\ \/ UNCHANGED <<attempts, alloc>>
         \/ /\ attempts' = attempts \ {s} /\ alloc' = [alloc EXCEPT ![s] = "none"]
            /\ host[s] = "aborted"
      /\ confirmed' = IF host[s] = "committed" THEN confirmed \cup {s} ELSE confirmed
  BY DEF AskHost, Refused, hostVars, entryVars
<1>2. ASSUME NEW t \in Sessions
      PROVE  listed[t] = "absent" /\ pc[t] \in {"idle", "returned"}
  BY <1>1 DEF Places, Boots, Table, Row, StepOf
<1>3. Boots'
  BY <1>1, <1>2 DEF Places, Boots, TypeOK
<1>4. HoldsPlace'
  BY <1>1, <1>2 DEF TypeOK, Places, HoldsPlace, Holds, Open, Reserving
<1>5. ASSUME Apart PROVE Apart'
  <2>1. cwd' = cwd
    BY <1>1 DEF cwd
  <2>2. ASSUME NEW t \in Sessions, alloc'[t] # "none"
        PROVE  alloc[t] # "none" /\ (Idles(t) => Idles(t)')
    BY <1>1, <2>2 DEF TypeOK, Idles
  <2> QED
    BY <1>5, <2>1, <2>2 DEF Apart, PathsOverlap
<1> QED
  BY <1>3, <1>4, <1>5 DEF Places

\* A session that comes back visible is ended, and has given its directory up.
LEMMA RehydratePlaces ==
  ASSUME TypeOK, Table, Places, Rehydrate, Table'
  PROVE  Places'
<1>1. up = "booting" /\ up' = "up" /\ UNCHANGED <<input, pc, out, host, preparing>>
  BY RehydrateIs DEF hostVars
<1>2. ASSUME NEW s \in Sessions
      PROVE  /\ listed'[s] = "visible" => alloc'[s] = "none"
             /\ alloc'[s] # "none" => alloc[s] # "none"
             /\ s \in attempts' => alloc'[s] = alloc[s] /\ s \in attempts
             /\ listed'[s] # "absent" /\ state'[s] = "live" => s \in attempts /\ alloc'[s] = alloc[s]
  BY RehydrateIs
<1>3. Boots'
  BY <1>1 DEF Boots
<1>4. HoldsPlace'
  <2> SUFFICES ASSUME NEW s \in Sessions, Holds(s)' PROVE alloc'[s] # "none"
    BY DEF HoldsPlace
  <2>1. pc'[s] \notin Reserving
    BY <1>1 DEF Reserving, Table, Row, StepOf
  <2>2. Open(s)' => s \in attempts'
    BY DEF Table, Row, Settles
  <2> QED
    BY <1>1, <1>2, <2>1, <2>2 DEF Places, Boots, Holds
<1>5. ASSUME Apart PROVE Apart'
  <2>1. cwd' = cwd
    BY <1>1 DEF cwd
  <2> QED
    BY <1>1, <1>2, <1>5, <2>1 DEF Apart, Idles, PathsOverlap
<1> QED
  BY <1>3, <1>4, <1>5 DEF Places

---------------------------------------------------------------------------
(* The claims, the lines on their way, and the registry.                    *)

\* They are the host's: no other step touches them.
LEMMA SamePromise ==
  ASSUME Promised, UNCHANGED <<reqLog, reqs, reserved, reqAppends, reqGlued, host, claimed, outside, input>>,
         preparing' \subseteq preparing, up' = "down" => up = "down" \/ outside,
         up = "down" => up' = "down" \/ outside
  PROVE  Promised'
<1>1. req' = req
  BY DEF req
<1>2. Claims'
  BY <1>1 DEF Promised, Claims, Claiming
<1>3. Attaching'
  BY <1>1 DEF Promised, Attaching, Line
<1>4. Registry'
  BY DEF Promised, Registry
<1> QED
  BY <1>2, <1>3, <1>4 DEF Promised

\* prepare claims what nobody else has.
LEMMA PreparesPromise ==
  ASSUME TypeOK, Promised, NEW s \in Sessions, HostPrepares(s), host[s] = "new",
         UNCHANGED <<up, outside, input>>, preparing' \subseteq preparing, up # "down" \/ outside
  PROVE  Promised'
<1>1. req' = req
  BY DEF req
<1>2. s \notin claimed
  BY DEF Promised, Claims, Claiming
<1>3. /\ UNCHANGED <<reqLog, reqs, reqAppends, reqGlued>> /\ host' = [host EXCEPT ![s] = host'[s]]
      /\ host'[s] \in {"prepared", "aborted"}
      /\ \/ /\ claimed' = claimed /\ reserved' = reserved
            /\ req[s] = NoReq \/ host'[s] = "aborted"
         \/ /\ Claimable(req[s]) /\ reserved' = reserved \cup {req[s]} /\ claimed' = claimed \cup {s}
            /\ req[s] # NoReq /\ host'[s] = "prepared"
  BY DEF HostPrepares, ClaimReq, TypeOK, reqVars
<1>4. Claims'
  <2>1. claimed' = Claiming'
    BY <1>1, <1>2, <1>3 DEF Promised, Claims, Claiming, TypeOK
  <2>2. ASSUME NEW t \in claimed'
        PROVE  req[t] \in reserved' \cap DOMAIN reqs /\ reqs[req[t]].state = "approved"
    BY <1>2, <1>3 DEF Promised, Claims, Claimable, Known
  <2>3. ASSUME NEW t \in claimed', NEW u \in claimed', req[t] = req[u]
        PROVE  t = u
    BY <1>3, <2>3 DEF Promised, Claims, Claimable
  <2> QED
    BY <1>1, <1>3, <2>1, <2>2, <2>3 DEF Claims
<1>5. Attaching'
  <2> SUFFICES ASSUME NEW a \in reqAppends
               PROVE  \E t \in claimed' : host'[t] = "committing" /\ a = [op |-> "attach", line |-> Line(t)]
    BY <1>1, <1>3 DEF Attaching, Line
  <2>1. PICK t \in claimed : host[t] = "committing" /\ a = [op |-> "attach", line |-> Line(t)]
    BY DEF Promised, Attaching
  <2> QED
    BY <1>2, <1>3, <2>1 DEF Promised, Claims, Claiming, TypeOK
<1>6. Registry'
  BY <1>3 DEF Promised, Registry
<1> QED
  BY <1>4, <1>5, <1>6 DEF Promised

\* abort gives up the session's own claim.
LEMMA AbortsPromise ==
  ASSUME TypeOK, Promised, NEW s \in Sessions, HostAborts(s), host[s] \in {"new", "prepared", "aborted"},
         UNCHANGED <<up, outside, input>>, preparing' \subseteq preparing, up # "down" \/ outside
  PROVE  Promised'
<1>1. req' = req
  BY DEF req
<1>2. /\ UNCHANGED <<reqLog, reqs, reqAppends, reqGlued>> /\ host' = [host EXCEPT ![s] = "aborted"]
      /\ claimed' = claimed \ {s}
      /\ reserved' = IF s \in claimed THEN reserved \ {req[s]} ELSE reserved
  BY DEF HostAborts, ReleaseReq, reqVars
<1>3. Claims'
  <2>1. claimed' = Claiming'
    BY <1>1, <1>2 DEF Promised, Claims, Claiming, TypeOK
  <2>2. ASSUME NEW t \in claimed'
        PROVE  req[t] \in reserved' \cap DOMAIN reqs /\ reqs[req[t]].state = "approved"
    BY <1>2 DEF Promised, Claims
  <2> QED
    BY <1>1, <1>2, <2>1, <2>2 DEF Promised, Claims
<1>4. Attaching'
  <2> SUFFICES ASSUME NEW a \in reqAppends
               PROVE  \E t \in claimed' : host'[t] = "committing" /\ a = [op |-> "attach", line |-> Line(t)]
    BY <1>1, <1>2 DEF Attaching, Line
  <2>1. PICK t \in claimed : host[t] = "committing" /\ a = [op |-> "attach", line |-> Line(t)]
    BY DEF Promised, Attaching
  <2> QED
    BY <1>2, <2>1 DEF Promised, Claims, Claiming, TypeOK
<1>5. Registry'
  BY <1>2 DEF Promised, Registry
<1> QED
  BY <1>3, <1>4, <1>5 DEF Promised

\* commit sends its own line on its way.
LEMMA StartsPromise ==
  ASSUME TypeOK, Promised, NEW s \in Sessions, HostStarts(s), host[s] = "prepared",
         UNCHANGED <<up, outside, input, claimed>>, preparing' \subseteq preparing, up # "down" \/ outside
  PROVE  Promised'
<1>1. req' = req
  BY DEF req
<1>2. /\ host' = [host EXCEPT ![s] = "committing"] /\ UNCHANGED <<reqLog, reqs, reserved, reqGlued>>
      /\ reqAppends' = reqAppends \cup
           (IF req[s] = NoReq THEN {} ELSE {[op |-> "attach", line |-> Line(s)]})
  BY StartsIs DEF HostMoves
<1>3. Claims'
  <2>1. claimed' = Claiming'
    BY <1>1, <1>2 DEF Promised, Claims, Claiming, TypeOK
  <2> QED
    BY <1>1, <1>2, <2>1 DEF Promised, Claims
<1>4. Attaching'
  <2> SUFFICES ASSUME NEW a \in reqAppends'
               PROVE  \E t \in claimed : host'[t] = "committing" /\ a = [op |-> "attach", line |-> Line(t)]
    BY <1>1 DEF Attaching, Line
  <2>1. CASE a \in reqAppends
    <3>1. PICK t \in claimed : host[t] = "committing" /\ a = [op |-> "attach", line |-> Line(t)]
      BY <2>1 DEF Promised, Attaching
    <3> QED
      BY <1>2, <3>1 DEF TypeOK
  <2>2. CASE a \notin reqAppends
    <3>1. req[s] # NoReq /\ a = [op |-> "attach", line |-> Line(s)]
      BY <1>2, <2>2
    <3>2. s \in claimed
      BY <3>1 DEF Promised, Claims, Claiming
    <3> QED
      BY <1>2, <3>1, <3>2 DEF TypeOK
  <2> QED
    BY <2>1, <2>2
<1>5. Registry'
  <2>1. IsFiniteSet(reqAppends')
    <3>1. IsFiniteSet(reqAppends)
      BY DEF Promised, Registry
    <3>2. IsFiniteSet(reqAppends \cup {[op |-> "attach", line |-> Line(s)]})
      BY <3>1, FS_AddElement
    <3>3. reqAppends' \in {reqAppends, reqAppends \cup {[op |-> "attach", line |-> Line(s)]}}
      BY <1>2
    <3> QED
      BY <3>1, <3>2, <3>3
  <2> QED
    BY <1>2, <2>1 DEF Promised, Registry
<1> QED
  BY <1>3, <1>4, <1>5 DEF Promised

\* What the registry and the file hold once the line has come back.
LEMMA CommittedLine ==
  ASSUME TypeOK, Promised, NEW s \in claimed, Line(s) \in Lines,
         NEW o \in Appends(reqLog, Line(s), FALSE), reqLog' = o.log,
         reqs' = Recorded(Line(s), o.ok),
         reqGlued' = IF o.ok /\ Glues(reqLog) THEN reqGlued \cup {req[s]} ELSE reqGlued
  PROVE  /\ DOMAIN reqs' = DOMAIN reqs
         /\ \A r \in DOMAIN reqs : r # req[s] => reqs'[r] = reqs[r]
         /\ reqs'[req[s]] = IF o.ok THEN Line(s) ELSE reqs[req[s]]
         /\ \A r : r # req[s] => Keeps(reqLog, reqLog', r)
         /\ ~o.ok => Keeps(reqLog, reqLog', req[s])
         /\ o.ok /\ req[s] \notin reqGlued' =>
              req[s] \in Ids(reqLog') /\ Latest(reqLog', req[s]) = Line(s)
<1>1. Line(s).id = req[s] /\ req[s] \in DOMAIN reqs
  BY DEF Line, Requisition, Promised, Claims
<1>2. /\ DOMAIN reqs' = DOMAIN reqs
      /\ \A r \in DOMAIN reqs : r # req[s] => reqs'[r] = reqs[r]
      /\ reqs'[req[s]] = IF o.ok THEN Line(s) ELSE reqs[req[s]]
  BY <1>1 DEF Recorded, With
<1>3. reqLog \in [lines : Seq(Lines), torn : BOOLEAN]
  BY DEF TypeOK
<1>4. PICK fsync \in BOOLEAN, line \in Lines : fsync = FALSE /\ line = Line(s)
  OBVIOUS
<1>5. o \in Appends(reqLog, line, fsync)
  BY <1>4
<1>6. \A id : id # line.id => Keeps(reqLog, o.log, id)
  BY <1>3, <1>5, AppendSettles
<1>7. o.ok /\ ~Glues(reqLog) => line.id \in Ids(o.log) /\ Latest(o.log, line.id) = line
  BY <1>3, <1>5, AppendSettles
<1>8. ~o.ok /\ ~fsync => Keeps(reqLog, o.log, line.id)
  BY <1>3, <1>5, AppendSettles
<1> QED
  BY <1>1, <1>2, <1>4, <1>6, <1>7, <1>8

LEMMA HostCommitsPromise ==
  ASSUME TypeOK, Promised, NEW s \in Sessions, HostCommits(s)
  PROVE  Promised'
<1>1. /\ host[s] = "committing" /\ claimed' = claimed \ {s}
      /\ host' = [host EXCEPT ![s] = host'[s]] /\ host'[s] \in {"committed", "aborted"}
      /\ UNCHANGED <<up, outside, input, preparing>> /\ (up # "down" \/ outside)
  BY HostCommitsIs DEF HostCommits, bootVars
<1>2. req' = req
  BY <1>1 DEF req
<1>3. claimed' = Claiming'
  BY <1>1, <1>2 DEF Promised, Claims, Claiming, TypeOK
<1>4. CASE req[s] = NoReq /\ UNCHANGED reqVars
  <2>1. s \notin claimed
    BY <1>4 DEF Promised, Claims, Claiming
  <2>2. Claims'
    BY <1>1, <1>2, <1>3, <1>4, <2>1 DEF Promised, Claims, reqVars
  <2>3. Attaching'
    <3> SUFFICES ASSUME NEW a \in reqAppends
        PROVE  \E t \in claimed' : host'[t] = "committing" /\ a = [op |-> "attach", line |-> Line(t)]
      BY <1>2, <1>4 DEF Attaching, Line, reqVars
    <3>1. PICK t \in claimed : host[t] = "committing" /\ a = [op |-> "attach", line |-> Line(t)]
      BY DEF Promised, Attaching
    <3>2. t \in claimed' /\ host'[t] = "committing"
      BY <1>1, <2>1, <3>1 DEF TypeOK
    <3> QED
      BY <3>1, <3>2
  <2>4. Registry'
    BY <1>1, <1>4 DEF Promised, Registry, reqVars
  <2> QED
    BY <1>1, <2>2, <2>3, <2>4 DEF Promised
<1>5. CASE ~(req[s] = NoReq /\ UNCHANGED reqVars)
  <2>1. /\ s \in claimed /\ Line(s) \in Lines
        /\ reqAppends' = reqAppends \ {[op |-> "attach", line |-> Line(s)]}
        /\ reserved' = reserved \ {req[s]}
    BY <1>5, HostCommitsIs
  <2>2. PICK o \in Appends(reqLog, Line(s), FALSE) :
          /\ reqLog' = o.log /\ reqs' = Recorded(Line(s), o.ok)
          /\ reqGlued' = IF o.ok /\ Glues(reqLog) THEN reqGlued \cup {req[s]} ELSE reqGlued
    BY <1>5, HostCommitsIs
  <2>3. /\ DOMAIN reqs' = DOMAIN reqs
        /\ \A r \in DOMAIN reqs : r # req[s] => reqs'[r] = reqs[r]
        /\ reqs'[req[s]] = IF o.ok THEN Line(s) ELSE reqs[req[s]]
        /\ \A r : r # req[s] => Keeps(reqLog, reqLog', r)
        /\ ~o.ok => Keeps(reqLog, reqLog', req[s])
        /\ o.ok /\ req[s] \notin reqGlued' =>
             req[s] \in Ids(reqLog') /\ Latest(reqLog', req[s]) = Line(s)
        /\ reqGlued \subseteq reqGlued'
    BY <2>1, <2>2, CommittedLine
  <2>4. ASSUME NEW t \in claimed'
        PROVE  /\ t # s /\ req[t] # req[s] /\ req[t] \in reserved' \cap DOMAIN reqs'
               /\ reqs'[req[t]].state = "approved"
    BY <1>1, <2>1, <2>3 DEF Promised, Claims
  <2>5. Claims'
    BY <1>1, <1>2, <1>3, <2>4 DEF Promised, Claims
  <2>6. Attaching'
    <3> SUFFICES ASSUME NEW a \in reqAppends'
        PROVE  \E t \in claimed' : host'[t] = "committing" /\ a = [op |-> "attach", line |-> Line(t)]
      BY <1>2 DEF Attaching, Line
    <3>1. PICK t \in claimed : host[t] = "committing" /\ a = [op |-> "attach", line |-> Line(t)]
      BY <2>1 DEF Promised, Attaching
    <3>2. t # s
      BY <2>1, <3>1
    <3> QED
      BY <1>1, <3>1, <3>2 DEF TypeOK
  <2>7. Registry'
    <3>1. IsFiniteSet(reqAppends')
      <4>1. IsFiniteSet(reqAppends)
        BY DEF Promised, Registry
      <4>2. IsFiniteSet(reqAppends \ {[op |-> "attach", line |-> Line(s)]})
        BY <4>1, FS_RemoveElement
      <4> QED
        BY <2>1, <4>2
    <3>2. \A r \in DOMAIN reqs' : reqs'[r] \in Lines /\ reqs'[r].id = r
      BY <2>1, <2>3 DEF Promised, Registry, Line, Requisition
    <3>3. ASSUME NEW r \in Reqs \ reqGlued'
          PROVE  r \in Ids(reqLog') /\ r \in DOMAIN reqs' /\ reqs'[r] = Latest(reqLog', r)
      <4>1. r \in Ids(reqLog) /\ r \in DOMAIN reqs /\ reqs[r] = Latest(reqLog, r)
        BY <1>1, <2>3, <3>3 DEF Promised, Registry
      <4>2. CASE r # req[s] \/ ~o.ok
        BY <2>3, <4>1, <4>2 DEF Keeps
      <4>3. CASE r = req[s] /\ o.ok
        BY <2>3, <4>1, <4>3
      <4> QED
        BY <4>2, <4>3
    <3> QED
      BY <1>1, <3>1, <3>2, <3>3 DEF Registry
  <2> QED
    BY <1>1, <2>5, <2>6, <2>7 DEF Promised
<1> QED
  BY <1>4, <1>5

\* An inside host forgets everything, ...
LEMMA CrashPromise ==
  ASSUME TypeOK, Promised, Crash
  PROVE  Promised'
<1>1. UNCHANGED <<outside, input>> /\ up # "down" /\ up' = "down"
  BY DEF Crash
<1>2. CASE outside
  <2>1. UNCHANGED <<reqLog, reqs, reserved, reqAppends, reqGlued, host, claimed, preparing>>
    BY <1>2 DEF Crash, reqVars, hostVars
  <2> QED
    BY <1>1, <1>2, <2>1, SamePromise
<1>3. CASE ~outside
  <2> DEFINE lines == {a.line : a \in reqAppends}
  <2>1. /\ host' = [s \in Sessions |-> "new"] /\ claimed' = {} /\ preparing' = {}
        /\ reqs' = << >> /\ reserved' = {} /\ reqAppends' = {} /\ reqGlued' = reqGlued
        /\ reqLog' \in Interrupted(reqLog, lines)
    BY <1>3 DEF Crash, ReqCrash
  <2>2. Claims' /\ Attaching'
    BY <2>1 DEF Claims, Claiming, Attaching
  <2>3. Reqs \ reqGlued \subseteq Ids(reqLog')
    <3>1. reqLog \in [lines : Seq(Lines), torn : BOOLEAN] /\ lines \in SUBSET Lines
      BY DEF TypeOK
    <3>2. IsFiniteSet(lines)
      BY LinesOnTheirWay DEF Promised, Registry
    <3>3. \A id : Keeps(reqLog, reqLog', id) \/ id \in Ids(reqLog')
      <4> HIDE DEF lines
      <4> QED
        BY <2>1, <3>1, <3>2, InterruptedOutcome
    <3> QED
      BY <3>3 DEF Promised, Registry, Keeps
  <2>4. Registry'
    BY <1>1, <1>3, <2>1, <2>3, FS_EmptySet DEF Registry
  <2> QED
    BY <2>1, <2>2, <2>4 DEF Promised
<1> QED
  BY <1>2, <1>3

\* ... and boot reads the registry back.
LEMMA RecoverPromise ==
  ASSUME TypeOK, Promised, Recover
  PROVE  Promised'
<1>1. UNCHANGED <<outside, input, host, claimed, preparing>> /\ up = "down" /\ up' = "booting"
  BY DEF Recover, hostVars
<1>2. CASE outside
  <2>1. UNCHANGED <<reqLog, reqs, reserved, reqAppends, reqGlued>>
    BY <1>2 DEF Recover, reqVars
  <2> QED
    BY <1>1, <1>2, <2>1, SamePromise
<1>3. CASE ~outside
  <2>1. /\ reqs' = [r \in Ids(reqLog) |-> Latest(reqLog, r)]
        /\ UNCHANGED <<reqLog, reserved, reqAppends, reqGlued>>
    BY <1>3 DEF Recover, ReqBoot
  <2>2. claimed = {} /\ reqAppends = {}
    BY <1>1, <1>3 DEF Promised, Registry, Claims, Claiming
  <2>3. Claims'
    <3>1. req' = req
      BY <1>1 DEF req
    <3>2. claimed' = Claiming'
      BY <1>1, <3>1 DEF Promised, Claims, Claiming
    <3> QED
      BY <1>1, <2>2, <3>2 DEF Claims
  <2>4. Attaching'
    BY <2>1, <2>2 DEF Attaching
  <2>5. Registry'
    <3>1. ASSUME NEW r \in Ids(reqLog) PROVE Latest(reqLog, r) \in Lines /\ Latest(reqLog, r).id = r
      <4>1. reqLog.lines \in Seq(Lines)
        BY DEF TypeOK
      <4> QED
        BY <4>1, LatestIsLine
    <3>2. IsFiniteSet(reqAppends) /\ Reqs \ reqGlued \subseteq Ids(reqLog)
      BY DEF Promised, Registry
    <3> QED
      BY <1>1, <2>1, <3>1, <3>2 DEF Registry
  <2> QED
    BY <1>1, <2>3, <2>4, <2>5 DEF Promised
<1> QED
  BY <1>2, <1>3

\* No step of a create breaks a promise, ...
LEMMA CreateStepPromise ==
  ASSUME TypeOK, Table, Promised, NEW s \in Sessions, CreateStep(s)
  PROVE  Promised'
<1>1. up = "up" /\ up' = "up" /\ UNCHANGED <<outside, input>>
  BY DEF CreateStep, Reserve, RecordAttempt, Prepare, PrepareReturns, PrepareTimesOut, MakeAdapter,
     StoreSession, InitCheckpoints, Commit, CommitReturns, CommitTimesOut, Cleanup, Unwind, Publish,
     At, Serving, bootVars
<1>2. CASE UNCHANGED <<reqVars, host, claimed>> /\ preparing' = preparing
  BY <1>1, <1>2, SamePromise DEF reqVars
<1>3. CASE Prepare(s)
  <2>1. host[s] = "new"
    BY <1>3 DEF Prepare, At, Table, Row, HostOf
  <2>2. CASE outside
    <3>1. UNCHANGED <<reqVars, host, claimed>>
      BY <1>3, <2>2 DEF Prepare
    <3>2. Claims' /\ Attaching' /\ Registry'
      <4>1. req' = req
        BY <1>1 DEF req
      <4> QED
        BY <1>1, <3>1, <4>1 DEF Promised, Claims, Claiming, Attaching, Line, Registry, reqVars
    <3> QED
      BY <1>1, <2>2, <3>2 DEF Promised
  <2>3. CASE ~outside
    BY <1>1, <1>3, <2>1, <2>3, PreparesPromise DEF Prepare
  <2> QED
    BY <2>2, <2>3
<1>4. ASSUME NEW step, Aborts(s, step), host[s] \in {"new", "prepared", "aborted"},
             preparing' = preparing
      PROVE  Promised'
  BY <1>1, <1>2, <1>4, AbortsPromise DEF Aborts
<1>5. CASE HostStarts(s) /\ host[s] = "prepared" /\ claimed' = claimed /\ preparing' = preparing
  BY <1>1, <1>5, StartsPromise
<1>6. CASE Reserve(s) \/ RecordAttempt(s) \/ InitCheckpoints(s) \/ CommitTimesOut(s)
           \/ Cleanup(s) \/ Unwind(s) \/ Publish(s)
  BY <1>2, <1>6 DEF Reserve, RecordAttempt, InitCheckpoints, CommitTimesOut, Cleanup, Unwind,
     Publish, hostVars
<1>11. CASE PrepareReturns(s)
  BY <1>2, <1>4, <1>11 DEF PrepareReturns
<1>12. CASE CommitReturns(s)
  BY <1>2, <1>4, <1>12 DEF CommitReturns, Outcome
<1>7. CASE PrepareTimesOut(s)
  BY <1>4, <1>7 DEF PrepareTimesOut, At, Table, Row, HostOf
<1>8. CASE MakeAdapter(s)
  BY <1>2, <1>4, <1>8 DEF MakeAdapter, At, Table, Row, HostOf
<1>9. CASE StoreSession(s)
  BY <1>2, <1>4, <1>9 DEF StoreSession, At, Table, Row, HostOf
<1>10. CASE Commit(s)
  BY <1>2, <1>5, <1>10 DEF Commit, At, Table, Row, HostOf
<1> QED
  BY <1>3, <1>6, <1>7, <1>8, <1>9, <1>10, <1>11, <1>12 DEF CreateStep

\* ... nor does one of the host, ...
LEMMA HostStepPromise ==
  ASSUME TypeOK, Table, Promised, NEW s \in Sessions, HostStep(s)
  PROVE  Promised'
<1>1. CASE LatePrepare(s)
  <2>1. UNCHANGED <<up, outside, input>> /\ preparing' \subseteq preparing /\ s \in preparing
    BY <1>1 DEF LatePrepare, bootVars
  <2>2. outside
    BY <2>1 DEF Promised
  <2>3. CASE Undone(s)
    <3>1. UNCHANGED <<reqVars, host, claimed>>
      BY <1>1, <2>3 DEF LatePrepare
    <3> QED
      BY <2>1, <2>2, <3>1, SamePromise DEF reqVars
  <2>4. CASE ~Undone(s)
    <3>1. HostPrepares(s) /\ host[s] = "new"
      BY <1>1, <2>1, <2>4 DEF LatePrepare, Undone, Table, Row, HostOf
    <3> QED
      BY <2>1, <2>2, <3>1, PreparesPromise
  <2> QED
    BY <2>3, <2>4
<1>2. CASE LateCommit(s)
  BY <1>2, StartsPromise DEF LateCommit, bootVars
<1>3. CASE HostCommits(s)
  BY <1>3, HostCommitsPromise
<1>4. CASE LateAbort(s)
  BY <1>4, AbortsPromise DEF LateAbort, Table, Row, Settles, bootVars
<1> QED
  BY <1>1, <1>2, <1>3, <1>4 DEF HostStep

\* ... nor any other but a crash and a boot.
LEMMA OtherPromise ==
  ASSUME Promised, (\E s \in Sessions : End(s) \/ AskHost(s) \/ NoAnswer(s)) \/ Rehydrate
  PROVE  Promised'
<1>1. /\ UNCHANGED <<reqVars, host, claimed, preparing, outside, input>>
      /\ up' = up \/ (up # "down" /\ up' # "down")
  BY DEF End, AskHost, NoAnswer, Rehydrate, hostVars, bootVars
<1> QED
  BY <1>1, SamePromise DEF reqVars

---------------------------------------------------------------------------
(* The payments.                                                            *)

\* What the file promises stays promised: its lines are the ones it had, and
\* those of sessions that deliver.
LEMMA LinesDeliver ==
  ASSUME TypeOK, Payments, \A t \in Sessions : Delivered(t) => Delivered(t)',
         \A i \in DOMAIN reqLog'.lines :
           \/ \E j \in DOMAIN reqLog.lines : reqLog'.lines[i] = reqLog.lines[j]
           \/ \E t \in Sessions : Delivered(t)' /\ reqLog'.lines[i] = Line(t)
  PROVE  (\A i \in DOMAIN reqLog.lines : Delivers(reqLog.lines[i]))'
<1> SUFFICES ASSUME NEW i \in DOMAIN reqLog'.lines, NEW line, line = reqLog'.lines[i]
             PROVE  Delivers(line)'
  OBVIOUS
<1>1. ASSUME NEW j \in DOMAIN reqLog.lines, line = reqLog.lines[j] PROVE Delivers(line)'
  <2>1. line \in Lines
    <3>1. reqLog.lines \in Seq(Lines)
      BY DEF TypeOK
    <3> QED
      BY <1>1, <3>1, LenProperties, ElementOfSeq
  <2>2. line.session # NoSession => line.session \in Sessions
    BY <2>1 DEF Lines
  <2> QED
    BY <1>1, <2>2 DEF Payments, Delivers
<1>2. ASSUME NEW t \in Sessions, Delivered(t)', line = Line(t) PROVE Delivers(line)'
  <2>1. line.state = "consumed" /\ line.session = t /\ t # NoSession
    BY <1>2, CreateAssumption DEF Line, Requisition
  <2> QED
    BY <1>2, <2>1 DEF Delivers
<1> QED
  BY <1>1, <1>2

\* Nobody counts on this session who did not, and what it delivered stays.
Keeping(s) ==
  /\ CountedOn(s)' => CountedOn(s)
  /\ Delivered(s) => Delivered(s)'
  /\ listed'[s] = "visible" => s \notin attempts' /\ meta'[s] # "none"

LEMMA KeepingPayments ==
  ASSUME Payments, UNCHANGED <<reqLog, reqGlued, input>>, \A s \in Sessions : Keeping(s),
         TypeOK
  PROVE  Payments'
<1>1. req' = req
  BY DEF req
<1>2. \A s \in Sessions : CountedOn(s)' => Paid(s)'
  BY <1>1 DEF Payments, Keeping, Paid
<1>3. (\A i \in DOMAIN reqLog.lines : Delivers(reqLog.lines[i]))'
  BY LinesDeliver DEF Keeping
<1>4. \A s \in Sessions : listed'[s] = "visible" => s \notin attempts' /\ meta'[s] # "none"
  BY DEF Keeping
<1> QED
  BY <1>2, <1>3, <1>4 DEF Payments

\* A session whose row stays is one of those.
LEMMA RowKeeping ==
  ASSUME Payments, NEW s \in Sessions, SameRow(s), s \in confirmed' => s \in confirmed,
         outside' = outside
  PROVE  Keeping(s)
BY DEF Payments, SameRow, Keeping, CountedOn, Delivered

\* No step of a create takes back what was paid for, ...
LEMMA CreateStepKeeping ==
  ASSUME TypeOK, Table, Payments, NEW s \in Sessions, CreateStep(s)
  PROVE  Keeping(s)
<1> USE DEF Keeping, CountedOn, Delivered, TypeOK, Table, Row, StepOf, HostOf, Unstored, Stored,
            At, Serving, bootVars
<1>1. CASE Reserve(s)
  BY <1>1 DEF Reserve, Goto, hostVars, diskVars, entryVars
<1>2. CASE RecordAttempt(s)
  BY <1>2 DEF RecordAttempt, Goto, Return, hostVars, entryVars
<1>3. CASE Prepare(s)
  <2>1. CASE outside
    BY <1>3, <2>1 DEF Prepare, Goto, reqVars, diskVars, entryVars
  <2>2. CASE ~outside
    <3>1. HostPrepares(s) /\ UNCHANGED <<diskVars, entryVars, bootVars>>
      BY <1>3, <2>2 DEF Prepare
    <3>2. host' = [host EXCEPT ![s] = host'[s]] /\ host'[s] \in {"prepared", "aborted"}
      BY <3>1 DEF HostPrepares
    <3>3. pc' = [pc EXCEPT ![s] = "preparing"] /\ out' = out /\ pc[s] = "prepare"
      BY <1>3 DEF Prepare, Goto
    <3> QED
      BY <3>1, <3>2, <3>3 DEF diskVars, entryVars
  <2> QED
    BY <2>1, <2>2
<1>4. CASE PrepareReturns(s)
  BY <1>4 DEF PrepareReturns, Aborts, HostAborts, Goto, Return, diskVars, entryVars
<1>5. CASE PrepareTimesOut(s)
  BY <1>5 DEF PrepareTimesOut, Aborts, HostAborts, Goto, Return, diskVars, entryVars
<1>6. CASE MakeAdapter(s)
  BY <1>6 DEF MakeAdapter, Aborts, HostAborts, Goto, Return, diskVars, entryVars
<1>7. CASE StoreSession(s)
  BY <1>7 DEF StoreSession, Aborts, HostAborts, Goto, Return, entryVars
<1>8. CASE InitCheckpoints(s)
  BY <1>8 DEF InitCheckpoints, Goto, hostVars
<1>9. CASE Commit(s)
  BY <1>9 DEF Commit, HostStarts, Goto, diskVars, entryVars
<1>10. CASE CommitReturns(s)
  BY <1>10 DEF CommitReturns, Outcome, Aborts, HostAborts, Goto, Return, diskVars
<1>11. CASE CommitTimesOut(s)
  BY <1>11 DEF CommitTimesOut, Return, hostVars, diskVars, entryVars
<1>12. CASE Cleanup(s)
  BY <1>12 DEF Cleanup, Goto, Return, hostVars, entryVars
<1>13. CASE Unwind(s)
  BY <1>13 DEF Unwind, AttemptRemoved, Return, hostVars, entryVars
<1>14. CASE Publish(s)
  BY <1>14 DEF Publish, AttemptRemoved, Return, hostVars, Payments
<1> QED
  BY <1>1, <1>2, <1>3, <1>4, <1>5, <1>6, <1>7, <1>8, <1>9, <1>10, <1>11, <1>12, <1>13, <1>14
     DEF CreateStep

\* ... nor does a slow prepare, abort or commit, an end or boot's question.
LEMMA OtherKeeping ==
  ASSUME TypeOK, Table, Places, Promised, Payments, NEW s \in Sessions,
         LatePrepare(s) \/ LateAbort(s) \/ LateCommit(s) \/ End(s) \/ AskHost(s) \/ NoAnswer(s)
  PROVE  Keeping(s)
<1> USE DEF Keeping, CountedOn, Delivered, TypeOK, Table, Row, HostOf
<1>1. CASE LatePrepare(s)
  BY <1>1 DEF LatePrepare, Undone, HostPrepares, Promised, Payments, diskVars, entryVars, bootVars
<1>6. CASE LateAbort(s)
  BY <1>6 DEF LateAbort, HostAborts, Settles, Payments, diskVars, entryVars, bootVars
<1>2. CASE LateCommit(s)
  BY <1>2 DEF LateCommit, HostStarts, Payments, diskVars, entryVars, bootVars
<1>3. CASE End(s)
  BY <1>3 DEF End, Payments, hostVars, bootVars
<1>4. CASE AskHost(s)
  <2>1. listed'[s] = "absent"
    BY <1>4 DEF AskHost, Places, Boots, entryVars
  <2> QED
    BY <1>4, <2>1 DEF AskHost, Refused, hostVars
<1>5. CASE NoAnswer(s)
  BY <1>5 DEF NoAnswer, Payments, hostVars, diskVars, entryVars
<1> QED
  BY <1>1, <1>2, <1>3, <1>4, <1>5, <1>6

\* The newest line of a requisition is one of the file's, and is kept to.
LEMMA NewestDelivers ==
  ASSUME TypeOK, Payments, NEW r \in Ids(reqLog)
  PROVE  Delivers(Latest(reqLog, r))
<1>1. reqLog.lines \in Seq({reqLog.lines[i] : i \in DOMAIN reqLog.lines})
  <2>1. reqLog.lines \in Seq(Lines)
    BY DEF TypeOK
  <2>2. DOMAIN reqLog.lines = 1..Len(reqLog.lines) /\ Len(reqLog.lines) \in Nat
    BY <2>1, LenProperties
  <2>3. reqLog.lines = [i \in 1..Len(reqLog.lines) |-> reqLog.lines[i]]
    BY <2>1, <2>2
  <2> QED
    BY <2>2, <2>3, SeqDef
<1>2. Latest(reqLog, r) \in {reqLog.lines[i] : i \in DOMAIN reqLog.lines}
  BY <1>1, LatestIsLine
<1> QED
  BY <1>2 DEF Payments

\* Who holds a claim holds it on a requisition nobody has been created for.
LEMMA ClaimedIsUnpaid ==
  ASSUME TypeOK, Promised, Payments, up # "down" \/ outside, NEW s \in claimed, NEW t \in Sessions,
         CountedOn(t), req[t] = req[s]
  PROVE  req[t] \in reqGlued
<1> SUFFICES ASSUME req[t] \notin reqGlued PROVE FALSE
  OBVIOUS
<1>1. req[s] # NoReq /\ req[s] \in Reqs
  <2>1. s \in Sessions /\ req[s] # NoReq
    BY DEF Promised, Claims, Claiming
  <2> QED
    BY <2>1, ReqType
<1>2. /\ req[s] \in Ids(reqLog) /\ reqs[req[s]] = Latest(reqLog, req[s])
      /\ reqs[req[s]].state = "approved"
  BY <1>1 DEF Promised, Registry, Claims
<1>3. Latest(reqLog, req[s]).session = t
  BY <1>1 DEF Payments, Paid
<1>4. Delivers(Latest(reqLog, req[s]))
  BY <1>2, NewestDelivers
<1>5. t # NoSession
  BY CreateAssumption
<1> QED
  BY <1>2, <1>3, <1>4, <1>5 DEF Delivers

\* A line that comes back pays for the session it names, ...
LEMMA HostCommitsPayments ==
  ASSUME TypeOK, Table, Promised, Payments, NEW s \in Sessions, HostCommits(s)
  PROVE  Payments'
<1>1. /\ host[s] = "committing" /\ host' = [host EXCEPT ![s] = host'[s]]
      /\ host'[s] \in {"committed", "aborted"} /\ (up # "down" \/ outside)
      /\ UNCHANGED <<preparing, attempts, meta, listed, confirmed, input, pc, outside>>
  BY HostCommitsIs DEF HostCommits, diskVars, entryVars, bootVars
<1>2. req' = req
  BY <1>1 DEF req
<1>3. ASSUME NEW t \in Sessions
      PROVE  /\ CountedOn(t)' => CountedOn(t) \/ (t = s /\ host'[s] = "committed")
             /\ Delivered(t) => Delivered(t)'
             /\ listed'[t] = "visible" => t \notin attempts' /\ meta'[t] # "none"
  BY <1>1 DEF CountedOn, Delivered, Payments, TypeOK
<1>4. CASE req[s] = NoReq /\ UNCHANGED reqVars
  <2>1. \A t \in Sessions : CountedOn(t)' => Paid(t)'
    BY <1>2, <1>3, <1>4 DEF Payments, Paid, reqVars
  <2>2. (\A i \in DOMAIN reqLog.lines : Delivers(reqLog.lines[i]))'
    BY <1>3, <1>4, LinesDeliver DEF reqVars
  <2> QED
    BY <1>3, <1>4, <2>1, <2>2 DEF Payments, reqVars
<1>5. CASE ~(req[s] = NoReq /\ UNCHANGED reqVars)
  <2>1. s \in claimed /\ Line(s) \in Lines
    BY <1>5, HostCommitsIs
  <2>2. PICK o \in Appends(reqLog, Line(s), FALSE) :
          /\ reqLog' = o.log /\ reqs' = Recorded(Line(s), o.ok)
          /\ host'[s] = (IF o.ok THEN "committed" ELSE "aborted")
          /\ reqGlued' = IF o.ok /\ Glues(reqLog) THEN reqGlued \cup {req[s]} ELSE reqGlued
    BY <1>5, HostCommitsIs
  <2>3. /\ \A r : r # req[s] => Keeps(reqLog, reqLog', r)
        /\ ~o.ok => Keeps(reqLog, reqLog', req[s])
        /\ o.ok /\ req[s] \notin reqGlued' =>
             req[s] \in Ids(reqLog') /\ Latest(reqLog', req[s]) = Line(s)
        /\ reqGlued \subseteq reqGlued'
    BY <2>1, <2>2, CommittedLine
  <2>4. ASSUME NEW t \in Sessions, CountedOn(t)', req[t] \notin {NoReq} \cup reqGlued'
        PROVE  req[t] \in Ids(reqLog') /\ Latest(reqLog', req[t]).session = t
    <3>1. CASE t = s /\ o.ok
      BY <2>3, <2>4, <3>1 DEF Line, Requisition
    <3>2. CASE ~(t = s /\ o.ok)
      <4>1. CountedOn(t) /\ req[t] \notin {NoReq} \cup reqGlued
        BY <1>3, <2>2, <2>3, <2>4, <3>2
      <4>2. req[t] # req[s]
        BY <1>1, <2>1, <4>1, ClaimedIsUnpaid
      <4> QED
        BY <2>3, <4>1, <4>2 DEF Keeps, Payments, Paid
    <3> QED
      BY <3>1, <3>2
  <2>5. o.ok => Delivered(s)'
    BY <1>1, <2>2 DEF Delivered, Table, Row, HostOf
  <2>6. ASSUME NEW i \in DOMAIN reqLog'.lines
        PROVE  \/ \E j \in DOMAIN reqLog.lines : reqLog'.lines[i] = reqLog.lines[j]
               \/ \E t \in Sessions : Delivered(t)' /\ reqLog'.lines[i] = Line(t)
    <3>1. reqLog \in [lines : Seq(Lines), torn : BOOLEAN]
      BY DEF TypeOK
    <3>2. o.log.lines = reqLog.lines \/ (o.ok /\ o.log.lines = Append(reqLog.lines, Line(s)))
      <4>1. o.ok \in BOOLEAN /\ o.log.lines \in {reqLog.lines, Append(reqLog.lines, Line(s))}
        BY <2>1, <3>1, AppendOutcome
      <4>2. PICK fsync \in BOOLEAN : fsync = FALSE
        OBVIOUS
      <4>3. o \in Appends(reqLog, Line(s), fsync)
        BY <4>2
      <4>4. ~o.ok /\ ~fsync => o.log.lines = reqLog.lines
        BY <2>1, <3>1, <4>3, AppendOutcome
      <4> QED
        BY <4>1, <4>2, <4>4
    <3>3. CASE o.log.lines = reqLog.lines
      BY <2>2, <3>3
    <3>4. CASE o.ok /\ o.log.lines = Append(reqLog.lines, Line(s))
      <4>1. /\ DOMAIN reqLog.lines = 1..Len(reqLog.lines) /\ Len(reqLog.lines) \in Nat
            /\ DOMAIN reqLog'.lines = 1..(Len(reqLog.lines) + 1)
            /\ \A k \in 1..Len(reqLog.lines) : reqLog'.lines[k] = reqLog.lines[k]
            /\ reqLog'.lines[Len(reqLog.lines) + 1] = Line(s)
        BY <2>1, <2>2, <3>1, <3>4, AppendProperties, LenProperties
      <4> QED
        BY <2>5, <3>4, <4>1
    <3> QED
      BY <3>2, <3>3, <3>4
  <2>7. (\A i \in DOMAIN reqLog.lines : Delivers(reqLog.lines[i]))'
    BY <1>3, <2>6, LinesDeliver
  <2> QED
    BY <1>2, <1>3, <2>4, <2>7 DEF Payments, Paid
<1> QED
  BY <1>4, <1>5

\* ... and one a process died in was of a session that is there to stay.
LEMMA CrashPayments ==
  ASSUME TypeOK, Table, Promised, Payments, Crash
  PROVE  Payments'
<1>1. /\ up # "down" /\ confirmed' = {}
      /\ pc' = [s \in Sessions |-> IF pc[s] = "idle" THEN "idle" ELSE "returned"]
      /\ listed' = [s \in Sessions |-> "absent"]
      /\ UNCHANGED <<attempts, meta, input, outside>>
  BY DEF Crash, diskVars
<1>2. CASE outside
  <2>1. UNCHANGED <<reqVars, hostVars>>
    BY <1>2 DEF Crash
  <2>2. \A s \in Sessions : Keeping(s)
    BY <1>1, <2>1 DEF Keeping, CountedOn, Delivered, hostVars
  <2> QED
    BY <1>1, <2>1, <2>2, KeepingPayments DEF reqVars
<1>3. CASE ~outside
  <2> DEFINE lines == {a.line : a \in reqAppends}
  <2>1. /\ host' = [s \in Sessions |-> "new"] /\ preparing' = {} /\ reqGlued' = reqGlued
        /\ reqLog' \in Interrupted(reqLog, lines)
    BY <1>3 DEF Crash, ReqCrash
  <2>2. /\ reqLog \in [lines : Seq(Lines), torn : BOOLEAN] /\ lines \in SUBSET Lines
        /\ IsFiniteSet(lines)
    BY LinesOnTheirWay DEF Promised, Registry, TypeOK
  <2>3. /\ \A id : \/ Keeps(reqLog, reqLog', id)
                   \/ id \in Ids(reqLog')
                      /\ Latest(reqLog', id) \in {line \in lines : line.id = id}
        /\ \A i \in DOMAIN reqLog'.lines :
             reqLog'.lines[i] \in lines
               \/ \E j \in DOMAIN reqLog.lines : reqLog'.lines[i] = reqLog.lines[j]
    <3> HIDE DEF lines
    <3>1. \A id : \/ Keeps(reqLog, reqLog', id)
                  \/ id \in Ids(reqLog')
                     /\ Latest(reqLog', id) \in {line \in lines : line.id = id}
      BY <2>1, <2>2, InterruptedOutcome
    <3>2. \A i \in DOMAIN reqLog'.lines :
             reqLog'.lines[i] \in lines
               \/ \E j \in DOMAIN reqLog.lines : reqLog'.lines[i] = reqLog.lines[j]
      BY <2>1, <2>2, InterruptedLines
    <3> QED
      BY <3>1, <3>2
  <2>4. ASSUME NEW line \in lines
        PROVE  \E t \in claimed : host[t] = "committing" /\ line = Line(t)
    <3>1. PICK a \in reqAppends : line = a.line
      OBVIOUS
    <3>2. PICK t \in claimed : host[t] = "committing" /\ a = [op |-> "attach", line |-> Line(t)]
      BY DEF Promised, Attaching
    <3> QED
      BY <3>1, <3>2
  <2>5. claimed \subseteq Sessions
    BY DEF TypeOK
  <2>6. ASSUME NEW t \in Sessions, Delivered(t) \/ host[t] = "committing" PROVE Delivered(t)'
    <3>1. meta[t] # "none" /\ pc[t] # "idle"
      BY <2>6 DEF Delivered, Table, Row, HostOf, StepOf, Unstored
    <3> QED
      BY <1>1, <1>3, <2>1, <3>1 DEF Delivered
  <2>7. (\A i \in DOMAIN reqLog.lines : Delivers(reqLog.lines[i]))'
    <3> HIDE DEF lines
    <3>1. \A i \in DOMAIN reqLog'.lines :
           \/ \E j \in DOMAIN reqLog.lines : reqLog'.lines[i] = reqLog.lines[j]
           \/ \E t \in Sessions : Delivered(t)' /\ reqLog'.lines[i] = Line(t)
      BY <2>3, <2>4, <2>5, <2>6
    <3> QED
      BY <2>6, <3>1, LinesDeliver
  <2>8. ASSUME NEW s \in Sessions, CountedOn(s)', req[s] \notin {NoReq} \cup reqGlued
        PROVE  req[s] \in Ids(reqLog') /\ Latest(reqLog', req[s]).session = s
    <3>1. CountedOn(s)
      BY <1>1, <2>1, <2>8 DEF CountedOn
    <3>2. req[s] \in Ids(reqLog) /\ Latest(reqLog, req[s]).session = s
      BY <2>8, <3>1 DEF Payments, Paid
    <3>3. CASE Keeps(reqLog, reqLog', req[s])
      BY <3>2, <3>3 DEF Keeps
    <3>4. CASE Latest(reqLog', req[s]) \in {line \in lines : line.id = req[s]}
      <4>1. PICK t \in claimed : Latest(reqLog', req[s]) = Line(t) /\ Line(t).id = req[s]
        BY <2>4, <3>4
      <4>2. req[t] = req[s]
        BY <4>1 DEF Line, Requisition
      <4> QED
        BY <1>1, <2>8, <3>1, <4>2, ClaimedIsUnpaid
    <3> QED
      BY <2>3, <3>3, <3>4
  <2>9. req' = req
    BY <1>1 DEF req
  <2> QED
    BY <1>1, <2>1, <2>7, <2>8, <2>9 DEF Payments, Paid
<1> QED
  BY <1>2, <1>3

LEMMA RecoverPayments ==
  ASSUME TypeOK, Payments, Recover
  PROVE  Payments'
<1>1. UNCHANGED <<reqLog, reqGlued, hostVars, diskVars, entryVars, confirmed, input, pc, outside>>
  BY DEF Recover, ReqBoot, reqVars
<1>2. \A s \in Sessions : Keeping(s)
  BY <1>1 DEF Keeping, CountedOn, Delivered, Payments, hostVars, diskVars, entryVars
<1> QED
  BY <1>1, <1>2, KeepingPayments

\* Boot removes the record of an attempt the host has confirmed, and of no other.
LEMMA RehydratePayments ==
  ASSUME TypeOK, Payments, Rehydrate
  PROVE  Payments'
<1>1. /\ UNCHANGED <<reqVars, hostVars, confirmed, input, pc, outside>> /\ attempts' \subseteq attempts
      /\ \A s \in attempts \ attempts' : s \in confirmed /\ meta[s] # "none"
  BY RehydrateIs
<1>2. ASSUME NEW s \in Sessions
      PROVE  /\ meta'[s] = "none" <=> meta[s] = "none"
             /\ listed'[s] = "visible" => s \notin attempts' /\ meta'[s] # "none"
  BY RehydrateIs
<1>3. \A s \in Sessions : Keeping(s)
  BY <1>1, <1>2 DEF Keeping, CountedOn, Delivered, hostVars
<1> QED
  BY <1>1, <1>3, KeepingPayments DEF reqVars

---------------------------------------------------------------------------
(* The invariant.                                                           *)

\* A set in some order: all of it, and nothing else.
LEMMA SetInOrder ==
  ASSUME NEW S, IsFiniteSet(S)
  PROVE  SetToSeq(S) \in Seq(S) /\ \A x \in S : \E i \in DOMAIN SetToSeq(S) : SetToSeq(S)[i] = x
<1> DEFINE n == Cardinality(S)
<1>1. n \in Nat /\ ExistsBijection(1..n, S)
  BY FS_CardinalityType
<1>2. PICK f \in Bijection(1..n, S) : TRUE
  BY <1>1 DEF ExistsBijection
<1>3. f \in [1..n -> S] /\ IsInjective(f)
  BY <1>2 DEF Bijection, Injection
<1>4. SetToSeq(S) \in [1..n -> S] /\ IsInjective(SetToSeq(S))
  BY <1>3 DEF SetToSeq
<1>5. PICK g : g = SetToSeq(S)
  OBVIOUS
<1>6. g \in Injection(1..n, S)
  BY <1>4, <1>5 DEF Injection
<1>7. IsFiniteSet(1..n) /\ Cardinality(1..n) = n
  BY <1>1, FS_Interval
<1>8. g \in Surjection(1..n, S)
  BY <1>6, <1>7, FS_Injection
<1>9. \A x \in S : \E i \in 1..n : g[i] = x
  BY <1>8 DEF Surjection
<1>10. g \in [1..n -> S] /\ g \in Seq(S)
  BY <1>1, <1>4, <1>5
<1> QED
  BY <1>5, <1>9, <1>10

\* The file begins with an approved line of every requisition.
LEMMA InitFile ==
  ASSUME Init
  PROVE  /\ reqLog \in [lines : Seq(Lines), torn : BOOLEAN]
         /\ Reqs \subseteq Ids(reqLog)
         /\ \A r \in Reqs : Latest(reqLog, r) = Requisition(r, "approved", NoSession)
         /\ \A i \in DOMAIN reqLog.lines :
              reqLog.lines[i].state = "approved" /\ reqLog.lines[i].session = NoSession
<1> DEFINE approved == {Requisition(r, "approved", NoSession) : r \in Reqs}
           f == [r \in Reqs |-> Requisition(r, "approved", NoSession)]
<1>1. IsFiniteSet(approved)
  <2>1. f \in [Reqs -> approved] /\ \A x \in approved : \E r \in Reqs : f[r] = x
    OBVIOUS
  <2>2. f \in Surjection(Reqs, approved)
    BY <2>1, Fun_IsSurj
  <2> QED
    BY <2>2, CreateAssumption, FS_Surjection
<1>2. approved \subseteq Lines
  BY DEF Requisition, Lines
<1>3. \A x \in approved : x.id \in Reqs /\ x = Requisition(x.id, "approved", NoSession)
                          /\ x.state = "approved" /\ x.session = NoSession
  BY DEF Requisition
<1>4. ASSUME NEW r \in Reqs PROVE \E x \in approved : x.id = r
  <2>1. Requisition(r, "approved", NoSession) \in approved
    OBVIOUS
  <2>2. Requisition(r, "approved", NoSession).id = r
    BY DEF Requisition
  <2> QED
    BY <2>1, <2>2
<1>5. reqLog.lines = SetToSeq(approved) /\ reqLog.torn = FALSE
      /\ reqLog = [lines |-> SetToSeq(approved), torn |-> FALSE]
  BY DEF Init, ReqApproved, EmptyLog
<1> HIDE DEF approved
<1>6. PICK lines : lines = SetToSeq(approved)
  OBVIOUS
<1>7. lines \in Seq(approved) /\ \A x \in approved : \E i \in DOMAIN lines : lines[i] = x
  BY <1>1, <1>6, SetInOrder
<1>8. reqLog.lines = lines /\ reqLog \in [lines : Seq(Lines), torn : BOOLEAN]
  <2>1. lines \in Seq(Lines)
    BY <1>2, <1>7, SeqMonotonic
  <2> QED
    BY <1>5, <1>6, <2>1
<1>9. Reqs \subseteq Ids(reqLog)
  BY <1>4, <1>7, <1>8 DEF Ids
<1>10. ASSUME NEW r \in Reqs PROVE Latest(reqLog, r) = Requisition(r, "approved", NoSession)
  <2>1. Latest(reqLog, r) \in approved /\ Latest(reqLog, r).id = r
    BY <1>7, <1>8, <1>9, LatestIsLine
  <2> QED
    BY <1>3, <2>1
<1>11. ASSUME NEW i \in DOMAIN lines PROVE lines[i] \in approved
  BY <1>7, LenProperties, ElementOfSeq
<1> QED
  BY <1>3, <1>8, <1>9, <1>10, <1>11

LEMMA InitInv == ASSUME Init PROVE Inv
<1>1. TypeOK
  BY InitFile DEF Init, ReqApproved, TypeOK, Steps
<1>2. Table
  BY DEF Init, Table, Row, StepOf, HostOf, Settles, Open, Unstored, Stored
<1>3. Places
  BY DEF Init, Places, Boots, HoldsPlace, Holds, Apart, Reserving
<1>4. Claims /\ Attaching
  BY DEF Init, ReqApproved, Claims, Claiming, Attaching
<1>5. Registry
  <2>1. IsFiniteSet(reqAppends)
    BY FS_EmptySet DEF Init, ReqApproved
  <2>2. \A r \in DOMAIN reqs : reqs[r] \in Lines /\ reqs[r].id = r
    BY DEF Init, ReqApproved, Lines, Requisition
  <2>3. \A r \in Reqs : r \in DOMAIN reqs /\ reqs[r] = Latest(reqLog, r)
    BY InitFile DEF Init, ReqApproved
  <2>4. Reqs \subseteq Ids(reqLog)
    BY InitFile
  <2>5. up = "up"
    BY DEF Init
  <2> QED
    BY <2>1, <2>2, <2>3, <2>4, <2>5 DEF Registry
<1>6. Payments
  <2>1. \A s \in Sessions : ~CountedOn(s)
    BY DEF Init, CountedOn
  <2>2. \A i \in DOMAIN reqLog.lines : Delivers(reqLog.lines[i])
    BY InitFile DEF Delivers
  <2>3. \A s \in Sessions : listed[s] # "visible"
    BY DEF Init
  <2> QED
    BY <2>1, <2>2, <2>3 DEF Payments
<1> QED
  BY <1>1, <1>2, <1>3, <1>4, <1>5, <1>6 DEF Inv, Promised, Init

\* One session's step keeps it, ...
LEMMA SessionInv ==
  ASSUME Inv, NEW s \in Sessions,
         CreateStep(s) \/ HostStep(s) \/ End(s) \/ AskHost(s) \/ NoAnswer(s)
  PROVE  Inv'
<1>1. TypeOK /\ Table /\ Places /\ Promised /\ Payments
  BY DEF Inv
<1>2. TypeOK' /\ Table' /\ \A t \in Sessions \ {s} : SameRow(t)
  BY <1>1, ReserveTable, RecordTable, PrepareTable, LatePrepareTable, PrepareReturnsTable,
     PrepareTimesOutTable, LateAbortTable, MakeAdapterTable, StoreTable, InitCheckpointsTable, CommitTable,
     LateCommitTable, HostCommitsTable, CommitReturnsTable, CommitTimesOutTable, CleanupTable,
     UnwindTable, PublishTable, EndTable, AskHostTable, NoAnswerTable DEF CreateStep, HostStep
<1>3. Places'
  <2>1. CASE Reserve(s)
    BY <1>1, <2>1, ReservePlaces
  <2>2. CASE (CreateStep(s) /\ ~Reserve(s)) \/ End(s)
    BY <1>1, <1>2, <2>2, CreateStepFrees, EndFrees, FreesPlaces
  <2>3. CASE AskHost(s)
    BY <1>1, <2>3, AskHostPlaces
  <2>4. CASE HostStep(s) \/ NoAnswer(s)
    <3>1. UNCHANGED <<up, input, pc, out, alloc, listed, state, attempts>>
          /\ (HostStep(s) => UNCHANGED confirmed) /\ (NoAnswer(s) => UNCHANGED confirmed)
      BY <2>4 DEF HostStep, LatePrepare, LateAbort, LateCommit, HostCommits, NoAnswer, diskVars,
         entryVars, bootVars
    <3>2. (Open(s)' => Open(s)) /\ (host[s] = "committed" => host'[s] = "committed")
      BY <1>1, <2>4, HostStepMoves
    <3>3. \A t \in Sessions \ {s} : (Open(t)' => Open(t)) /\ host'[t] = host[t]
      BY <1>2 DEF SameRow, Open
    <3> QED
      BY <1>1, <2>4, <3>1, <3>2, <3>3, ElsewherePlaces
  <2> QED
    BY <2>1, <2>2, <2>3, <2>4
<1>4. Promised'
  BY <1>1, CreateStepPromise, HostStepPromise, OtherPromise
<1>5. Payments'
  <2>1. CASE HostCommits(s)
    BY <1>1, <2>1, HostCommitsPayments
  <2>2. CASE ~HostCommits(s)
    <3>1. Keeping(s)
      BY <1>1, <2>2, CreateStepKeeping, OtherKeeping DEF HostStep
    <3>2. confirmed' \subseteq confirmed \cup {s} /\ UNCHANGED <<reqLog, reqGlued, input, outside>>
      <4>1. CASE CreateStep(s)
        <5>1. confirmed' = confirmed /\ input' = input /\ outside' = outside
          BY <4>1 DEF CreateStep, Reserve, RecordAttempt, Prepare, PrepareReturns, PrepareTimesOut,
             MakeAdapter, StoreSession, InitCheckpoints, Commit, CommitReturns, CommitTimesOut, Cleanup,
             Unwind, Publish, bootVars
        <5>2. UNCHANGED <<reqLog, reqGlued>>
          BY <4>1 DEF CreateStep, Reserve, RecordAttempt, Prepare, PrepareReturns, PrepareTimesOut,
             MakeAdapter, StoreSession, InitCheckpoints, Commit, CommitReturns, CommitTimesOut, Cleanup,
             Unwind, Publish, Aborts, HostPrepares, HostAborts, HostStarts, ClaimReq, ReleaseReq, AttachSession,
             reqVars
        <5> QED
          BY <5>1, <5>2
      <4>2. CASE LatePrepare(s) \/ LateAbort(s) \/ LateCommit(s)
        BY <4>2 DEF LatePrepare, LateAbort, LateCommit, HostPrepares, HostAborts, HostStarts,
           ClaimReq, ReleaseReq, AttachSession, reqVars, bootVars
      <4>3. CASE End(s) \/ AskHost(s) \/ NoAnswer(s)
        BY <4>3 DEF End, AskHost, NoAnswer, reqVars, bootVars
      <4> QED
        BY <2>2, <4>1, <4>2, <4>3 DEF HostStep
    <3>3. \A t \in Sessions : Keeping(t)
      BY <1>1, <1>2, <3>1, <3>2, RowKeeping
    <3> QED
      BY <1>1, <3>2, <3>3, KeepingPayments
  <2> QED
    BY <2>1, <2>2
<1> QED
  BY <1>2, <1>3, <1>4, <1>5 DEF Inv

\* ... and so does a crash, a boot and a step that changes nothing.
LEMMA NextInv == ASSUME Inv, [Next]_vars PROVE Inv'
<1>1. TypeOK /\ Table /\ Places /\ Promised /\ Payments
  BY DEF Inv
<1>2. CASE Crash
  BY <1>1, <1>2, CrashTable, CrashPlaces, CrashPromise, CrashPayments DEF Inv
<1>3. CASE Recover
  BY <1>1, <1>3, RecoverTable, RecoverPlaces, RecoverPromise, RecoverPayments DEF Inv
<1>4. CASE Rehydrate
  BY <1>1, <1>4, RehydrateTable, RehydratePlaces, OtherPromise, RehydratePayments DEF Inv
<1>5. CASE UNCHANGED vars
  <2>1. UNCHANGED <<reqVars, hostVars, diskVars, entryVars, bootVars, input, pc, out, alloc>>
    BY <1>5 DEF vars
  <2>2. TypeOK'
    BY <1>1, <2>1 DEF TypeOK, reqVars, hostVars, diskVars, entryVars, bootVars
  <2>3. Table'
    BY <1>1, <2>1, RowsStay DEF Table, SameRow, hostVars, diskVars, entryVars, bootVars
  <2>4. Places'
    BY <1>1, <2>1, ElsewherePlaces DEF Open, hostVars, diskVars, entryVars, bootVars
  <2>5. Promised'
    BY <1>1, <2>1, SamePromise DEF reqVars, hostVars, bootVars
  <2>6. Payments'
    <3>1. \A s \in Sessions : Keeping(s)
      BY <1>1, <2>1, RowKeeping DEF SameRow, hostVars, diskVars, entryVars, bootVars
    <3> QED
      BY <1>1, <2>1, <3>1, KeepingPayments DEF reqVars
  <2> QED
    BY <2>2, <2>3, <2>4, <2>5, <2>6 DEF Inv
<1>6. CASE \E s \in Sessions : CreateStep(s) \/ HostStep(s) \/ End(s) \/ AskHost(s) \/ NoAnswer(s)
  BY <1>6, SessionInv
<1> QED
  BY <1>2, <1>3, <1>4, <1>5, <1>6 DEF Next

\* The invariant holds throughout, wherever the host lives and whatever is
\* lost, late or cut short by a crash.
THEOREM CreateInvariant == Spec => []Inv
<1>1. Init => Inv
  BY InitInv
<1>2. Inv /\ [Next]_vars => Inv'
  BY NextInv
<1> QED
  BY <1>1, <1>2, PTL DEF Spec

\* Every variable of a creation keeps its type.
THEOREM TypeCorrect == Spec => []TypeOK
<1>1. Inv => TypeOK
  BY DEF Inv
<1> QED
  BY <1>1, CreateInvariant, PTL

\* With one live session to a workspace, which is what the session manager
\* asks for, no two live sessions share a directory or nest in each other's,
\* also when one of them is undecided since before a restart.
THEOREM OneLivePerDirectory ==
  ASSUME MaxLive = 1
  PROVE  Spec => []OneLivePerWorkspace
<1>1. Inv => OneLivePerWorkspace
  <2> SUFFICES ASSUME Inv, NEW s \in Sessions, NEW t \in Sessions, s # t,
                      listed[s] = "visible", listed[t] # "absent",
                      state[s] = "live", state[t] = "live"
               PROVE  ~PathsOverlap(cwd[s], cwd[t])
    BY DEF OneLivePerWorkspace
  <2>1. HoldsPlace /\ Apart
    BY DEF Inv, Places
  <2>2. alloc[s] # "none" /\ alloc[t] # "none" /\ ~Idles(s)
    BY <2>1 DEF HoldsPlace, Holds, Idles
  <2> QED
    BY <2>1, <2>2 DEF Apart
<1> QED
  BY <1>1, CreateInvariant, PTL

\* A create that answered with an error holds no claim on its requisition,
\* however late its prepare took effect; one that rejected, its abort unanswered,
\* and whose host holds its claim still, kept its record and its directory.
THEOREM RefusalsHoldNoClaim == Spec => []RefusedHoldsNoClaim
<1>1. Inv => RefusedHoldsNoClaim
  <2> SUFFICES ASSUME Inv, NEW s \in claimed
               PROVE  /\ out[s] # "error"
                      /\ out[s] = "rejected" =>
                           s \in attempts /\ (up # "down" => alloc[s] # "none")
    BY DEF RefusedHoldsNoClaim
  <2>1. s \in Sessions /\ host[s] \in {"prepared", "committing"}
    BY DEF Inv, Promised, Claims, Claiming
  <2>2. Settles(s) /\ Open(s) /\ (Holds(s) => alloc[s] # "none")
    BY <2>1 DEF Inv, Table, Row, Open, Places, HoldsPlace
  <2> QED
    BY <2>1, <2>2 DEF Settles, Holds
<1> QED
  BY <1>1, CreateInvariant, PTL

\* Creation is paid for exactly: what a caller can see names its requisition
\* and is named by it, and no consumed requisition names a deleted session.
THEOREM CreationsArePaid == Spec => []PublishedIsPaid
<1>1. Inv => PublishedIsPaid
  <2> SUFFICES ASSUME Inv PROVE PublishedIsPaid
    OBVIOUS
  <2>1. Payments /\ TypeOK
    BY DEF Inv
  <2>2. ASSUME NEW s \in Sessions, listed[s] = "visible"
        PROVE  /\ s \notin attempts
               /\ (req[s] # NoReq /\ req[s] \notin reqGlued) =>
                    /\ req[s] \in Ids(reqLog)
                    /\ Latest(reqLog, req[s]).session = s
    BY <2>1, <2>2 DEF Payments, CountedOn, Paid
  <2>3. ASSUME NEW r \in Ids(reqLog), NEW s, s = Latest(reqLog, r).session, s # NoSession
        PROVE  meta[s] # "none"
    BY <2>1, <2>3, NewestDelivers DEF Delivers, Delivered
  <2> QED
    BY <2>2, <2>3 DEF PublishedIsPaid
<1> QED
  BY <1>1, CreateInvariant, PTL
====
