---- MODULE PermissionFlow ----
(***************************************************************************)
(* Permission requests of one session, from the child's control_request to *)
(* the control_response, the permission.resolved envelope and the audit    *)
(* record: answerPermission, resolvePreapproved, finalizeResolution,       *)
(* respondOrCancel, the `exited` sweep, the storage-failure branch of      *)
(* emit, and the close of an unterminated turn at boot.                    *)
(*                                                                         *)
(* A turn claims the slot, and its child is spawned in a later step, as in *)
(* SessionTurn.  `spilled` is a lower bound on how much of `stream` is     *)
(* durable; it is raised only by a step that has awaited an envelope, and  *)
(* a failure or a crash settles how far the spill really got.  A failed    *)
(* append ends the session but not the write queue: the appends behind it  *)
(* are attempted as well, so that a transcript read after such a life may  *)
(* have holes.  A hole is kept as the line that is not there (Lost), for   *)
(* the properties to speak of; nothing that reads the spill sees it.  What *)
(* boot writes is taken as read back (a fragment it is glued to is         *)
(* EventLog's).  An operator named ...Variant is a mistake the properties  *)
(* are shown to notice.                                                    *)
(***************************************************************************)
EXTENDS Naturals, Sequences, FiniteSets

CONSTANTS
  Requests,      \* the control_requests the children may print
  MaxTurns       \* bound: turns of the session

ASSUME PermissionAssumption == IsFiniteSet(Requests) /\ MaxTurns \in Nat \ {0}

Turns == 1..MaxTurns
None == 0

VARIABLES
  server,     \* "up", and after a crash "booting", then "booted" or, when
              \* the spill could not be appended to, "unrepaired"
  fail,       \* the storage-failure branch
  turn,       \* entry.turn
  child,      \* the process the adapter's `child` names, by its turn
  open,       \* the newest turn handle has not ended
  resultSeen, \* the adapter's flag of that name
  pipe,       \* child.stdin is not destroyed
  held,       \* pendingByRequestId of the adapter
  asked,      \* for each request, the turn it was stamped with
  targeted,   \* the requests with a matchTarget
  pending,    \* the requests in their turn's `pending` map
  flying,     \* the requests in their turn's in-flight answers
  auto,       \* the requests whose permission.request a rule's answer awaits
  choice,     \* for each request, the decision being recorded
  rule,       \* entry.standingRules holds a rule (it matches every target)
  appends,    \* audit appends in flight: <<request, "decision"/"correction">>
  audit,      \* audit.ndjson, for each request
  reply,      \* what each request's child has read on its stdin
  stream,     \* the envelopes handed to subscribers, in seq order
  spilled,
  cut         \* history: turns ended by a record of the child or by a storage
              \* failure while a request of theirs was outstanding, and turns
              \* a request of an earlier turn's child was stamped with

turnVars == <<turn, child, open, resultSeen, pipe, held>>
reqVars  == <<asked, targeted, pending, flying, auto, choice, rule>>
logVars  == <<appends, audit, reply>>
outVars  == <<stream, spilled>>
vars == <<server, fail, turnVars, reqVars, logVars, outVars, cut>>

Decisions == {"allow", "deny", "always", "standing"}
Reasons == {"answered", "audit_unavailable", "cancelled"}
Envelopes == [kind : {"started", "ended"}, turn : Turns]
        \cup [kind : {"request"}, req : Requests]
        \cup [kind : {"resolved"}, req : Requests, reason : Reasons]
Lost(e) == [kind |-> "lost", of |-> e]
Lines == Envelopes \cup {Lost(e) : e \in Envelopes}

TypeOK ==
  /\ server \in {"up", "booting", "booted", "unrepaired"}
  /\ fail \in [stage : {"no", "meta", "auditing", "done"},
               victim : Turns \cup {None}, owed : SUBSET Requests,
               durable : Nat, queued : Nat]
  /\ turn \in Turns \cup {None}
  /\ child \in Turns \cup {None}
  /\ {open, resultSeen, pipe, rule} \subseteq BOOLEAN
  /\ held \subseteq Requests
  /\ asked \in [Requests -> Turns \cup {None}]
  /\ {targeted, pending, flying, auto} \subseteq SUBSET Requests
  /\ choice \in [Requests -> Decisions \cup {"none"}]
  /\ appends \subseteq Requests \X {"decision", "correction"}
  /\ audit \in [Requests -> Seq(Decisions \cup {"cancelled"})]
  /\ reply \in [Requests -> {"none", "allow", "deny"}]
  /\ stream \in Seq(Lines)
  /\ spilled \in Nat
  /\ cut \subseteq Turns

NoFailure == [stage |-> "no", victim |-> None, owed |-> {},
              durable |-> 0, queued |-> 0]

Init ==
  /\ server = "up"
  /\ fail = NoFailure
  /\ turn = None
  /\ child = None
  /\ open = FALSE
  /\ resultSeen = FALSE
  /\ pipe = FALSE
  /\ held = {}
  /\ asked = [r \in Requests |-> None]
  /\ targeted = {}
  /\ pending = {}
  /\ flying = {}
  /\ auto = {}
  /\ choice = [r \in Requests |-> "none"]
  /\ rule = FALSE
  /\ appends = {}
  /\ audit = [r \in Requests |-> << >>]
  /\ reply = [r \in Requests |-> "none"]
  /\ stream = << >>
  /\ spilled = 0
  /\ cut = {}

Up == server = "up"
Failed == fail.stage # "no"
Emit(es) == stream' = IF Failed THEN stream ELSE stream \o es

Started(t) == [kind |-> "started", turn |-> t]
Ended(t) == [kind |-> "ended", turn |-> t]
Request(r) == [kind |-> "request", req |-> r]
Resolved(r, reason) == [kind |-> "resolved", req |-> r, reason |-> reason]

Told == {stream[i] : i \in DOMAIN stream}

\* The cancellations of a set of requests; their order is of no consequence.
Cancelled(rs) ==
  LET order == CHOOSE s \in [1..Cardinality(rs) -> rs] :
                 {s[i] : i \in DOMAIN s} = rs
  IN [i \in 1..Cardinality(rs) |-> Resolved(order[i], "cancelled")]

\* The position of an envelope, and what is durable once it has settled.
Position(e) == CHOOSE i \in DOMAIN stream : stream[i] = e
Awaited(e) == IF Position(e) > spilled THEN Position(e) ELSE spilled

Of(rs, t) == {r \in rs : asked[r] = t}
Corrections(rs) == {<<r, "correction">> : r \in rs}

---------------------------------------------------------------------------
(* Turns and their children. *)

\* send claims the slot and announces the turn.
Claim(t) ==
  /\ Up
  /\ ~Failed
  /\ turn = None
  /\ Started(t) \notin Told
  /\ \A u \in 1..(t - 1) : Started(u) \in Told
  /\ turn' = t
  /\ Emit(<<Started(t)>>)
  /\ UNCHANGED <<server, fail, child, open, resultSeen, pipe, held, reqVars,
                 logVars, spilled, cut>>

\* adapter.send, once turn.started has settled: the new child replaces the one
\* that may still be exiting.
Spawn ==
  /\ Up
  /\ turn # None
  /\ child # turn
  /\ spilled' = Awaited(Started(turn))
  /\ child' = turn
  /\ open' = TRUE
  /\ resultSeen' = FALSE
  /\ pipe' = TRUE
  /\ UNCHANGED <<server, fail, turn, held, reqVars, logVars, stream, cut>>

\* The child's end of its stdin goes away: it is dying, or closed it.
PipeBreaks ==
  /\ Up
  /\ pipe
  /\ pipe' = FALSE
  /\ UNCHANGED <<server, fail, turn, child, open, resultSeen, held, reqVars,
                 logVars, outVars, cut>>

\* A result, or a malformed record: turn.ended with no `exited` before it.
RecordEndsTurn ==
  /\ Up
  /\ child # None
  /\ ~resultSeen
  /\ resultSeen' = TRUE
  /\ open' = FALSE
  /\ turn' = None
  /\ IF turn = None
     THEN UNCHANGED <<stream, cut>>
     ELSE /\ Emit(<<Ended(turn)>>)
          /\ cut' = IF Of(pending \cup flying, turn) # {}
                    THEN cut \cup {turn} ELSE cut
  /\ UNCHANGED <<server, fail, child, pipe, held, reqVars, logVars, spilled>>

\* 'close' of the newest child: the sweep cancels what the turn in the slot
\* still owes, and turn.ended follows in the same callback.
ChildCloses ==
  /\ Up
  /\ child # None
  /\ child' = None
  /\ pipe' = FALSE
  /\ held' = {}
  /\ LET swept == IF turn = None THEN {} ELSE Of(pending \cup flying, turn)
         ends == turn # None /\ ~resultSeen
     IN /\ pending' = pending \ swept
        /\ flying' = flying \ swept
        /\ appends' = appends \cup Corrections(swept)
        /\ Emit(Cancelled(swept) \o IF ends THEN <<Ended(turn)>> ELSE << >>)
        /\ turn' = IF ends THEN None ELSE turn
        /\ open' = FALSE
  /\ UNCHANGED <<server, fail, resultSeen, asked, targeted, auto, choice,
                 rule, audit, reply, spilled, cut>>

---------------------------------------------------------------------------
(* A request and its resolution. *)

\* The child asks: with a turn in the slot the request is pending, and one a
\* standing rule matches is answered once its envelope has settled.
Ask(r) ==
  /\ Up
  /\ child # None
  /\ asked[r] = None
  /\ r \notin held
  /\ held' = held \cup {r}
  /\ IF turn = None
     THEN UNCHANGED <<asked, targeted, pending, auto, stream, cut>>
     ELSE /\ asked' = [asked EXCEPT ![r] = turn]
          /\ pending' = pending \cup {r}
          /\ \E has \in BOOLEAN :
               /\ targeted' = IF has THEN targeted \cup {r} ELSE targeted
               /\ auto' = IF has /\ rule THEN auto \cup {r} ELSE auto
          /\ Emit(<<Request(r)>>)
          /\ cut' = IF child = turn THEN cut ELSE cut \cup {turn}
  /\ UNCHANGED <<server, fail, turn, child, open, resultSeen, pipe, flying,
                 choice, rule, logVars, spilled>>

\* Left in the map while the record is written: answered again meanwhile.
DecideVariant(r, d) ==
  /\ flying' = flying \cup {r}
  /\ choice' = [choice EXCEPT ![r] = d]
  /\ appends' = appends \cup {<<r, "decision">>}
  /\ UNCHANGED pending

\* Both answers leave `pending` before anything is awaited.
Decide(r, d) ==
  /\ pending' = pending \ {r}
  /\ flying' = flying \cup {r}
  /\ choice' = [choice EXCEPT ![r] = d]
  /\ appends' = appends \cup {<<r, "decision">>}

\* An operator's answer; scope "always" needs a matchTarget.
Answer(r, d) ==
  /\ Up
  /\ turn # None
  /\ r \in Of(pending, turn)
  /\ d = "always" => r \in targeted
  /\ Decide(r, d)
  /\ UNCHANGED <<server, fail, turnVars, asked, targeted, auto, rule, audit,
                 reply, outVars, cut>>

\* resolvePreapproved, after the emit of permission.request has settled: by
\* itself, or with the storage-failure branch that overtook it.
Preapprove(r) ==
  /\ Up
  /\ r \in auto
  /\ fail.stage \in {"no", "done"}
  /\ auto' = auto \ {r}
  /\ spilled' = IF Failed THEN spilled ELSE Awaited(Request(r))
  /\ IF r \in pending
     THEN Decide(r, "standing")
     ELSE UNCHANGED <<pending, flying, choice, appends>>
  /\ UNCHANGED <<server, fail, turnVars, asked, targeted, rule, audit, reply,
                 stream, cut>>

Answers(d) == IF d = "deny" THEN "deny" ELSE "allow"

\* What the child is answered once the append has settled, and whether a rule
\* comes of it; the variant does not look at how it settled.
VerdictVariant(r, ok) == Answers(choice[r])
Verdict(r, ok) == IF ok THEN Answers(choice[r]) ELSE "deny"

Grants(r, ok) == ok /\ choice[r] = "always"

\* What adapter.respond answers through the seam: the newest handle must be
\* open and have a child; a request the adapter no longer holds is answered ok
\* and nothing is written.
Respond(r) ==
  IF ~open \/ child = None THEN [result |-> "no_child", wrote |-> FALSE]
  ELSE IF r \notin held THEN [result |-> "ok", wrote |-> FALSE]
  ELSE [result |-> IF pipe THEN "ok" ELSE "write_failed", wrote |-> pipe]

\* respondOrCancel.
RespondOrCancel(r, answer, reason) ==
  LET responded == Respond(r) IN
    /\ flying' = flying \ {r}
    /\ held' = IF responded.result = "no_child" THEN held ELSE held \ {r}
    /\ reply' = IF responded.wrote THEN [reply EXCEPT ![r] = answer] ELSE reply
    /\ CASE responded.result = "ok" ->
              /\ Emit(<<Resolved(r, reason)>>)
              /\ appends' = appends \ {<<r, "decision">>}
         [] responded.result = "write_failed" ->
              /\ Emit(<<Resolved(r, "cancelled")>>)
              /\ appends' = (appends \ {<<r, "decision">>}) \cup {<<r, "correction">>}
         [] OTHER ->
              /\ UNCHANGED stream
              /\ appends' = appends \ {<<r, "decision">>}

\* finalizeResolution, when the decision record has been appended or refused.
DecisionSettles(r, ok) ==
  /\ Up
  /\ <<r, "decision">> \in appends
  /\ audit' = IF ok THEN [audit EXCEPT ![r] = Append(@, choice[r])] ELSE audit
  /\ IF r \notin flying
     THEN /\ appends' = appends \ {<<r, "decision">>}      \* swept meanwhile
          /\ UNCHANGED <<flying, held, reply, stream, rule>>
     ELSE /\ rule' = (rule \/ Grants(r, ok))
          /\ RespondOrCancel(r, Verdict(r, ok),
                             IF ok THEN "answered" ELSE "audit_unavailable")
  /\ UNCHANGED <<server, fail, turn, child, open, resultSeen, pipe, asked,
                 targeted, pending, auto, choice, spilled, cut>>

CorrectionSettles(r, ok) ==
  /\ Up
  /\ <<r, "correction">> \in appends
  /\ appends' = appends \ {<<r, "correction">>}
  /\ audit' = IF ok THEN [audit EXCEPT ![r] = Append(@, "cancelled")] ELSE audit
  /\ UNCHANGED <<server, fail, turnVars, reqVars, reply, outVars, cut>>

---------------------------------------------------------------------------
(* The storage-failure branch of emit. *)

\* The turn in the slot has left phase 'starting' when its turn.started has
\* settled.  The append that fails may be of an envelope that is not modelled
\* here; `durable` is the most the spill can hold in front of it, `queued` what
\* has been handed to the write queue by now.
SpillFails(announced) ==
  /\ Up
  /\ ~Failed
  /\ LET start == Position(Started(turn))
         most == IF turn = None \/ announced THEN Len(stream) ELSE start - 1
         least == IF turn # None /\ announced THEN Awaited(Started(turn)) ELSE spilled
     IN /\ turn = None => announced
        /\ least <= most
        /\ spilled' = least
        /\ fail' = [stage |-> "meta", durable |-> most, owed |-> {},
                    victim |-> IF announced THEN turn ELSE None,
                    queued |-> Len(stream)]
  /\ turn' = None
  /\ cut' = IF turn # None /\ Of(pending \cup flying, turn) # {}
            THEN cut \cup {turn} ELSE cut
  /\ UNCHANGED <<server, child, open, resultSeen, pipe, held, reqVars,
                 logVars, stream>>

\* meta.json is written: what is still pending is cancelled, live only.  The
\* map is read and not emptied, and the answers in flight are not in it.
FailCancels ==
  /\ Up
  /\ fail.stage = "meta"
  /\ LET owed == IF fail.victim = None THEN {} ELSE Of(pending, fail.victim)
     IN /\ stream' = stream \o Cancelled(owed)
        /\ appends' = appends \cup Corrections(owed)
        /\ fail' = [fail EXCEPT !.stage = "auditing", !.owed = owed]
  /\ UNCHANGED <<server, turnVars, reqVars, audit, reply, spilled, cut>>

FailEndsTurn ==
  /\ Up
  /\ fail.stage = "auditing"
  /\ Corrections(fail.owed) \cap appends = {}
  /\ fail' = [fail EXCEPT !.stage = "done"]
  /\ stream' = IF fail.victim = None THEN stream
               ELSE Append(stream, Ended(fail.victim))
  /\ UNCHANGED <<server, turnVars, reqVars, logVars, spilled, cut>>

---------------------------------------------------------------------------
(* A crash, and the close of an unterminated turn at boot. *)

\* How far the spill may have got.  The failed append's callback runs the whole
\* failure branch before the next append is attempted.
Durable == CASE fail.stage = "no"   -> Len(stream)
             [] fail.stage = "done" -> fail.queued
             [] OTHER               -> fail.durable

\* What a failure may have left out before the last line that landed.
Missable(n) == IF fail.stage = "done" THEN (spilled + 1)..(n - 1) ELSE {}

\* What is not durable is lost; audit appends in flight may have landed.
Crash(n) ==
  /\ server \in {"up", "booting"}
  /\ n \in spilled..Durable
  /\ server' = "booting"
  /\ \E missing \in SUBSET Missable(n) :
       stream' = [i \in 1..n |-> IF i \in missing THEN Lost(stream[i]) ELSE stream[i]]
  /\ spilled' = n
  /\ \E landed \in SUBSET appends :
       audit' = [r \in Requests |->
                   audit[r]
                   \o (IF <<r, "decision">> \in landed THEN <<choice[r]>> ELSE << >>)
                   \o (IF <<r, "correction">> \in landed THEN <<"cancelled">> ELSE << >>)]
  /\ fail' = NoFailure
  /\ turn' = None
  /\ child' = None
  /\ open' = FALSE
  /\ resultSeen' = FALSE
  /\ pipe' = FALSE
  /\ held' = {}
  /\ pending' = {}
  /\ flying' = {}
  /\ auto' = {}
  /\ rule' = FALSE
  /\ appends' = {}
  /\ targeted' = {}
  /\ UNCHANGED <<asked, choice, reply, cut>>

After(i) == {stream[j] : j \in (i + 1)..Len(stream)}

\* The last turn.started with no turn.ended after it, and what it leaves open.
OpenAtVariant == {i \in DOMAIN stream : stream[i].kind = "started" /\ After(i) = {}}
OpenAt == {i \in DOMAIN stream : /\ stream[i].kind = "started"
                                 /\ \A e \in After(i) : e.kind \notin {"started", "ended"}}
Unresolved(i) == {r \in Requests : /\ Request(r) \in After(i)
                                   /\ \A x \in Reasons : Resolved(r, x) \notin After(i)}

\* One outstanding request: the envelope is awaited, then the record appended.
BootResolves(r) ==
  /\ server = "booting"
  /\ \E i \in OpenAt : r \in Unresolved(i)
  /\ stream' = Append(stream, Resolved(r, "cancelled"))
  /\ spilled' = Len(stream) + 1
  /\ \E ok \in BOOLEAN :
       audit' = IF ok THEN [audit EXCEPT ![r] = Append(@, "cancelled")] ELSE audit
  /\ UNCHANGED <<server, fail, turnVars, reqVars, appends, reply, cut>>

BootEndsTurn ==
  /\ server = "booting"
  /\ \A i \in OpenAt : Unresolved(i) = {}
  /\ server' = "booted"
  /\ IF OpenAt = {}
     THEN UNCHANGED outVars
     ELSE \E t \in Turns : /\ \E i \in OpenAt : stream[i] = Started(t)
                           /\ stream' = Append(stream, Ended(t))
                           /\ spilled' = Len(stream) + 1
  /\ UNCHANGED <<fail, turnVars, reqVars, logVars, cut>>

\* An append that fails at boot leaves the transcript as it was read; the
\* records of what is still outstanding are appended all the same.
BootFails ==
  /\ server = "booting"
  /\ OpenAt # {}
  /\ server' = "unrepaired"
  /\ \E recorded \in SUBSET UNION {Unresolved(i) : i \in OpenAt} :
       audit' = [r \in Requests |->
                   IF r \in recorded THEN Append(audit[r], "cancelled") ELSE audit[r]]
  /\ UNCHANGED <<fail, turnVars, reqVars, appends, reply, outVars, cut>>

---------------------------------------------------------------------------
Next ==
  \/ \E t \in Turns : Claim(t)
  \/ Spawn \/ PipeBreaks \/ RecordEndsTurn \/ ChildCloses
  \/ \E r \in Requests : \/ Ask(r) \/ Preapprove(r) \/ BootResolves(r)
                         \/ \E d \in {"allow", "deny", "always"} : Answer(r, d)
                         \/ \E ok \in BOOLEAN : \/ DecisionSettles(r, ok)
                                                \/ CorrectionSettles(r, ok)
  \/ \E n \in 0..Len(stream) : Crash(n)
  \/ \E announced \in BOOLEAN : SpillFails(announced)
  \/ FailCancels \/ FailEndsTurn \/ BootEndsTurn \/ BootFails

Spec == Init /\ [][Next]_vars

---------------------------------------------------------------------------
(* Properties. *)

Resolutions(r) == {i \in DOMAIN stream : \E x \in Reasons : stream[i] = Resolved(r, x)}
At(e) == {i \in DOMAIN stream : stream[i] = e}

\* I9 as it is written: at turn.ended every request of the turn has been
\* resolved exactly once, after it was asked.
PermissionAlwaysResolved ==
  \A r \in Requests : Request(r) \in Told =>
    \A i \in At(Ended(asked[r])) :
      /\ Cardinality(Resolutions(r)) = 1
      /\ \A j \in Resolutions(r) : Position(Request(r)) < j /\ j < i

\* I9 where it does hold: whatever answer, rule, close or restart races, for
\* every turn but those a record of the child or a storage failure ended.  A
\* resolution whose append failed, or was behind one that did, may be missing
\* from the transcript though the turn's end is in it.
PermissionPaired ==
  \A r \in Requests :
    /\ \A i, j \in Resolutions(r) : i = j
    /\ /\ Request(r) \in Told
       /\ asked[r] \notin cut
       /\ \A x \in Reasons : Lost(Resolved(r, x)) \notin Told
       => \A i \in At(Ended(asked[r])) :
            \E j \in Resolutions(r) : Position(Request(r)) < j /\ j < i

\* I10, I11, I43, I76: what an allowed child was told, what subscribers were
\* told an operator decided, and what a standing rule was granted by, was
\* durable first; a deny may instead be the answer to an append that failed.
\* One request has at most one decision record and one correction.
DecisionAudited ==
  /\ \A r \in Requests :
       /\ reply[r] = "allow" =>
            \E i \in DOMAIN audit[r] : audit[r][i] \in {"allow", "always", "standing"}
       /\ Resolved(r, "answered") \in Told =>
            \E i \in DOMAIN audit[r] : audit[r][i] = choice[r]
       /\ server = "up" /\ ~Failed =>
            \A i, j \in DOMAIN audit[r] :
              (audit[r][i] = "cancelled") = (audit[r][j] = "cancelled") => i = j
  /\ rule => \E r \in targeted : \E i \in DOMAIN audit[r] : audit[r][i] = "always"

\* Boot says a spill left on an unpaired turn.started is closed before anything
\* is served, so that the order the renderer relies on holds unconditionally.
\* The append of turn.ended fails, the next turn.started was queued behind it
\* and lands: boot closes the newest turn only.
RestartClosesEveryTurn ==
  server = "booted" =>
    \A t \in Turns : Started(t) \in Told => Ended(t) \in Told

\* I14 where it does hold: a restart leaves a turn open only if the turn.ended
\* it had is a hole in the transcript, in front of a later turn's line.
RestartClosesTurns ==
  server = "booted" =>
    \A t \in Turns : Started(t) \in Told /\ Ended(t) \notin Told =>
      \E i, j, k \in DOMAIN stream :
        /\ i < j /\ j < k
        /\ stream[i] = Started(t)
        /\ stream[j] = Lost(Ended(t))
        /\ stream[k].kind \in {"started", "ended"}
====
