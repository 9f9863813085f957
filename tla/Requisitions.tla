---- MODULE Requisitions ----
(***************************************************************************)
(* Requisitions (records/index.ts): raised, decided once, and consumed by  *)
(* one session.  The registry changes only when the line that says so is   *)
(* in requisitions.ndjson; two locks in memory, `deciding` and             *)
(* `reservedForConsumption`, cover the time between.  Append is one step   *)
(* that returns; what it leaves in the file is AppendLog's choice.         *)
(***************************************************************************)
EXTENDS AppendLog, FiniteSets

CONSTANTS
  Reqs,       \* requisition ids
  NoSession

VARIABLES
  reqLog,     \* requisitions.ndjson
  reqs,       \* the registry: id -> record
  deciding,   \* id -> the decision in flight
  reserved,   \* reservedForConsumption
  reqAppends, \* lines being appended
  verdict,    \* history: the decision acknowledged to an operator, or none
  reqGlued    \* history: ids that lost a line to a fragment before it

reqVars == <<reqLog, reqs, deciding, reserved, reqAppends, verdict, reqGlued>>

Verdicts == {"approved", "rejected"}
Requisition(r, state, s) == [id |-> r, state |-> state, session |-> s]

ReqInit ==
  /\ reqLog = EmptyLog
  /\ reqs = << >>
  /\ deciding = << >>
  /\ reserved = {}
  /\ reqAppends = {}
  /\ verdict = [r \in Reqs |-> "none"]
  /\ reqGlued = {}

Known(r) == r \in DOMAIN reqs
With(f, k, v) == [x \in DOMAIN f \cup {k} |-> IF x = k THEN v ELSE f[x]]
Without(f, k) == [x \in DOMAIN f \ {k} |-> f[x]]

Raise(r) ==
  /\ ~Known(r)
  /\ \A a \in reqAppends : a.line.id # r
  /\ reqAppends' = reqAppends \cup
       {[op |-> "raise", line |-> Requisition(r, "open", NoSession)]}
  /\ UNCHANGED <<reqLog, reqs, deciding, reserved, verdict, reqGlued>>

DecidableWhenOpen(r) == reqs[r].state = "open"
Decidable(r) == reqs[r].state = "open" /\ r \notin DOMAIN deciding
Decide(r, v) ==
  /\ Known(r)
  /\ Decidable(r)
  /\ deciding' = With(deciding, r, v)
  /\ reqAppends' = reqAppends \cup
       {[op |-> "decide", line |-> [reqs[r] EXCEPT !.state = v]]}
  /\ UNCHANGED <<reqLog, reqs, reserved, verdict, reqGlued>>

ClaimableWhenApproved(r) == Known(r) /\ reqs[r].state = "approved"
Claimable(r) == Known(r) /\ reqs[r].state = "approved" /\ r \notin reserved
ClaimReq(r) ==
  /\ reserved' = reserved \cup {r}
  /\ UNCHANGED <<reqLog, reqs, deciding, reqAppends, verdict, reqGlued>>
ReleaseReq(r) ==
  /\ reserved' = reserved \ {r}
  /\ UNCHANGED <<reqLog, reqs, deciding, reqAppends, verdict, reqGlued>>
AttachSession(r, s) ==
  /\ reqAppends' = reqAppends \cup
       {[op |-> "attach", line |-> [reqs[r] EXCEPT !.state = "consumed", !.session = s]]}
  /\ UNCHANGED <<reqLog, reqs, deciding, reserved, verdict, reqGlued>>

\* The registry after an append: a failed one leaves it alone.
Recorded(line, ok) == IF ok THEN With(reqs, line.id, line) ELSE reqs

\* An append returns to raise, decide or attachSession.
ReqReturns(a, out) ==
  /\ reqAppends' = reqAppends \ {a}
  /\ reqLog' = out.log
  /\ reqs' = Recorded(a.line, out.ok)
  /\ deciding' = IF a.op = "decide" THEN Without(deciding, a.line.id) ELSE deciding
  /\ reserved' = IF a.op = "attach" /\ out.ok THEN reserved \ {a.line.id} ELSE reserved
  /\ verdict' = IF a.op = "decide" /\ out.ok
                THEN [verdict EXCEPT ![a.line.id] = a.line.state] ELSE verdict
  /\ reqGlued' = IF out.ok /\ Glues(reqLog) THEN reqGlued \cup {a.line.id} ELSE reqGlued

ReqCrash ==
  /\ reqLog' \in Interrupted(reqLog, {a.line : a \in reqAppends})
  /\ reqs' = << >>
  /\ deciding' = << >>
  /\ reserved' = {}
  /\ reqAppends' = {}
  /\ UNCHANGED <<verdict, reqGlued>>
ReqBoot ==
  /\ reqs' = [r \in Ids(reqLog) |-> Latest(reqLog, r)]
  /\ UNCHANGED <<reqLog, deciding, reserved, reqAppends, verdict, reqGlued>>

\* An acknowledged decision is the decision: no later decision, failed append
\* or restart changes it.  Outside an append a restart would read back what the
\* registry says, and whoever holds a claim holds it on a requisition that is
\* approved and that no session has consumed (records/index.ts:125-195, D120).
DecidedOnce ==
  \A r \in DOMAIN reqs \ reqGlued :
    /\ verdict[r] # "none" =>
         reqs[r].state \in {verdict[r]} \cup (IF verdict[r] = "approved" THEN {"consumed"} ELSE {})
    /\ (\A a \in reqAppends : a.line.id # r) =>
         /\ r \in Ids(reqLog) /\ reqs[r] = Latest(reqLog, r)
         /\ r \in reserved => reqs[r].state = "approved"
====
