---- MODULE AuditView ----
(***************************************************************************)
(* The audit log as an operator reads it: the console's panel              *)
(* (client/app.js), the route GET /api/audit (edge/http-common), the page  *)
(* walk over audit.ndjson (agent-console/store/fs.ts) and its cursors      *)
(* (agent-console/store/audit.ts).                                         *)
(*                                                                         *)
(* A line of the file is its record's kind.  A position is a line number:  *)
(* a page `before` p is read from line p - 1 down.                         *)
(***************************************************************************)
EXTENDS Integers, SequencesExt

CONSTANTS
  Limit,        \* records the console asks a page to hold
  AuditPageMax, \* config.caps.auditPageMax: lines one read may examine
  MaxLines,     \* bound: lines of the file
  MaxLoads,     \* bound: requests
  MaxRestarts

VARIABLES
  lines,        \* audit.ndjson
  boots,        \* restarts; each boot mints its own cursor secret
  inputs,       \* the filter inputs, as they stand
  view,         \* the panel: its rows, its cursor, the filters pinned
  token,        \* state.auditRequestToken
  flight,       \* requests and answers on their way
  top           \* history: the file's length when the rows' first page was read

vars == <<lines, boots, inputs, view, token, flight, top>>

Kinds == {"incident", "ordinary", "torn"}
Filters == {"all", "incidents"}

\* auditRecordMatches; a line that does not parse matches nothing.
Matches(p, filter) ==
  \/ lines[p] = "incident"
  \/ lines[p] = "ordinary" /\ filter = "all"

\* A cursor names a line and the boot that signed it; End is null.
Cursor(p) == [boot |-> boots, line |-> p]
End == [boot |-> -1, line |-> 0]

Init ==
  /\ lines = << >> /\ boots = 0
  /\ inputs = "all"
  /\ view = [rows |-> << >>, cursor |-> End, filter |-> "none", more |-> FALSE, empty |-> FALSE]
  /\ token = 0
  /\ flight = {}
  /\ top = 0

\* store.appendAudit; a crash may leave a line that does not parse.
RecordAppended(kind) ==
  /\ Len(lines) < MaxLines
  /\ lines' = Append(lines, kind)
  /\ UNCHANGED <<boots, inputs, view, token, flight, top>>
Restart ==
  /\ boots < MaxRestarts
  /\ boots' = boots + 1
  /\ UNCHANGED <<lines, inputs, view, token, flight, top>>

(***************************************************************************)
(* readAuditPage: the walk stops at the line that fills the page or the    *)
(* scan budget, and the cursor names that line.                            *)
(***************************************************************************)
Matching(from, to, filter) == {p \in from..to : Matches(p, filter)}
Examined(p, upper) == upper - p = AuditPageMax
Full(p, upper, filter) == Cardinality(Matching(p, upper - 1, filter)) >= Min({Limit, AuditPageMax})
Stop(upper, filter) ==
  Max({1} \cup {p \in 1..(upper - 1) : Examined(p, upper) \/ Full(p, upper, filter)})
Descending(set) ==
  CHOOSE s \in [1..Cardinality(set) -> set] : \A i, j \in DOMAIN s : i < j => s[i] > s[j]
ReadPage(before, filter) ==
  IF before # End /\ before.boot # boots
  THEN [status |-> 422, records |-> << >>, next |-> End]
  ELSE LET upper == IF before = End THEN Len(lines) + 1 ELSE before.line
           stop == Stop(upper, filter)
       IN [status |-> 200,
           records |-> Descending(Matching(stop, upper - 1, filter)),
           next |-> IF stop = 1 THEN End ELSE Cursor(stop)]

\* handleAudit: any authenticated operator's, a page at a time; a read may
\* fail.
handleAudit(request) ==
  /\ ~request.answered
  /\ \E answer \in {ReadPage(request.before, request.filter)} \cup
                   {[status |-> 503, records |-> << >>, next |-> End]} :
       flight' = (flight \ {request}) \cup
                   {[request EXCEPT !.answered = TRUE, !.answer = answer, !.length = Len(lines)]}
  /\ UNCHANGED <<lines, boots, inputs, view, token, top>>

(***************************************************************************)
(* loadAuditPage: a reset pins the inputs; a later page resumes the query  *)
(* its cursor was minted under; an answer that is not the last request's   *)
(* is dropped.                                                             *)
(***************************************************************************)
Nothing == [status |-> 0, records |-> << >>, next |-> End]
Request(before, filter) ==
  [token |-> token + 1, before |-> before, filter |-> filter,
   answered |-> FALSE, answer |-> Nothing, length |-> 0]
Asks(before, filter) ==
  /\ token < MaxLoads
  /\ token' = token + 1
  /\ flight' = flight \cup {Request(before, filter)}
FilterChanges(filter) ==
  /\ inputs # filter
  /\ inputs' = filter
  /\ UNCHANGED <<lines, boots, view, token, flight, top>>
Reset ==
  /\ Asks(End, inputs)
  /\ view' = [view EXCEPT !.rows = << >>, !.cursor = End, !.filter = inputs, !.empty = FALSE]
  /\ UNCHANGED <<lines, boots, inputs, top>>
LoadOlder ==
  /\ view.more
  /\ Asks(view.cursor, view.filter)
  /\ UNCHANGED <<lines, boots, inputs, view, top>>

NeverSuperseded(request) == FALSE
Superseded(request) == request.token # token
Answer(request) ==
  /\ request.answered
  /\ flight' = flight \ {request}
  /\ IF Superseded(request) \/ request.answer.status # 200
     THEN UNCHANGED <<view, top>>
     ELSE LET rows == view.rows \o request.answer.records
              next == request.answer.next
          IN /\ view' = [view EXCEPT !.rows = rows, !.cursor = next, !.more = next # End,
                                     !.empty = @ \/ (rows = << >> /\ next = End)]
             /\ top' = IF request.before = End THEN request.length ELSE top
  /\ UNCHANGED <<lines, boots, inputs, token>>

Next ==
  \/ \E k \in Kinds : RecordAppended(k)
  \/ Restart
  \/ \E f \in Filters : FilterChanges(f)
  \/ Reset \/ LoadOlder
  \/ \E r \in flight : handleAudit(r) \/ Answer(r)

Spec == Init /\ [][Next]_vars

(***************************************************************************)
(* Properties                                                              *)
(***************************************************************************)
\* Whatever the operator clicks while answers are out, and whatever is
\* appended between two pages, the rows are those of the pinned query as the
\* log stood when its first page was read: newest first, none twice and none
\* missing down to the cursor; and the panel says "no records" only where
\* there is none (loadAuditPage's comments, S12.5 and I39).
AuditRowsAreOneQuery ==
  LET reached == IF view.cursor = End THEN 1 ELSE view.cursor.line
      loaded == view.cursor # End \/ view.rows # << >> \/ view.empty
  IN /\ loaded => view.rows = Descending(Matching(reached, top, view.filter))
     /\ view.empty => view.rows = << >>
====
