---- MODULE HostEvents ----
(***************************************************************************)
(* What the session manager adds to a session's own log, and what it folds *)
(* out of it: the checklist's completions, the two budget notices and the  *)
(* payroll view (session-manager/index.ts, budget.ts, payroll.ts).         *)
(*                                                                         *)
(* One session.  An envelope's timestamp is its place in `log`, and the    *)
(* session was created at 0.  The write queue and its failures are         *)
(* EventLog's; here an append settles when its envelope is `durable`.      *)
(***************************************************************************)
EXTENDS Integers, SequencesExt

CONSTANTS
  Items,         \* config.checklist
  TokenBudget,   \* config.sessionTokenBudget
  WarnLine,      \* the burn at which sessionTokenBudgetWarnFraction warns
  Burns,         \* what one usage envelope may report
  MaxEvents,     \* bound: envelopes of the session
  MaxRefusals    \* bound: appends refused because an operation holds the session

VARIABLES
  session,   \* "live", "ended" or "removed"
  endedAt,   \* record.endedAt, 0 while live
  log,       \* the envelopes emitted
  durable,   \* how many of them have settled in the spill
  failed,    \* entry.storageFailed
  turn,      \* the turn that is open, 0 for none
  claims,    \* ticks: each item's promise
  told,      \* history: items whose tick was answered ok
  checks,    \* budget checks chained behind the running one
  check,     \* the running budget check
  refusals

logVars == <<log, durable, failed>>
tickVars == <<claims, told>>
checkVars == <<checks, check>>
vars == <<session, endedAt, logVars, turn, tickVars, checkVars, refusals>>

Envelope(kind, of, n) == [kind |-> kind, of |-> of, n |-> n]
Lost == Envelope("lost", 0, 0)
Started(t) == Envelope("turn.started", t, 0)
Ended(t) == Envelope("turn.ended", t, 0)
Usage(t, n) == Envelope("usage", t, n)
Notice(code) == Envelope(code, 0, 0)
Completed(item) == Envelope("checklist.item.completed", item, 0)

Free == [at |-> "free", seq |-> 0]
Idle == [at |-> "idle", seq |-> 0, burn |-> 0]

Init ==
  /\ session = "live" /\ endedAt = 0
  /\ log = << >> /\ durable = 0 /\ failed = FALSE
  /\ turn = 0
  /\ claims = [i \in Items |-> Free] /\ told = {}
  /\ checks = 0 /\ check = Idle
  /\ refusals = 0

spill == SubSeq(log, 1, durable)
Counts(burn, e) == IF e.kind = "usage" THEN burn + e.n ELSE burn
Burn(envelopes) == FoldLeft(Counts, 0, envelopes)
Holds(envelopes, e) == \E i \in DOMAIN envelopes : envelopes[i] = e
Room == Len(log) < MaxEvents

(***************************************************************************)
(* The runtime: a turn's envelopes, the write queue, the session's end.    *)
(* A usage envelope is handed to the manager's own subscription at once,   *)
(* which chains a budget check.                                            *)
(***************************************************************************)
TurnStarts ==
  /\ session = "live" /\ turn = 0 /\ Room
  /\ turn' = Len(log) + 1
  /\ log' = Append(log, Started(turn'))
  /\ UNCHANGED <<session, endedAt, durable, failed, tickVars, checkVars, refusals>>
TurnEnds ==
  /\ session = "live" /\ turn # 0 /\ Room
  /\ log' = Append(log, Ended(turn))
  /\ turn' = 0
  /\ UNCHANGED <<session, endedAt, durable, failed, tickVars, checkVars, refusals>>
UsageReported(n) ==
  /\ session = "live" /\ turn # 0 /\ Room
  /\ log' = Append(log, Usage(turn, n))
  /\ checks' = checks + 1
  /\ UNCHANGED <<session, endedAt, durable, failed, turn, tickVars, check, refusals>>
Written ==
  /\ durable < Len(log)
  /\ durable' = durable + 1
  /\ UNCHANGED <<session, endedAt, log, failed, turn, tickVars, checkVars, refusals>>
\* An append that fails ends the session; what is queued behind it is still
\* written.
WriteFails ==
  /\ durable < Len(log)
  /\ log' = [log EXCEPT ![durable + 1] = Lost]
  /\ durable' = durable + 1
  /\ failed' = TRUE
  /\ session' = "ended"
  /\ endedAt' = IF session = "live" THEN Len(log) + 1 ELSE endedAt
  /\ UNCHANGED <<turn, tickVars, checkVars, refusals>>
End ==
  /\ session = "live" /\ turn = 0
  /\ session' = "ended" /\ endedAt' = Len(log) + 1
  /\ UNCHANGED <<logVars, turn, tickVars, checkVars, refusals>>
\* remove: the manager's own entries go with the session's files; the body of
\* a tick in flight holds the old map and is refused.
RemoveSession ==
  /\ session = "ended"
  /\ session' = "removed"
  /\ log' = << >> /\ durable' = 0
  /\ claims' = [i \in Items |-> Free] /\ told' = {}
  /\ check' = Idle /\ checks' = 0
  /\ UNCHANGED <<endedAt, failed, turn, refusals>>

\* A crash, and the boot after it: the queue is lost; a session that was live
\* is ended, and an open turn closed, after the notice that says why.
Reconciled(kept) ==
  LET open == {i \in DOMAIN kept : /\ kept[i].kind = "turn.started"
                                   /\ ~Holds(kept, Ended(kept[i].of))}
  IN kept \o <<Notice("server_restart")>> \o SetToSeq({Ended(kept[i].of) : i \in open})
Restart ==
  /\ session = "live"
  /\ log' = Reconciled(spill)
  /\ durable' = Len(log')
  /\ failed' = FALSE
  /\ session' = "ended" /\ endedAt' = Len(log') + 1
  /\ turn' = 0
  /\ claims' = [i \in Items |-> Free]
  /\ check' = Idle /\ checks' = 0
  /\ UNCHANGED <<told, refusals>>

(***************************************************************************)
(* events.append: refused on a session that has ended or that an operation *)
(* holds; else the caller waits for its envelope at the place it took.     *)
(***************************************************************************)
Refused ==
  \/ session # "live" /\ UNCHANGED refusals
  \/ session = "live" /\ refusals < MaxRefusals /\ refusals' = refusals + 1
Appends(e) ==
  /\ session = "live" /\ Room
  /\ log' = Append(log, e)
  /\ UNCHANGED refusals
Settled(waiter) == durable >= waiter.seq

(***************************************************************************)
(* tickChecklistItem: one promise for an item, whoever calls, installed    *)
(* before the first await.  A caller that finds it waits for its outcome.  *)
(***************************************************************************)
ClaimedUntilSettled(item) == claims[item].at \in {"reading", "appending"}
Claimed(item) == claims[item] # Free
Tick(item) ==
  /\ session = "live"
  /\ ~Claimed(item)
  /\ claims' = [claims EXCEPT ![item] = [at |-> "reading", seq |-> 0]]
  /\ UNCHANGED <<session, endedAt, logVars, turn, told, checkVars, refusals>>
\* completed(), which stops at the first line it cannot read, and the append
\* of what it did not find.
FindsCompleted(item, read) == Holds(SubSeq(spill, 1, read), Completed(item))
TickReads(item) ==
  /\ claims[item].at = "reading"
  /\ \E read \in 0..durable :
       IF FindsCompleted(item, read)
       THEN /\ claims' = [claims EXCEPT ![item].at = "done"]
            /\ told' = told \cup {item}
            /\ UNCHANGED <<log, refusals>>
       ELSE \/ /\ Appends(Completed(item))
               /\ claims' = [claims EXCEPT ![item] = [at |-> "appending", seq |-> Len(log')]]
               /\ UNCHANGED told
            \/ /\ Refused
               /\ claims' = [claims EXCEPT ![item] = Free]
               /\ UNCHANGED <<log, told>>
  /\ UNCHANGED <<session, endedAt, durable, failed, turn, checkVars>>
TickSettles(item) ==
  /\ claims[item].at = "appending"
  /\ Settled(claims[item])
  /\ claims' = [claims EXCEPT ![item] = IF failed THEN Free ELSE [@ EXCEPT !.at = "done"]]
  /\ told' = IF failed THEN told ELSE told \cup {item}
  /\ UNCHANGED <<session, endedAt, logVars, turn, checkVars, refusals>>

(***************************************************************************)
(* The budget's checks, one at a time: flush, read the spill, and append   *)
(* the notices that are due, the warning first.                            *)
(***************************************************************************)
CheckBegins ==
  /\ check.at = "idle" /\ checks > 0
  /\ checks' = checks - 1
  /\ check' = [at |-> "flushing", seq |-> Len(log), burn |-> 0]
  /\ UNCHANGED <<session, endedAt, logVars, turn, tickVars, refusals>>
Flushed == check.at = "flushing" /\ Settled(check)
Warned == Holds(spill, Notice("budget_warning"))
Exhausted == Holds(spill, Notice("budget_exhausted"))
DueOnceCrossed(line) == Burn(spill) > 0 /\ Burn(spill) >= line
Due(line) == ~Exhausted /\ Burn(spill) > 0 /\ Burn(spill) >= line
WarningDue == Due(WarnLine) /\ ~Warned
ExhaustionDue == Due(TokenBudget)

Awaits(at, burn) == check' = [at |-> at, seq |-> Len(log'), burn |-> burn]
CheckStops == check' = Idle
\* Nothing is due, or the spill could not be read: the next usage checks again.
CheckFindsNothing ==
  /\ Flushed
  /\ CheckStops
  /\ UNCHANGED <<session, endedAt, logVars, turn, tickVars, checks, refusals>>
CheckWarns ==
  /\ Flushed /\ WarningDue
  /\ Appends(Notice("budget_warning"))
  /\ Awaits("warning", Burn(spill))
  /\ UNCHANGED <<session, endedAt, durable, failed, turn, tickVars, checks>>
CheckExhausts ==
  /\ Flushed /\ ExhaustionDue /\ ~WarningDue
  /\ Appends(Notice("budget_exhausted"))
  /\ Awaits("exhausting", Burn(spill))
  /\ UNCHANGED <<session, endedAt, durable, failed, turn, tickVars, checks>>
CheckRefused ==
  /\ Flushed /\ (WarningDue \/ ExhaustionDue)
  /\ Refused
  /\ CheckStops
  /\ UNCHANGED <<session, endedAt, logVars, turn, tickVars, checks>>
WarningSettles ==
  /\ check.at = "warning" /\ Settled(check)
  /\ IF ~failed /\ check.burn >= TokenBudget
     THEN \/ /\ Appends(Notice("budget_exhausted"))
             /\ Awaits("exhausting", check.burn)
          \/ Refused /\ CheckStops /\ UNCHANGED log
     ELSE CheckStops /\ UNCHANGED <<log, refusals>>
  /\ UNCHANGED <<session, endedAt, durable, failed, turn, tickVars, checks>>
ExhaustionSettles ==
  /\ check.at = "exhausting" /\ Settled(check)
  /\ CheckStops
  /\ UNCHANGED <<session, endedAt, logVars, turn, tickVars, checks, refusals>>

(***************************************************************************)
(* foldPayroll: one pass over the spill.  `cursor` is where an idle        *)
(* interval began, -1 for none.                                            *)
(***************************************************************************)
Bill == [burn |-> 0, idle |-> 0, dropped |-> 0, cursor |-> 0, restarted |-> FALSE]
Since(bill, ts) == IF bill.cursor = -1 THEN 0 ELSE ts - bill.cursor
ResumesAlways(bill, ts) == [bill EXCEPT !.cursor = ts]
Resumes(bill, ts) == IF bill.restarted THEN bill ELSE [bill EXCEPT !.cursor = ts]
Billed(bill, ts) ==
  LET e == spill[ts]
  IN CASE e.kind = "turn.started" -> [bill EXCEPT !.idle = @ + Since(bill, ts), !.cursor = -1]
       [] e.kind = "turn.ended" -> Resumes(bill, ts)
       [] e.kind = "server_restart" ->
            [bill EXCEPT !.dropped = IF bill.cursor = -1 THEN @ ELSE @ + 1,
                         !.cursor = -1, !.restarted = TRUE]
       [] e.kind = "usage" -> [bill EXCEPT !.burn = @ + e.n]
       [] OTHER -> bill
foldPayroll ==
  LET bill == FoldLeft(Billed, Bill, [i \in 1..durable |-> i])
  IN IF endedAt = 0 THEN bill ELSE [bill EXCEPT !.idle = @ + Since(bill, endedAt)]

Next ==
  \/ TurnStarts \/ TurnEnds
  \/ \E n \in Burns : UsageReported(n)
  \/ Written \/ WriteFails \/ End \/ RemoveSession \/ Restart
  \/ \E i \in Items : Tick(i) \/ TickReads(i) \/ TickSettles(i)
  \/ CheckBegins \/ CheckFindsNothing \/ CheckWarns \/ CheckExhausts
  \/ CheckRefused \/ WarningSettles \/ ExhaustionSettles

Spec == Init /\ [][Next]_vars

(***************************************************************************)
(* Properties                                                              *)
(***************************************************************************)
\* However many calls tick an item, whatever is refused or fails under them
\* and whenever the server goes down, the log holds its completion at most
\* once, and holds it when one of the calls was answered ok
\* (tickChecklistItem's comment on the promise it installs).
ItemCompletedOnce ==
  \A item \in Items :
    /\ \A i, j \in DOMAIN log : (log[i] = Completed(item) /\ log[j] = log[i]) => i = j
    /\ item \in told => Holds(spill, Completed(item))

\* I73: each notice at most once, behind the usage that brought the burn to
\* its line, and the warning never behind the exhaustion.
NoticeFollowsCrossing ==
  \A i \in DOMAIN log :
    LET before == SubSeq(log, 1, i - 1)
    IN /\ log[i] = Notice("budget_warning") =>
            /\ Burn(before) >= WarnLine
            /\ ~Holds(before, Notice("budget_warning"))
            /\ ~Holds(before, Notice("budget_exhausted"))
       /\ log[i] = Notice("budget_exhausted") =>
            /\ Burn(before) >= TokenBudget
            /\ ~Holds(before, Notice("budget_exhausted"))

\* The idle time billed is the time in which no turn was open, up to the last
\* turn's start while the session lives or once a restart cut it short, and
\* to its end otherwise (payroll.ts, S16.5, S16.6 and D130).
InTurn(t) ==
  LET marks == {i \in 1..durable : i < t /\ spill[i].kind \in {"turn.started", "turn.ended"}}
  IN marks # {} /\ spill[Max(marks)].kind = "turn.started"
BilledTo ==
  IF endedAt # 0 /\ ~Holds(spill, Notice("server_restart")) THEN endedAt
  ELSE Max({0} \cup {i \in 1..durable : spill[i].kind = "turn.started"})
IdleIsBetweenTurns ==
  session # "removed" /\ ~failed =>
    foldPayroll.idle = Cardinality({t \in 1..BilledTo : ~InTurn(t)})
====
