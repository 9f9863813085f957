---- MODULE AppendLog ----
(***************************************************************************)
(* The append-only ndjson files of the server: one handle per file, one    *)
(* line per append, and a reader that folds them to the latest line of     *)
(* each id (process/append-log.ts).                                        *)
(*                                                                         *)
(* A log is the lines a reader can parse, and whether the file ends in a   *)
(* fragment without a newline.  The handle writes behind whatever the file *)
(* ends with, so the line after a fragment is glued to it and no reader    *)
(* can parse it.                                                           *)
(***************************************************************************)
EXTENDS Naturals, Sequences, FiniteSets, FiniteSetsExt, Functions

EmptyLog == [lines |-> << >>, torn |-> FALSE]

Glues(log) == log.torn
Landed(log, line) ==
  IF Glues(log) THEN [log EXCEPT !.torn = FALSE]
  ELSE [log EXCEPT !.lines = Append(@, line)]
Torn(log) == [log EXCEPT !.torn = TRUE]

\* What an append may leave behind and report; a failed fsync reports an
\* error for a line that is in the file.
Appends(log, line, fsync) ==
  {[log |-> Landed(log, line), ok |-> TRUE], [log |-> log, ok |-> FALSE],
   [log |-> Torn(log), ok |-> FALSE]}
  \cup (IF fsync THEN {[log |-> Landed(log, line), ok |-> FALSE]} ELSE {})

\* What a process that dies in its appends may leave behind: some of the
\* lines in any order, and a fragment of another.
Orders(lines) ==
  {order \in UNION {[1..n -> lines] : n \in 0..Cardinality(lines)} : IsInjective(order)}
Behind(log, order) ==
  IF order = << >> THEN log
  ELSE [lines |-> log.lines \o (IF Glues(log) THEN Tail(order) ELSE order), torn |-> FALSE]
Interrupted(log, lines) ==
  UNION {{Behind(log, order)}
           \cup (IF Len(order) = Cardinality(lines) THEN {} ELSE {Torn(Behind(log, order))})
         : order \in Orders(lines)}

Ids(log) == {log.lines[i].id : i \in DOMAIN log.lines}
Latest(log, id) == log.lines[Max({i \in DOMAIN log.lines : log.lines[i].id = id})]
====
