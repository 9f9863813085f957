---- MODULE MCOperator ----
(***************************************************************************)
(* What an operator does beside reading the transcript: the console's      *)
(* panels and calls, its view of the audit log, and the restore of a       *)
(* checkpoint, which share no state.  A behaviour is in one of them; the   *)
(* others stay as they begin.                                              *)
(*                                                                         *)
(* The workspace has a file or a directory "a", and in the directory a     *)
(* file "b" and "c", which is a file or a repository.                      *)
(***************************************************************************)
EXTENDS Checkpoints

CONSTANTS
  Sessions, Followed, MaxCalls, MaxSends,
  Limit, AuditPageMax, MaxLines, MaxLoads, MaxRestarts

VARIABLES
  at,
  sess, signedIn, panel, selected, draft, known, opened, visible, rows,
  terminating, requisitions, login, calls,
  lines, boots, inputs, view, token, flight, top

C == INSTANCE Console
A == INSTANCE AuditView

MCPaths == {<<"a">>, <<"a", "b">>, <<"a", "c">>, <<"a", "c", "d">>}
MCIgnorable == {<<"a">>, <<"a", "c">>}
MCRepos == {<<"a", "c">>}

consoleVars == <<
  sess, signedIn, panel, selected, draft, known, opened, visible, rows,
  terminating, requisitions, login, calls>>
auditVars == <<lines, boots, inputs, view, token, flight, top>>
allVars == <<vars, at, consoleVars, auditVars>>

OperatorInit ==
  /\ at \in {"console", "audit", "restore"} /\ Init /\ C!Init /\ A!Init
  /\ at # "console" => panel = "list" /\ \A s \in Sessions : sess[s] = "live"
  /\ at # "restore" => DOMAIN files = {} /\ rules = {}
OperatorNext ==
  /\ UNCHANGED at
  /\ \/ at = "restore" /\ Next /\ UNCHANGED <<consoleVars, auditVars>>
     \/ at = "console" /\ C!Next /\ UNCHANGED <<vars, auditVars>>
     \/ at = "audit" /\ A!Next /\ UNCHANGED <<vars, consoleVars>>

OperatorSpec == OperatorInit /\ [][OperatorNext]_allVars

\* The properties of Console and of AuditView, by their own names.
OverlaysAreCurrent == C!OverlaysAreCurrent
AuditRowsAreOneQuery == A!AuditRowsAreOneQuery
====
