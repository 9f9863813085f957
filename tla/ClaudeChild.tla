---- MODULE ClaudeChild ----
(***************************************************************************)
(* The provider side of one session: the child processes the Claude        *)
(* adapter spawns (one for each turn) and the turn handle the provider     *)
(* seam wraps around it.  Turns are numbered in the order they claim the   *)
(* session's slot, and a process is named by the turn it was spawned for.  *)
(*                                                                         *)
(*   claude-cli/index.ts    child, resultSeen, the close handler           *)
(*   adapter-session.ts     active, its `ended` and `failedStart` flags    *)
(*   legacy.ts              handle                                         *)
(*   termination.ts         terminate                                      *)
(*                                                                         *)
(* The operators give the next value of a variable or the set of processes *)
(* a call reaches; SessionTurn conjoins them with what the session core    *)
(* does in the same synchronous call stack.                                *)
(***************************************************************************)
EXTENDS Naturals, FiniteSets

CONSTANT MaxTurns                  \* bound: turns of one session

ASSUME MaxTurnsAssumption == MaxTurns \in Nat \ {0}

Turns == 1..MaxTurns
None == 0                          \* a null turn, child or handle

VARIABLES
  child,        \* the process the adapter's `child` names, or None
  resultSeen,   \* the adapter-wide flag that suppresses a second turn.ended
  active,       \* the turn whose context events are forwarded through
  activeEnded,  \* active.ended
  failedStart,  \* failedStart of the active turn's handle
  handle,       \* the turn the legacy adapter's handle belongs to; None: refused
  proc,         \* what became of each turn's process
  killed,       \* processes whose tree kill has been issued
  printed       \* processes that printed their result record

seamVars == <<active, activeEnded, failedStart, handle>>
childVars == <<child, resultSeen, seamVars, proc, killed, printed>>

\* "failed" is a ChildProcess object whose spawn failed: it has no pid.
ProcStates == {"none", "running", "failed", "gone"}

ChildTypeOK ==
  /\ child \in Turns \cup {None}
  /\ resultSeen \in BOOLEAN
  /\ active \in Turns \cup {None}
  /\ activeEnded \in BOOLEAN
  /\ failedStart \in BOOLEAN
  /\ handle \in Turns \cup {None}
  /\ proc \in [Turns -> ProcStates]
  /\ killed \in SUBSET Turns
  /\ printed \in SUBSET Turns

ChildInit ==
  /\ child = None
  /\ resultSeen = FALSE
  /\ active = None
  /\ activeEnded = FALSE
  /\ failedStart = FALSE
  /\ handle = None
  /\ proc = [t \in Turns |-> "none"]
  /\ killed = {}
  /\ printed = {}

\* terminate: a process with no pid is skipped, a dead tree takes no harm.
Terminated(p) == {q \in {p} \ {None} : proc[q] = "running"}

\* A kill that only reaches a turn still open (a mistake to be noticed).
ReachedVariant(ended, failed) ==
  IF handle # None /\ handle = active /\ ~ended THEN Terminated(child) ELSE {}

\* Adapter.kill as the core calls it.  The legacy adapter asks its handle to
\* interrupt; the handle reaches the adapter only while it is the active one
\* and has not ended (or failed to start); the adapter kills whatever `child`
\* names at that moment.
Reached(ended, failed) ==
  IF handle # None /\ handle = active /\ (~ended \/ failed)
  THEN Terminated(child) ELSE {}

KillReaches == Reached(activeEnded, failedStart)

\* startTurn refuses while an earlier turn's handle is still open.
SeamRefuses == active # None /\ ~activeEnded

\* A send that opened no child: the seam's handle is the new turn's, failed.
StartFailedSync(t) ==
  /\ active' = t
  /\ handle' = t
  /\ activeEnded' = TRUE
  /\ failedStart' = TRUE
  /\ resultSeen' = FALSE
  /\ UNCHANGED <<child, proc, printed>>

\* A send that reached spawnProcess: `child` now names this turn's process,
\* whether or not the operating system could start it.
StartChild(t, outcome) ==
  /\ active' = t
  /\ handle' = t
  /\ activeEnded' = FALSE
  /\ failedStart' = FALSE
  /\ resultSeen' = FALSE
  /\ child' = t
  /\ proc' = [proc EXCEPT ![t] = outcome]
  /\ UNCHANGED printed

\* The seam's refusal leaves a dead handle behind and touches nothing else.
StartRefused ==
  /\ handle' = None
  /\ UNCHANGED <<child, resultSeen, active, activeEnded, failedStart, proc,
                 printed>>
====
