---- MODULE CodexAdapter ----
(***************************************************************************)
(* The Codex adapter (providers/codex-cli/index.ts) behind the provider    *)
(* seam (adapter-session.ts): a child process for each turn, spoken to by  *)
(* JSON-RPC over its pipes (app-server) or read from (exec).  A process is *)
(* named by the turn it was spawned for.  Callbacks of different turns     *)
(* interleave; what a promise set off (`due`) runs before the next timer,  *)
(* event or call, but behind the lines that came in the same chunk.        *)
(***************************************************************************)
EXTENDS Integers, Sequences, FiniteSets, Functions

CONSTANTS
  MaxTurns,   \* bound: turns of the session
  RpcIds      \* ids a child numbers the requests it makes with; a bound of them

ASSUME CodexAssumption == MaxTurns \in Nat

Turns == 1..MaxTurns
None == 0
Phases == {"none", "open", "closed"}
Outcomes == {"", "ok", "failed"}
Verdicts == {"result", "refused", "unusable"}
Fates == Verdicts \cup {"", "failed"}
Calls == {"initialize", "thread/resume", "thread/start", "turn/start"}

VARIABLES
  transport,      \* what the probe found
  thread,         \* whether the session has a cliSessionId
  child, killRequested,
  responder,      \* the turn whose respondToApproval is set
  active, ended, failedStart,   \* the seam's turn, and its flags
  gaveUp,         \* the core has killed the adapter since the last send
  phase,          \* each process: "none", "open", "closed"
  outcome,        \* what send resolved to: "" while it is pending
  resultSeen,
  call, due,      \* the rpc outstanding, and what has become of it
  resume,         \* the turn was given a thread to resume
  approvals, seenApprovalIds,
  doomed,         \* terminate was called for it
  told, withdrawn,\* history: answers it was written; asks it took back
  ends,           \* history: the turns whose turn.ended it caused
  odd             \* history: it reported a status nobody knows

seamVars == <<active, ended, failedStart, gaveUp>>
childVars == <<child, killRequested, responder>>
askVars == <<approvals, seenApprovalIds, told, withdrawn>>
turnVars == <<phase, outcome, resultSeen, call, due, resume, doomed, ends, odd>>
codexVars == <<transport, thread, childVars, seamVars, turnVars, askVars>>

Each(value) == [t \in Turns |-> value]
Transports == {"app-server", "exec"}
CodexInit ==
  /\ transport \in Transports
  /\ thread = FALSE
  /\ child = None /\ killRequested = FALSE /\ responder = None
  /\ active = None /\ ended = FALSE /\ failedStart = FALSE /\ gaveUp = FALSE
  /\ phase = Each("none") /\ outcome = Each("") /\ resultSeen = Each(FALSE)
  /\ call = Each("") /\ due = Each("") /\ resume = Each(FALSE)
  /\ approvals = Each({}) /\ seenApprovalIds = Each({})
  /\ doomed = Each(FALSE)
  /\ told = Each(<< >>) /\ withdrawn = Each({})
  /\ ends = Each(<< >>) /\ odd = Each(FALSE)

Quiet == \A t \in Turns : due[t] = ""
App(t) == transport = "app-server" /\ phase[t] = "open"
Exec(t) == transport = "exec" /\ phase[t] = "open"
settled(t) == outcome[t] # ""

\* resolve, once.  A failed send ends the turn, for the seam.
Settles(t, result) ==
  /\ outcome' = IF settled(t) THEN outcome ELSE [outcome EXCEPT ![t] = result]
  /\ IF result = "failed" /\ ~settled(t) /\ active = t /\ ~ended
     THEN ended' = TRUE /\ failedStart' = TRUE
     ELSE UNCHANGED <<ended, failedStart>>
\* turn.ended goes to the active turn, whichever process it came from.
Ends(t) ==
  /\ ends' = [ends EXCEPT ![t] = Append(@, active)]
  /\ ended' = TRUE
NoEnd == UNCHANGED <<ends, ended, failedStart>>
\* terminate(child): whatever process that is.
Terminates(p) == doomed' = IF p = None THEN doomed ELSE [doomed EXCEPT ![p] = TRUE]
Invalidated(t) == approvals' = [approvals EXCEPT ![t] = {}]

\* send.  The core starts a turn when the last one has ended, or when its
\* send failed and the adapter was killed.
SpawnsAppServer(t) ==
  /\ transport = "app-server"
  /\ phase' = [phase EXCEPT ![t] = "open"]
  /\ child' = t /\ killRequested' = FALSE /\ responder' = t
  /\ call' = [call EXCEPT ![t] = "initialize"]
  /\ ended' = FALSE /\ failedStart' = FALSE
  /\ UNCHANGED outcome
\* exec is given its prompt and asked nothing.
SpawnsExec(t) ==
  /\ transport = "exec"
  /\ phase' = [phase EXCEPT ![t] = "open"]
  /\ child' = t /\ killRequested' = FALSE
  /\ ended' = FALSE /\ failedStart' = FALSE
  /\ UNCHANGED <<responder, call, outcome>>
SpawnThrows(t) ==
  /\ outcome' = [outcome EXCEPT ![t] = "failed"]
  /\ ended' = TRUE /\ failedStart' = TRUE
  /\ killRequested' = (transport = "app-server" /\ killRequested)
  /\ UNCHANGED <<phase, child, responder, call>>
Send(t) ==
  /\ Quiet
  /\ active = t - 1
  /\ active = None \/ (ended /\ (gaveUp \/ \E p \in Turns : active \in Range(ends[p])))
  /\ active' = t /\ gaveUp' = FALSE
  /\ resume' = [resume EXCEPT ![t] = thread]
  /\ SpawnsAppServer(t) \/ SpawnsExec(t) \/ SpawnThrows(t)
  /\ UNCHANGED <<transport, thread, askVars, resultSeen, due, doomed, ends, odd>>

\* The process could not be started after all.
SpawnError(t) ==
  /\ Quiet /\ phase[t] = "open" /\ outcome[t] = "" /\ call[t] \in {"", "initialize"}
  /\ resultSeen' = [resultSeen EXCEPT ![t] = TRUE]
  /\ Settles(t, "failed")
  /\ UNCHANGED <<transport, thread, childVars, askVars, active, gaveUp, phase, call, due, resume, doomed, ends, odd>>

\* handleLine's guard.  The lines of one chunk are read in a row.
ListensAnyway(t) == App(t) /\ ~killRequested /\ child = t
Listens(t) == App(t) /\ ~resultSeen[t] /\ ~killRequested /\ child = t
InChunk(t) == \A u \in Turns : due[u] # "" => u = t
\* exec's handleLine has no guard.
Reads(t) == (Exec(t) /\ Quiet) \/ (Listens(t) /\ InChunk(t))

\* An answer to the call outstanding; any other is not tracked.
Answer(t, verdict) ==
  /\ Listens(t) /\ InChunk(t)
  /\ call[t] # "" /\ due[t] = ""
  /\ verdict = "unusable" => call[t] = "thread/start"
  /\ due' = [due EXCEPT ![t] = verdict]
  /\ UNCHANGED <<transport, thread, childVars, seamVars, askVars, phase, outcome, resultSeen, call, resume, doomed, ends, odd>>
\* rpcCall's timer: it runs until the call has an answer, child or no child.
TimerFiresWhileOpen(t) == Quiet /\ call[t] # "" /\ ~killRequested
TimerFires(t) == Quiet /\ call[t] # ""
Timeout(t) ==
  /\ TimerFires(t)
  /\ due' = [due EXCEPT ![t] = "failed"]
  /\ UNCHANGED <<transport, thread, childVars, seamVars, askVars, phase, outcome, resultSeen, call, resume, doomed, ends, odd>>

\* writeMessage's guard; a write can be refused by the pipe besides.
Writable(t) == child = t /\ phase[t] = "open" /\ ~killRequested /\ ~resultSeen[t]

\* The handshake, from one answer to the next call; a refused resume falls
\* back to a fresh thread.
After(t) ==
  CASE due[t] = "result" /\ call[t] = "initialize" /\ resume[t] -> "thread/resume"
    [] due[t] = "result" /\ call[t] = "initialize" /\ ~resume[t] -> "thread/start"
    [] due[t] = "refused" /\ call[t] = "thread/resume" -> "thread/start"
    [] due[t] = "result" /\ call[t] \in {"thread/resume", "thread/start"} -> "turn/start"
    [] due[t] = "result" /\ call[t] = "turn/start" -> "done"
    [] OTHER -> "failed"
Calls_(t) ==
  /\ After(t) \in Calls /\ Writable(t)
  /\ call' = [call EXCEPT ![t] = After(t)]
  /\ UNCHANGED <<approvals, doomed, outcome, ended, failedStart>>
Done(t) ==
  /\ After(t) = "done"
  /\ call' = [call EXCEPT ![t] = ""]
  /\ Settles(t, "ok")
  /\ UNCHANGED <<approvals, doomed>>
HandshakeFails(t) ==
  /\ After(t) # "done"
  /\ call' = [call EXCEPT ![t] = ""]
  /\ Invalidated(t)
  /\ Settles(t, "failed")
  /\ Terminates(IF child = t THEN t ELSE None)
Continue(t) ==
  /\ due[t] # ""
  /\ due' = [due EXCEPT ![t] = ""]
  /\ Calls_(t) \/ Done(t) \/ HandshakeFails(t)
  /\ UNCHANGED <<transport, thread, childVars, active, gaveUp, phase, resultSeen, resume, ends, odd, seenApprovalIds, told, withdrawn>>

\* failSchemaMismatch.
Mismatches(t, seen) ==
  /\ resultSeen' = [resultSeen EXCEPT ![t] = TRUE]
  /\ Invalidated(t)
  /\ Terminates(child)
  /\ IF settled(t) /\ ~seen
     THEN Ends(t) /\ UNCHANGED <<outcome, failedStart>>
     ELSE Settles(t, "failed") /\ UNCHANGED ends
Mismatch(t) ==
  /\ Reads(t)
  /\ Len(ends[t]) < 2
  /\ Mismatches(t, resultSeen[t])
  /\ UNCHANGED <<transport, thread, childVars, active, gaveUp, phase, call, due, resume, odd, seenApprovalIds, told, withdrawn>>

\* handleApprovalRequest.
AskApproval(t, id) ==
  /\ Listens(t) /\ InChunk(t)
  /\ id \notin seenApprovalIds[t]
  /\ seenApprovalIds' = [seenApprovalIds EXCEPT ![t] = @ \cup {id}]
  /\ approvals' = [approvals EXCEPT ![t] = @ \cup {id}]
  /\ UNCHANGED <<transport, thread, childVars, seamVars, turnVars, told, withdrawn>>
\* serverRequest/resolved.
RequestResolved(t, id) ==
  /\ Listens(t) /\ InChunk(t)
  /\ id \in seenApprovalIds[t] \ withdrawn[t]
  /\ withdrawn' = [withdrawn EXCEPT ![t] = @ \cup {id}]
  /\ approvals' = [approvals EXCEPT ![t] = @ \ {id}]
  /\ UNCHANGED <<transport, thread, childVars, seamVars, turnVars, seenApprovalIds, told>>
\* respond, through the seam, at any time.
Kept(t, id) == approvals[t]
Remaining(t, id) == approvals[t] \ {id}
Respond(t, id) ==
  /\ Quiet /\ ~ended
  /\ responder = t /\ child = t /\ ~resultSeen[t] /\ ~killRequested
  /\ id \in approvals[t]
  /\ approvals' = [approvals EXCEPT ![t] = Remaining(t, id)]
  /\ \/ told' = [told EXCEPT ![t] = Append(@, id)]
     \/ UNCHANGED told   \* the pipe refuses it
  /\ UNCHANGED <<transport, thread, childVars, seamVars, turnVars, seenApprovalIds, withdrawn>>

\* thread/started; exec resolves its send by it.
ThreadStarted(t) ==
  /\ Reads(t)
  /\ thread' = TRUE
  /\ IF transport = "exec" THEN Settles(t, "ok") ELSE UNCHANGED <<outcome, ended, failedStart>>
  /\ UNCHANGED <<transport, childVars, active, gaveUp, phase, resultSeen, call, due, resume, doomed, ends, odd, askVars>>
\* turn/completed.  A status of no known kind is a schema mismatch.
TurnCompleted(t) ==
  /\ Reads(t)
  /\ Len(ends[t]) < 2
  /\ resultSeen' = [resultSeen EXCEPT ![t] = TRUE]
  /\ Invalidated(t)
  /\ Ends(t)
  /\ Terminates(child)
  /\ UNCHANGED <<transport, thread, childVars, active, failedStart, gaveUp, phase, outcome, call, due, resume, odd, seenApprovalIds, told, withdrawn>>
OddStatus(t) ==
  /\ Listens(t) /\ InChunk(t)
  /\ odd' = [odd EXCEPT ![t] = TRUE]
  /\ Mismatches(t, TRUE)
  /\ UNCHANGED <<transport, thread, childVars, active, gaveUp, phase, call, due, resume, seenApprovalIds, told, withdrawn>>
\* A line past the cap: the splitter's callback, without handleLine's guard.
Overflow(t) ==
  /\ phase[t] = "open" /\ InChunk(t) /\ ~resultSeen[t]
  /\ resultSeen' = [resultSeen EXCEPT ![t] = TRUE]
  /\ Invalidated(t)
  /\ IF settled(t) THEN Ends(t) /\ UNCHANGED <<outcome, failedStart>>
     ELSE Settles(t, "failed") /\ UNCHANGED ends
  /\ Terminates(child)
  /\ UNCHANGED <<transport, thread, childVars, active, gaveUp, phase, call, due, resume, odd, seenApprovalIds, told, withdrawn>>

\* interrupt of the handle, and the adapter's kill behind it.
Kill ==
  /\ Quiet /\ active # None
  /\ gaveUp' = TRUE
  /\ IF child # None /\ (~ended \/ failedStart)
     THEN /\ killRequested' = TRUE
          /\ approvals' = IF responder = None THEN approvals ELSE [approvals EXCEPT ![responder] = {}]
          /\ Terminates(child)
     ELSE UNCHANGED <<killRequested, approvals, doomed>>
  /\ UNCHANGED <<transport, thread, child, responder, active, ended, failedStart, phase, outcome, resultSeen, call, due, resume, ends, odd, seenApprovalIds, told, withdrawn>>

\* close: the process is gone and its output read.  One that was replaced
\* says nothing of it.
Superseded(t) == child # t /\ NoEnd /\ UNCHANGED <<child, responder, outcome>>
Exited(t) ==
  /\ child = t
  /\ child' = None /\ responder' = None
  /\ IF resultSeen[t] THEN UNCHANGED ends ELSE ends' = [ends EXCEPT ![t] = Append(@, active)]
Closes(t) ==
  /\ Exited(t) /\ (transport = "app-server" \/ settled(t))
  /\ ended' = (ended \/ ~resultSeen[t])
  /\ UNCHANGED <<outcome, failedStart>>
\* exec's send has waited for a first record until now.
ExecCloses(t) ==
  /\ Exited(t) /\ transport = "exec" /\ ~settled(t)
  /\ outcome' = [outcome EXCEPT ![t] = "failed"]
  /\ failedStart' = (resultSeen[t] /\ ~ended)
  /\ ended' = TRUE
Close(t) ==
  /\ phase[t] = "open" /\ Quiet
  /\ phase' = [phase EXCEPT ![t] = "closed"]
  /\ Invalidated(t)
  /\ due' = [due EXCEPT ![t] = IF call[t] = "" THEN "" ELSE "failed"]
  /\ Superseded(t) \/ Closes(t) \/ ExecCloses(t)
  /\ UNCHANGED <<transport, thread, killRequested, active, gaveUp, resultSeen, call, resume, doomed, odd, seenApprovalIds, told, withdrawn>>

Lines(t) ==
  \/ \E verdict \in Verdicts : Answer(t, verdict)
  \/ \E id \in RpcIds : AskApproval(t, id) \/ RequestResolved(t, id)
  \/ ThreadStarted(t) \/ TurnCompleted(t) \/ OddStatus(t) \/ Mismatch(t) \/ Overflow(t)
CodexNext ==
  \/ Kill
  \/ \E t \in Turns :
       \/ Send(t) \/ SpawnError(t) \/ Lines(t) \/ Timeout(t) \/ Continue(t) \/ Close(t)
       \/ \E id \in RpcIds : Respond(t, id)

CodexSpec == CodexInit /\ [][CodexNext]_codexVars
\* Timers fire, and what a promise set off runs.
CodexFairness == \A t \in Turns : WF_codexVars(Timeout(t)) /\ WF_codexVars(Continue(t))
FairCodexSpec == CodexSpec /\ CodexFairness

CodexTypeOK ==
  /\ transport \in Transports /\ thread \in BOOLEAN
  /\ {child, responder, active} \subseteq Turns \cup {None}
  /\ {killRequested, ended, failedStart, gaveUp} \subseteq BOOLEAN
  /\ phase \in [Turns -> Phases]
  /\ outcome \in [Turns -> Outcomes]
  /\ call \in [Turns -> Calls \cup {""}]
  /\ due \in [Turns -> Fates]
  /\ resultSeen \in [Turns -> BOOLEAN] /\ resume \in [Turns -> BOOLEAN]
  /\ doomed \in [Turns -> BOOLEAN] /\ odd \in [Turns -> BOOLEAN]
  /\ approvals \in [Turns -> SUBSET RpcIds] /\ seenApprovalIds \in [Turns -> SUBSET RpcIds]
  /\ withdrawn \in [Turns -> SUBSET RpcIds] /\ told \in [Turns -> Seq(RpcIds)]
  /\ ends \in [Turns -> Seq(Turns \cup {None})]

\* An operator's answer is written only to the process that asked, while it
\* waits for one: never a second time, never for a request it has taken back,
\* though every child numbers its requests anew (codex-cli/index.ts:236-239).
Waiting(t) == seenApprovalIds[t] \ (withdrawn[t] \cup Range(told[t]))
AnswersAreAwaited ==
  [][\A t \in Turns : told'[t] # told[t] => told'[t][Len(told'[t])] \in Waiting(t)]_codexVars

\* A process of app-server ends one turn at most, and it does not go without:
\* the turn whose send succeeded has ended by then, whether it completed, was
\* killed, crashed, or broke the protocol (codex-cli/index.ts:310-322, 595-610).
EndedTurns == UNION {Range(ends[p]) : p \in Turns}
EndsItsTurnOnce ==
  transport = "app-server" =>
    \A t \in Turns :
      /\ Len(ends[t]) <= 1
      /\ phase[t] = "closed" /\ outcome[t] = "ok" /\ ~odd[t] => t \in EndedTurns

\* A send of app-server returns, whatever the process does or leaves undone in
\* the handshake, and whatever becomes of it (codex-cli/index.ts:284-308).
SendReturns ==
  \A t \in Turns :
    (transport = "app-server" /\ phase[t] # "none") ~> (outcome[t] # "")

\* codex-cli/index.ts:319: the close handler stays silent once a result was
\* seen, "so end the open turn here".  Refuted by an unknown status.
NoTurnLeftOpen ==
  \A t \in Turns : phase[t] = "closed" /\ outcome[t] = "ok" => t \in EndedTurns
\* design/20-contract.md:3093: nothing of a turn follows its turn.ended.
\* Refuted for exec, which reads on behind a mismatch.
ExecEndsOnce == \A t \in Turns : Len(ends[t]) <= 1
====
