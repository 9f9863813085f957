---- MODULE SessionTurn ----
(***************************************************************************)
(* One session of the core (agent-console/core/index.ts) and the turns it  *)
(* runs: `send` from the claim of the turn slot to the answer it returns,  *)
(* the notifications of the turn's child, `interrupt`, `end`, `remove`,    *)
(* `restore`, the storage-failure branch of `emit`, and `shutdown`.        *)
(*                                                                         *)
(* The server is one JavaScript thread, so an action is the code between   *)
(* two awaits: it runs whole, and whatever is awaited may be overtaken by  *)
(* every other action.  `pc` says which await each turn's `send` is        *)
(* suspended at.  `stream` is what a subscriber has been handed of each    *)
(* turn, in seq order; `queue` is the session's write queue.  An adapter's *)
(* notification and the envelope it becomes are one action.                *)
(***************************************************************************)
EXTENDS ClaudeChild, Sequences

CONSTANTS
  MaxRecords,     \* bound: events and malformed records the children print
  MaxOperations   \* bound: interrupts, ends, restores, removals, shutdowns

ASSUME BoundsAssumption == MaxRecords \in Nat /\ MaxOperations \in Nat

VARIABLES
  state,      \* record.state
  turn,       \* entry.turn: the turn holding the slot, or None
  phase,      \* entry.turn.phase
  op,         \* entry.operation: which operation holds it, and its await
  present,    \* the registry still holds the entry
  ending,     \* where `end` is
  muted,      \* notifyMuted
  hasRun,     \* entry.hasRunATurn
  cliId,      \* record.cliSessionId # null
  ckpt,       \* entry.checkpointsAvailable
  fail,       \* the storage-failure branch: its stage and the turn it cleared
  stream,     \* the kinds of envelope each turn's subscribers were handed
  queue,      \* the unsettled writes: for each, the callers awaiting it
  pc,         \* where each turn's `send` is
  records,    \* records counted against MaxRecords
  operations, \* operations counted against MaxOperations
  raced,      \* history: turns disturbed while a failed `send` closed them,
              \* or whose `send` overlapped another turn's
  deadSpawn   \* history: turns handed to the adapter without holding the slot

slotVars == <<state, turn, phase>>
opVars   == <<op, present, ending>>
flagVars == <<muted, hasRun, cliId, ckpt>>
outVars  == <<stream, queue>>
histVars == <<records, operations, raced, deadSpawn>>
coreVars == <<slotVars, opVars, flagVars, fail, outVars, pc, histVars>>
vars     == <<childVars, coreVars>>

PCs == {"idle", "attach", "checkpoint", "checkpointEmit", "startedEmit",
        "messageEmit", "resumeEmit", "spawning", "errorEmit", "endedEmit",
        "done"}
\* "foreign" and "foreignEnd" are printed by the child of another turn.
Kinds == {"checkpoint", "started", "message", "event", "ended", "foreign",
          "foreignEnd"}

Op == MaxTurns + 1                 \* the operation, as a caller of emit
Callers == Turns \cup {Op}

TypeOK ==
  /\ ChildTypeOK
  /\ state \in {"live", "ended"}
  /\ turn \in Turns \cup {None}
  /\ phase \in {"starting", "running"}
  /\ op \in {"none", "restore", "restoreEmit", "remove"}
  /\ present \in BOOLEAN
  /\ ending \in {"no", "meta", "done"}
  /\ muted \in BOOLEAN
  /\ hasRun \in BOOLEAN
  /\ cliId \in BOOLEAN
  /\ ckpt \in BOOLEAN
  /\ fail \in [stage : {"no", "meta", "killing", "done"},
               victim : Turns \cup {None}, phase : {"starting", "running"}]
  /\ stream \in [Turns -> Seq(Kinds)]
  /\ queue \in Seq(SUBSET Callers)
  /\ pc \in [Turns -> PCs]
  /\ records \in Nat
  /\ operations \in Nat
  /\ raced \in SUBSET Turns
  /\ deadSpawn \in SUBSET Turns

Init ==
  /\ ChildInit
  /\ state = "live"
  /\ turn = None
  /\ phase = "starting"
  /\ op = "none"
  /\ present = TRUE
  /\ ending = "no"
  /\ muted = FALSE
  /\ hasRun = FALSE
  /\ cliId = FALSE
  /\ ckpt \in BOOLEAN
  /\ fail = [stage |-> "no", victim |-> None, phase |-> "starting"]
  /\ stream = [t \in Turns |-> << >>]
  /\ queue = << >>
  /\ pc = [t \in Turns |-> "idle"]
  /\ records = 0
  /\ operations = 0
  /\ raced = {}
  /\ deadSpawn = {}

\* Neither an operation nor a turn holds the session.
IdleVariant == op = "none"
Idle == op = "none" /\ turn = None

---------------------------------------------------------------------------
(* emit and its write queue.  An operator named ...Variant is a mistake the  *)
(* properties are shown to notice.                                           *)

Failed == fail.stage # "no"        \* entry.storageFailed

\* A subscriber is handed an envelope of turn t (None: one of no turn); a run
\* of records counts once.
Repeats(t, k) == /\ k \in {"event", "foreign"}
                 /\ stream[t] # << >>
                 /\ stream[t][Len(stream[t])] = k

Deliver(t, k) ==
  stream' = IF t = None \/ Repeats(t, k) THEN stream
            ELSE [stream EXCEPT ![t] = Append(@, k)]

EmitVariant(t, k, callers) ==      \* without the storageFailed return
  /\ Deliver(t, k)
  /\ queue' = Append(queue, callers)

\* emit delivers at once, queues the write, and does nothing after a failure.
\* Adjacent writes nobody awaits settle as one: nothing tells them apart.
Emit(t, k, callers) ==
  IF Failed
  THEN UNCHANGED outVars
  ELSE /\ Deliver(t, k)
       /\ queue' = IF callers = {} /\ queue # << >> /\ queue[Len(queue)] = {}
                   THEN queue
                   ELSE Append(queue, callers)

Notice(callers) == Emit(None, "event", callers)    \* a notice or an error

Settled(c) == \A i \in DOMAIN queue : c \notin queue[i]

\* A failed send leaves its turn in the slot while it closes it; the turn is
\* `raced` when something else writes to it or closes it meanwhile.
Races(at) == raced' = IF turn # None /\ pc[turn] \in at
                      THEN raced \cup {turn} ELSE raced

\* The oldest unsettled write succeeds.
SpillAppends ==
  /\ ~Failed
  /\ queue # << >>
  /\ queue' = Tail(queue)
  /\ UNCHANGED <<childVars, slotVars, opVars, flagVars, fail, stream, pc,
                 histVars>>

\* It fails: the session is ended and its slot cleared in one step ...
SpillFails ==
  /\ ~Failed
  /\ queue # << >>
  /\ fail' = [stage |-> "meta", victim |-> turn, phase |-> phase]
  /\ turn' = None
  /\ state' = "ended"
  /\ Races({"endedEmit"})
  /\ UNCHANGED <<childVars, phase, opVars, flagVars, outVars, pc, records,
                 operations, deadSpawn>>

\* ... the cleared turn's child is killed once meta.json is written ...
FailKills ==
  /\ fail.stage = "meta"
  /\ fail' = [fail EXCEPT !.stage = "killing"]
  /\ killed' = IF fail.victim # None THEN killed \cup KillReaches ELSE killed
  /\ Deliver(IF fail.phase = "starting" THEN None ELSE fail.victim, "ended")
  /\ UNCHANGED <<child, resultSeen, seamVars, proc, printed, slotVars,
                 opVars, flagVars, queue, pc, histVars>>

FailFinishesVariant ==             \* the failed write never settles
  /\ fail.stage = "killing"
  /\ fail' = [fail EXCEPT !.stage = "done"]
  /\ UNCHANGED <<childVars, slotVars, opVars, flagVars, outVars, pc, histVars>>

\* ... and the failed write, with those behind it, settles after session.ended.
FailFinishes ==
  /\ fail.stage = "killing"
  /\ fail' = [fail EXCEPT !.stage = "done"]
  /\ queue' = << >>
  /\ UNCHANGED <<childVars, slotVars, opVars, flagVars, stream, pc, histVars>>

---------------------------------------------------------------------------
(* send, from the claim of the slot to the answer it returns. *)

Heard == present /\ ~muted         \* the sink dispatches notifications

At(t, point) == pc' = [pc EXCEPT ![t] = point]

\* The turns whose send has claimed the slot and not returned.
Sending == {t \in Turns : pc[t] \notin {"idle", "done"}}

\* Every check and the claim are one synchronous block.  The slot can have been
\* freed under an earlier send: both sends then go on, and race.
Claim(t) ==
  /\ present
  /\ state = "live"
  /\ Idle
  /\ pc[t] = "idle"
  /\ \A u \in 1..(t - 1) : pc[u] # "idle"
  /\ turn' = t
  /\ phase' = "starting"
  /\ At(t, "attach")
  /\ raced' = IF Sending = {} THEN raced ELSE raced \cup Sending \cup {t}
  /\ UNCHANGED <<childVars, state, opVars, flagVars, fail, outVars, records,
                 operations, deadSpawn>>

\* An attachment could not be written: the slot is released outright.
AttachFails(t) ==
  /\ pc[t] = "attach"
  /\ turn' = None
  /\ At(t, "done")
  /\ UNCHANGED <<childVars, state, phase, opVars, flagVars, fail, outVars,
                 histVars>>

\* The next step of a send whose slot may have been cleared under it.
Announce(t, kind, next) ==
  IF turn = None
  THEN At(t, "done") /\ UNCHANGED outVars
  ELSE At(t, next) /\ Emit(t, kind, {t})

AttachWritten(t) ==
  /\ pc[t] = "attach"
  /\ IF ckpt
     THEN At(t, "checkpoint") /\ UNCHANGED outVars
     ELSE Announce(t, "started", "startedEmit")
  /\ UNCHANGED <<childVars, slotVars, opVars, flagVars, fail, histVars>>

\* The pre-turn checkpoint was committed, or was skipped with a notice.
Checkpointed(t) ==
  /\ pc[t] = "checkpoint"
  /\ Emit(t, "checkpoint", {t}) \/ Notice({t})
  /\ At(t, "checkpointEmit")
  /\ UNCHANGED <<childVars, slotVars, opVars, flagVars, fail, histVars>>

AnnounceTurn(t) ==
  /\ pc[t] = "checkpointEmit"
  /\ Settled(t)
  /\ Announce(t, "started", "startedEmit")
  /\ UNCHANGED <<childVars, slotVars, opVars, flagVars, fail, histVars>>

AnnounceMessage(t) ==
  /\ pc[t] = "startedEmit"
  /\ Settled(t)
  /\ phase' = IF turn = None THEN phase ELSE "running"
  /\ Announce(t, "message", "messageEmit")
  /\ UNCHANGED <<childVars, state, turn, opVars, flagVars, fail, histVars>>

\* A refused or failed send reports why, kills what it may have spawned, and
\* closes the turn it announced; `reach` is what its kill reaches.
SendFails(t, unavailable, reach) ==
  IF unavailable
  THEN /\ Notice({t})
       /\ At(t, "errorEmit")
       /\ UNCHANGED killed
  ELSE /\ killed' = killed \cup reach
       /\ Emit(t, "ended", {t})
       /\ At(t, "endedEmit")

\* adapter.send: refused by the seam, failed before a process object exists
\* (an unsafe resume id, or a spawn that throws), or spawning.
CallAdapter(t) ==
  /\ deadSpawn' = IF turn # t THEN deadSpawn \cup {t} ELSE deadSpawn
  /\ IF SeamRefuses
     THEN StartRefused /\ SendFails(t, FALSE, {})
     ELSE \/ /\ StartFailedSync(t)
             /\ \E unavailable \in BOOLEAN :
                  SendFails(t, unavailable, Terminated(child))
          \/ /\ \E outcome \in {"running", "failed"} : StartChild(t, outcome)
             /\ At(t, "spawning")
             /\ UNCHANGED <<killed, outVars>>

AfterMessage(t) ==
  /\ pc[t] = "messageEmit"
  /\ Settled(t)
  /\ IF turn = None
     THEN /\ At(t, "done")
          /\ UNCHANGED <<childVars, outVars, deadSpawn>>
     ELSE IF hasRun /\ ~cliId
          THEN /\ Notice({t})                      \* resume_unavailable
               /\ At(t, "resumeEmit")
               /\ UNCHANGED <<childVars, deadSpawn>>
          ELSE CallAdapter(t)
  /\ UNCHANGED <<slotVars, opVars, flagVars, fail, records, operations, raced>>

\* The slot is not looked at again between this emit and adapter.send.
AfterResumeNotice(t) ==
  /\ pc[t] = "resumeEmit"
  /\ Settled(t)
  /\ CallAdapter(t)
  /\ UNCHANGED <<slotVars, opVars, flagVars, fail, records, operations, raced>>

\* The child's 'spawn' event: `spawned` is notified (behind the mute the sink
\* kills the tree itself), then the message is written to its stdin.
ChildSpawned(t) ==
  /\ pc[t] = "spawning"
  /\ proc[t] = "running"
  /\ LET stray == Heard /\ turn = None         \* reported as an error
         sunk  == IF muted THEN {t} ELSE {}
     IN \/ /\ IF stray THEN Notice({}) ELSE UNCHANGED outVars
           /\ killed' = killed \cup sunk
           /\ hasRun' = TRUE
           /\ At(t, "done")
           /\ UNCHANGED <<activeEnded, failedStart>>
        \/ /\ Emit(t, "ended", {t})                      \* write_failed
           /\ killed' = killed \cup sunk \cup Reached(TRUE, ~activeEnded)
           /\ At(t, "endedEmit")
           /\ failedStart' = ~activeEnded
           /\ activeEnded' = TRUE
           /\ UNCHANGED hasRun
  /\ UNCHANGED <<child, resultSeen, active, handle, proc, printed, slotVars,
                 opVars, muted, cliId, ckpt, fail, histVars>>

\* The child's 'error' event before any 'spawn'.
ChildUnavailable(t) ==
  /\ pc[t] = "spawning"
  /\ proc[t] = "failed"
  /\ resultSeen' = TRUE
  /\ failedStart' = ~activeEnded
  /\ activeEnded' = TRUE
  /\ SendFails(t, TRUE, {})
  /\ UNCHANGED <<child, active, handle, proc, printed, slotVars, opVars,
                 flagVars, fail, histVars>>

AfterSendError(t) ==
  /\ pc[t] = "errorEmit"
  /\ Settled(t)
  /\ SendFails(t, FALSE, KillReaches)
  /\ UNCHANGED <<child, resultSeen, seamVars, proc, printed, slotVars,
                 opVars, flagVars, fail, histVars>>

\* The slot is cleared whoever holds it by now.
ReleaseFailedTurn(t) ==
  /\ pc[t] = "endedEmit"
  /\ Settled(t)
  /\ turn' = None
  /\ At(t, "done")
  /\ UNCHANGED <<childVars, state, phase, opVars, flagVars, fail, outVars,
                 histVars>>

---------------------------------------------------------------------------
(* The child's records and its exit, through the seam to handleNotification. *)

\* A turn-scoped record of process p: the core stamps it with the turn in the
\* slot, whoever printed it, and with none reports it as an error.
StampedVariant(k, p) ==            \* drops what another turn's child printed
  Emit(IF p = turn THEN turn ELSE None, k, {})

Stamped(k, p) ==
  Emit(turn, IF p = turn THEN k
             ELSE IF k = "ended" THEN "foreignEnd" ELSE "foreign", {})

\* A turn.ended forwarded from process p: the core issues the kill, frees the
\* slot and emits.  `extra` is killed by the adapter itself.
TurnEnds(p, extra) ==
  /\ activeEnded' = TRUE
  /\ IF ~Heard
     THEN killed' = killed \cup extra /\ UNCHANGED <<turn, outVars, raced>>
     ELSE /\ killed' = killed \cup extra \cup
                        IF turn = None THEN {} ELSE KillReaches
          /\ Stamped("ended", p)
          /\ turn' = None
          /\ Races({"errorEmit", "endedEmit"})

\* A process that can still be heard on its stdout.
Prints(p) == proc[p] = "running" /\ pc[p] # "spawning"

Counted == records < MaxRecords /\ records' = records + 1

\* A message, a tool call or result, usage: stamped with the turn in the slot.
AgentEvent(p) ==
  /\ Prints(p)
  /\ Heard
  /\ Counted
  /\ Stamped("event", p)
  /\ Races({"endedEmit"})
  /\ UNCHANGED <<childVars, slotVars, opVars, flagVars, fail, pc, operations,
                 deadSpawn>>

\* system/init: the first one announces session.started.
AgentSession(p) ==
  /\ Prints(p)
  /\ Heard
  /\ ~cliId
  /\ cliId' = TRUE
  /\ Notice({})
  /\ UNCHANGED <<childVars, slotVars, opVars, muted, hasRun, ckpt, fail, pc,
                 histVars>>

\* The result record.
AgentResult(p) ==
  /\ Prints(p)
  /\ p \notin printed
  /\ printed' = printed \cup {p}
  /\ resultSeen' = TRUE
  /\ TurnEnds(p, {})
  /\ UNCHANGED <<child, active, failedStart, handle, proc, state, phase,
                 opVars, flagVars, fail, pc, records, operations, deadSpawn>>

\* failSchemaMismatch: the fatal error, the turn's end unless it was already
\* reported, and the kill of whatever `child` names.
AgentMalformed(p) ==
  /\ Prints(p)
  /\ Counted
  /\ IF resultSeen
     THEN /\ IF Heard THEN Notice({}) ELSE UNCHANGED outVars
          /\ killed' = killed \cup Terminated(child)
          /\ UNCHANGED <<resultSeen, activeEnded, turn, raced>>
     ELSE resultSeen' = TRUE /\ TurnEnds(p, Terminated(child))
  /\ UNCHANGED <<child, active, failedStart, handle, proc, printed, state,
                 phase, opVars, flagVars, fail, pc, operations, deadSpawn>>

\* The splitter's overflow callback kills its own process.
AgentOverflow(p) ==
  /\ Prints(p)
  /\ Counted
  /\ ~resultSeen
  /\ resultSeen' = TRUE
  /\ TurnEnds(p, Terminated(p))
  /\ UNCHANGED <<child, active, failedStart, handle, proc, printed, state,
                 phase, opVars, flagVars, fail, pc, operations, deadSpawn>>

OwnedVariant(p) == child = p /\ p \notin killed
Owned(p) == child = p

\* 'close': ignored for a superseded child; otherwise `exited`, then the end
\* of the turn if no result was seen.
ChildCloses(p) ==
  /\ proc[p] \in {"running", "failed"}
  /\ pc[p] # "spawning"
  /\ proc' = [proc EXCEPT ![p] = "gone"]
  /\ IF ~Owned(p)
     THEN UNCHANGED <<child, activeEnded, killed, turn, outVars, raced>>
     ELSE /\ child' = None
          /\ IF resultSeen
             THEN UNCHANGED <<activeEnded, killed, turn, outVars, raced>>
             ELSE /\ activeEnded' = TRUE
                  /\ UNCHANGED killed          \* `child` is null by now
                  /\ IF ~Heard
                     THEN UNCHANGED <<turn, outVars, raced>>
                     ELSE /\ Stamped("ended", p)
                          /\ turn' = None
                          /\ Races({"errorEmit", "endedEmit"})
  /\ UNCHANGED <<resultSeen, active, failedStart, handle, printed, state,
                 phase, opVars, flagVars, fail, pc, records, operations,
                 deadSpawn>>

---------------------------------------------------------------------------
(* The other operations on the session. *)

Operates == operations < MaxOperations /\ operations' = operations + 1

Interrupt(t) ==
  /\ Operates
  /\ present
  /\ turn = t
  /\ killed' = killed \cup KillReaches
  /\ UNCHANGED <<child, resultSeen, seamVars, proc, printed, slotVars,
                 opVars, flagVars, fail, outVars, pc, records, raced,
                 deadSpawn>>

\* end: the state changes in the block that checked it ...
End ==
  /\ Operates
  /\ present
  /\ state = "live"
  /\ Idle
  /\ state' = "ended"
  /\ ending' = "meta"
  /\ UNCHANGED <<childVars, turn, phase, op, present, flagVars, fail,
                 outVars, pc, records, raced, deadSpawn>>

\* ... and is announced once meta.json is written.
EndAnnounced ==
  /\ ending = "meta"
  /\ ending' = "done"
  /\ Notice({})
  /\ UNCHANGED <<childVars, slotVars, op, present, flagVars, fail, pc,
                 histVars>>

Restore ==
  /\ Operates
  /\ present
  /\ state = "live"
  /\ Idle
  /\ op' = "restore"
  /\ UNCHANGED <<childVars, slotVars, present, ending, flagVars, fail,
                 outVars, pc, records, raced, deadSpawn>>

\* The git operations are over; most outcomes are announced.
Restored ==
  /\ op = "restore"
  /\ \/ op' = "restoreEmit" /\ Notice({Op})
     \/ op' = "none" /\ UNCHANGED outVars
  /\ UNCHANGED <<childVars, slotVars, present, ending, flagVars, fail, pc,
                 histVars>>

RestoreReturns ==
  /\ op = "restoreEmit"
  /\ Settled(Op)
  /\ op' = "none"
  /\ UNCHANGED <<childVars, slotVars, present, ending, flagVars, fail,
                 outVars, pc, histVars>>

\* remove claims the operation and waits for the write queue to drain ...
Remove ==
  /\ Operates
  /\ present
  /\ Idle
  /\ op' = "remove"
  /\ queue' = IF queue = << >> THEN queue
              ELSE [queue EXCEPT ![Len(queue)] = @ \cup {Op}]
  /\ UNCHANGED <<childVars, slotVars, present, ending, flagVars, fail,
                 stream, pc, records, raced, deadSpawn>>

\* ... then takes the session's storage and its registry entry away.
Removed ==
  /\ present
  /\ op = "remove"
  /\ Settled(Op)
  /\ present' = FALSE
  /\ UNCHANGED <<childVars, slotVars, op, ending, flagVars, fail, outVars,
                 pc, histVars>>

\* shutdown: notifications stop, and a live turn's child is killed.
Shutdown ==
  /\ Operates
  /\ ~muted
  /\ muted' = TRUE
  /\ killed' = IF present /\ turn # None THEN killed \cup KillReaches
               ELSE killed
  /\ UNCHANGED <<child, resultSeen, seamVars, proc, printed, slotVars,
                 opVars, hasRun, cliId, ckpt, fail, outVars, pc, records,
                 raced, deadSpawn>>

---------------------------------------------------------------------------
Send(t) ==
  \/ AttachFails(t) \/ AttachWritten(t) \/ Checkpointed(t) \/ AnnounceTurn(t)
  \/ AnnounceMessage(t) \/ AfterMessage(t) \/ AfterResumeNotice(t)
  \/ ChildSpawned(t) \/ ChildUnavailable(t) \/ AfterSendError(t)
  \/ ReleaseFailedTurn(t)

Child(p) ==
  \/ AgentEvent(p) \/ AgentSession(p) \/ AgentResult(p) \/ AgentMalformed(p)
  \/ AgentOverflow(p) \/ ChildCloses(p)

Spill == SpillAppends \/ SpillFails \/ FailKills \/ FailFinishes

Operation ==
  \/ End \/ EndAnnounced \/ Restore \/ Restored \/ RestoreReturns
  \/ Remove \/ Removed \/ Shutdown

Next ==
  \/ \E t \in Turns : Claim(t) \/ Send(t) \/ Child(t) \/ Interrupt(t)
  \/ Spill
  \/ Operation

Spec == Init /\ [][Next]_vars

\* Awaited I/O completes, and a killed child the adapter still owns dies: the
\* grace timer follows SIGTERM with SIGKILL.  Nothing makes an agent finish.
Fairness ==
  /\ WF_vars(Spill)
  /\ \A t \in Turns : WF_vars(Send(t))
  /\ \A t \in Turns : WF_vars(t \in killed /\ child = t /\ ChildCloses(t))

FairSpec == Spec /\ Fairness

---------------------------------------------------------------------------
(* Properties. *)

\* I5, I8: a turn never shares the session with a restore, a removal or an
\* ended state, whatever was awaited in between.
SlotExclusive == turn # None => op = "none" /\ state = "live" /\ present

\* The child of the turn a storage failure cleared, when the seam was told that
\* the turn had ended while the failure branch awaited meta.json: the handler
\* found no turn in the slot and issued no kill, and the seam then drops the one
\* kill the branch issues.  Nothing kills this child afterwards.
Outrun(p) ==
  /\ fail.stage \in {"killing", "done"}
  /\ fail.victim = p
  /\ active = p /\ activeEnded

\* I59: a child nobody has killed belongs to the turn in the slot, and a kill
\* issued for that turn reaches it (once `shutdown` listens no more, the sink
\* kills what has still to report its spawn); or it belongs to the turn the
\* storage-failure branch cleared, whose kill has still to be issued.
\* Three children escape: one outrun as above (refuted below), one whose send
\* went on to spawn without its slot, and those of sends that race.  The handle
\* a kill goes through is the active turn's: until a send has spawned without
\* its slot, the seam's own turn_in_flight refusal never meets the core.
ChildHasTurn ==
  raced = {} =>
    /\ deadSpawn = {} => handle = active
    /\ \A p \in Turns : proc[p] = "running" /\ p \notin killed =>
         \/ turn = p /\ (p \in KillReaches \/ (muted /\ pc[p] = "spawning"))
         \/ fail.stage = "meta" /\ fail.victim = p
         \/ p \in deadSpawn
         \/ Outrun(p)

Kind(t, k) == {i \in DOMAIN stream[t] : stream[t][i] = k}
Ends(t) == Kind(t, "ended") \cup Kind(t, "foreignEnd")

\* I14, I15: of one turn, the checkpoint precedes turn.started, turn.started
\* everything the turn itself causes, and nothing follows its turn.ended,
\* which comes once -- unless its send was raced.  What a child of an earlier
\* turn still prints is stamped with the turn that holds the slot by then, and
\* keeps no such order.
TurnBracketed ==
  \A t \in Turns \ raced :
    /\ \A i \in DOMAIN stream[t] :
         \/ stream[t][i] \in {"foreign", "foreignEnd"}
         \/ stream[t][i] = "checkpoint" /\ Kind(t, "started") \cap 1..i = {}
         \/ stream[t][i] = "started" /\ Kind(t, "started") = {i}
         \/ Kind(t, "started") \cap 1..(i - 1) # {}
    /\ Kind(t, "ended") \subseteq {Len(stream[t])}

\* I14: `end` refuses while a turn holds the slot, so no envelope of a turn
\* follows session.ended -- unless a child of an earlier turn freed the slot of
\* a turn whose send was still announcing it.
SessionEndIsLast ==
  [][(ending = "done" /\ raced = {} /\ \A t \in Turns : Kind(t, "foreignEnd") = {})
       => UNCHANGED stream]_vars

Quiet == /\ turn = None
         /\ fail.stage \in {"no", "done"}
         /\ \A t \in Turns : pc[t] \in {"idle", "done"}

\* I14: once nothing is in progress every announced turn that was not raced has
\* been closed, also through a storage failure; a failure of the very append of
\* turn.started leaves the turn that subscribers saw begin without an end.
AnnouncedTurnCloses ==
  Quiet =>
    \A t \in Turns \ raced : Kind(t, "started") # {} /\ Ends(t) = {} =>
      fail.victim = t /\ fail.phase = "starting"

\* Every send returns, whatever fails under it.
SendReturns == \A t \in Turns : (pc[t] = "attach") ~> (pc[t] = "done")

\* A turn whose child was killed gives up the slot, unless shutdown stopped
\* listening.
KillFreesSlot ==
  \A t \in Turns : (turn = t /\ t \in killed) ~> (turn # t \/ muted)

\* Refuted: the storage-failure branch kills the child of the turn it cleared.
FailureKillsChild ==
  fail.stage \in {"killing", "done"} =>
    \A p \in Turns : fail.victim = p /\ proc[p] = "running" => p \in killed

\* Refuted: `session_ended` is returned rather than a child spawned into a
\* session that has ended -- here, one whose session.ended has been announced.
NoSpawnIntoEndedSession ==
  [][\A p \in Turns : proc[p] = "none" /\ proc'[p] = "running"
        => ending # "done" /\ fail.stage # "done"]_vars

\* Refuted: at most one turn is in flight, as POST /message must refuse a second
\* one.  A child of turn 1 that outlives its turn prints its result while the
\* send of turn 2 is at an await: the core frees the slot, turn 3 claims it, and
\* as send looks at whether the slot is taken and never at who holds it, the
\* sends of turns 2 and 3 both go on.
OneTurnInFlight == \A t, u \in Sending : t = u

\* Refuted: the failure of an append in phase 'starting' means no subscriber
\* was told the turn began, so the turn needs no turn.ended.
SubscriberSeesTurnEnd ==
  fail.stage = "done" =>
    \A t \in Turns : Kind(t, "started") # {} => Ends(t) # {}
====
