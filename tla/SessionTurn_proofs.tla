---- MODULE SessionTurn_proofs ----
(***************************************************************************)
(* Proofs about SessionTurn, for any number of turns, records and          *)
(* operations: its type invariant; that the session's turn slot is         *)
(* exclusive; that a running child's turn holds the slot and can be        *)
(* killed; that a turn's events lie between its start and its one end;     *)
(* that a turn announced is a turn closed; and that nothing follows the    *)
(* session's end.  All but the first two rest on SessionInv, whose parts   *)
(* are given below with the steps that could break each of them.           *)
(***************************************************************************)
EXTENDS SessionTurn, TLAPS

\* What a subscriber is handed is a turn's envelope of a known kind.
LEMMA DeliverType ==
  ASSUME TypeOK, NEW t \in Turns \cup {None}, NEW k \in Kinds, Deliver(t, k)
  PROVE  stream' \in [Turns -> Seq(Kinds)]
<1>1. CASE t = None \/ Repeats(t, k)
  BY <1>1 DEF Deliver, TypeOK
<1>2. CASE ~(t = None \/ Repeats(t, k))
  <2>1. t \in Turns /\ stream[t] \in Seq(Kinds)
    BY <1>2 DEF TypeOK
  <2>2. Append(stream[t], k) \in Seq(Kinds)
    BY <2>1
  <2>3. stream' = [stream EXCEPT ![t] = Append(stream[t], k)]
    BY <1>2 DEF Deliver
  <2> QED
    BY <2>1, <2>2, <2>3 DEF TypeOK
<1> QED
  BY <1>1, <1>2

\* emit keeps the types of the stream and of the write queue.
LEMMA EmitType ==
  ASSUME TypeOK, NEW t \in Turns \cup {None}, NEW k \in Kinds,
         NEW callers \in SUBSET Callers, Emit(t, k, callers)
  PROVE  stream' \in [Turns -> Seq(Kinds)] /\ queue' \in Seq(SUBSET Callers)
<1>1. CASE Failed
  BY <1>1 DEF Emit, outVars, TypeOK
<1>2. CASE ~Failed
  <2>1. stream' \in [Turns -> Seq(Kinds)]
    BY <1>2, DeliverType DEF Emit
  <2>2. Append(queue, callers) \in Seq(SUBSET Callers)
    BY DEF TypeOK
  <2>3. queue' \in {queue, Append(queue, callers)}
    BY <1>2 DEF Emit
  <2> QED
    BY <2>1, <2>2, <2>3 DEF TypeOK
<1> QED
  BY <1>1, <1>2

\* An envelope of no turn leaves the types as they were.
LEMMA NoticeType ==
  ASSUME TypeOK, NEW callers \in SUBSET Callers, Notice(callers)
  PROVE  stream' \in [Turns -> Seq(Kinds)] /\ queue' \in Seq(SUBSET Callers)
<1>1. None \in Turns \cup {None} /\ "event" \in Kinds
  BY DEF Kinds
<1> QED
  BY <1>1, EmitType DEF Notice

\* A record is stamped with the turn in the slot, or with none.
LEMMA StampedType ==
  ASSUME TypeOK, NEW k \in {"event", "ended"}, NEW p \in Turns, Stamped(k, p)
  PROVE  stream' \in [Turns -> Seq(Kinds)] /\ queue' \in Seq(SUBSET Callers)
<1>1. turn \in Turns \cup {None} /\ {} \in SUBSET Callers
  BY DEF TypeOK
<1>2. (IF p = turn THEN k ELSE IF k = "ended" THEN "foreignEnd" ELSE "foreign")
        \in Kinds
  BY DEF Kinds
<1> QED
  BY <1>1, <1>2, EmitType DEF Stamped

\* A kill reaches processes of this session's turns.
LEMMA KillType ==
  ASSUME TypeOK
  PROVE  /\ \A p \in Turns \cup {None} : Terminated(p) \subseteq Turns
         /\ \A e, f : Reached(e, f) \subseteq Turns
         /\ KillReaches \subseteq Turns
<1>1. \A p \in Turns \cup {None} : Terminated(p) \subseteq Turns
  BY DEF Terminated
<1>2. child \in Turns \cup {None}
  BY DEF TypeOK, ChildTypeOK
<1>3. \A e, f : Reached(e, f) \subseteq Turns
  BY <1>1, <1>2 DEF Reached
<1> QED
  BY <1>1, <1>3 DEF KillReaches

\* The history of raced turns stays a set of turns.
LEMMA RacesType ==
  ASSUME TypeOK, NEW at, Races(at)
  PROVE  raced' \in SUBSET Turns
BY DEF TypeOK, Races

\* Whom a write may wake.
LEMMA CallersType == Op \in Callers /\ {} \in SUBSET Callers /\ Turns \subseteq Callers
BY DEF Callers

\* The types hold in a new session.
LEMMA InitTypeOK == Init => TypeOK
<1> SUFFICES ASSUME Init PROVE TypeOK
  OBVIOUS
<1>1. ChildTypeOK
  BY DEF Init, ChildInit, ChildTypeOK, ProcStates
<1>2. stream \in [Turns -> Seq(Kinds)] /\ queue \in Seq(SUBSET Callers)
  BY DEF Init
<1> QED
  BY <1>1, <1>2 DEF Init, TypeOK, PCs

\* What a failed send leaves behind.
LEMMA SendFailsType ==
  ASSUME TypeOK, NEW t \in Turns, NEW unavailable \in BOOLEAN,
         NEW reach \in SUBSET Turns, SendFails(t, unavailable, reach)
  PROVE  /\ stream' \in [Turns -> Seq(Kinds)] /\ queue' \in Seq(SUBSET Callers)
         /\ killed' \in SUBSET Turns
         /\ pc' \in [Turns -> PCs]
<1>1. {t} \in SUBSET Callers /\ "ended" \in Kinds
  BY CallersType DEF Kinds
<1>2. killed \in SUBSET Turns /\ pc \in [Turns -> PCs]
  BY DEF TypeOK, ChildTypeOK
<1>3. CASE unavailable
  BY <1>1, <1>2, <1>3, NoticeType DEF SendFails, At, PCs
<1>4. CASE ~unavailable
  BY <1>1, <1>2, <1>4, EmitType DEF SendFails, At, PCs
<1> QED
  BY <1>3, <1>4

\* A send that reaches the adapter keeps every type of the child's side.
LEMMA CallAdapterType ==
  ASSUME TypeOK, NEW t \in Turns, CallAdapter(t)
  PROVE  /\ ChildTypeOK'
         /\ stream' \in [Turns -> Seq(Kinds)] /\ queue' \in Seq(SUBSET Callers)
         /\ pc' \in [Turns -> PCs]
         /\ deadSpawn' \in SUBSET Turns
<1>1. deadSpawn' \in SUBSET Turns
  BY DEF CallAdapter, TypeOK
<1>2. child \in Turns \cup {None} /\ Terminated(child) \in SUBSET Turns
  BY KillType DEF TypeOK, ChildTypeOK
<1>3. CASE StartRefused /\ SendFails(t, FALSE, {})
  BY <1>1, <1>3, SendFailsType DEF StartRefused, TypeOK, ChildTypeOK
<1>4. CASE /\ StartFailedSync(t)
           /\ \E unavailable \in BOOLEAN :
                SendFails(t, unavailable, Terminated(child))
  BY <1>1, <1>2, <1>4, SendFailsType DEF StartFailedSync, TypeOK, ChildTypeOK
<1>5. CASE /\ \E outcome \in {"running", "failed"} : StartChild(t, outcome)
           /\ At(t, "spawning")
           /\ UNCHANGED <<killed, outVars>>
  <2>1. PICK outcome \in {"running", "failed"} : StartChild(t, outcome)
    BY <1>5
  <2>2. ChildTypeOK'
    BY <1>5, <2>1 DEF StartChild, TypeOK, ChildTypeOK, ProcStates
  <2> QED
    BY <1>1, <1>5, <2>2 DEF At, outVars, PCs, TypeOK
<1> QED
  BY <1>3, <1>4, <1>5 DEF CallAdapter

\* What a record that ends the turn leaves behind.
LEMMA TurnEndsType ==
  ASSUME TypeOK, NEW p \in Turns, NEW extra \in SUBSET Turns, TurnEnds(p, extra)
  PROVE  /\ stream' \in [Turns -> Seq(Kinds)] /\ queue' \in Seq(SUBSET Callers)
         /\ killed' \in SUBSET Turns
         /\ activeEnded' \in BOOLEAN
         /\ turn' \in Turns \cup {None}
         /\ raced' \in SUBSET Turns
<1>1. killed' \in SUBSET Turns /\ activeEnded' \in BOOLEAN
  BY KillType DEF TurnEnds, TypeOK, ChildTypeOK
<1>2. CASE ~Heard
  BY <1>1, <1>2 DEF TurnEnds, outVars, TypeOK
<1>3. CASE Heard
  BY <1>1, <1>3, StampedType, RacesType DEF TurnEnds
<1> QED
  BY <1>2, <1>3

\* Every step of `send` behind its claim keeps the types.
LEMMA SendTypeOK ==
  ASSUME TypeOK, NEW t \in Turns, Send(t)
  PROVE  TypeOK'
<1> USE DEF childVars, seamVars, slotVars, opVars, flagVars, outVars, histVars
<1>1. CASE AttachFails(t)
  BY <1>1 DEF AttachFails, At, PCs, TypeOK, ChildTypeOK
<1>2. CASE AttachWritten(t)
  <2>1. stream' \in [Turns -> Seq(Kinds)] /\ queue' \in Seq(SUBSET Callers)
    BY <1>2, EmitType, CallersType DEF AttachWritten, Announce, TypeOK, Kinds
  <2>2. pc' \in [Turns -> PCs]
    BY <1>2 DEF AttachWritten, Announce, At, PCs, TypeOK
  <2> QED
    BY <1>2, <2>1, <2>2 DEF AttachWritten, TypeOK, ChildTypeOK
<1>3. CASE Checkpointed(t)
  <2>1. stream' \in [Turns -> Seq(Kinds)] /\ queue' \in Seq(SUBSET Callers)
    BY <1>3, EmitType, NoticeType, CallersType DEF Checkpointed, TypeOK, Kinds
  <2>2. pc' \in [Turns -> PCs]
    BY <1>3 DEF Checkpointed, At, PCs, TypeOK
  <2> QED
    BY <1>3, <2>1, <2>2 DEF Checkpointed, TypeOK, ChildTypeOK
<1>4. CASE AnnounceTurn(t)
  <2>1. stream' \in [Turns -> Seq(Kinds)] /\ queue' \in Seq(SUBSET Callers)
    BY <1>4, EmitType, CallersType DEF AnnounceTurn, Announce, TypeOK, Kinds
  <2>2. pc' \in [Turns -> PCs]
    BY <1>4 DEF AnnounceTurn, Announce, At, PCs, TypeOK
  <2> QED
    BY <1>4, <2>1, <2>2 DEF AnnounceTurn, TypeOK, ChildTypeOK
<1>5. CASE AnnounceMessage(t)
  <2>1. stream' \in [Turns -> Seq(Kinds)] /\ queue' \in Seq(SUBSET Callers)
    BY <1>5, EmitType, CallersType DEF AnnounceMessage, Announce, TypeOK, Kinds
  <2>2. pc' \in [Turns -> PCs]
    BY <1>5 DEF AnnounceMessage, Announce, At, PCs, TypeOK
  <2> QED
    BY <1>5, <2>1, <2>2 DEF AnnounceMessage, TypeOK, ChildTypeOK
<1>6. CASE AfterMessage(t)
  <2>1. CASE turn = None
    <3>1. pc' \in [Turns -> PCs]
      BY <1>6, <2>1 DEF AfterMessage, At, PCs, TypeOK
    <3> QED
      BY <1>6, <2>1, <3>1 DEF AfterMessage, TypeOK, ChildTypeOK
  <2>2. CASE turn # None /\ hasRun /\ ~cliId
    <3>1. stream' \in [Turns -> Seq(Kinds)] /\ queue' \in Seq(SUBSET Callers)
      BY <1>6, <2>2, NoticeType, CallersType DEF AfterMessage
    <3>2. pc' \in [Turns -> PCs]
      BY <1>6, <2>2 DEF AfterMessage, At, PCs, TypeOK
    <3> QED
      BY <1>6, <2>2, <3>1, <3>2 DEF AfterMessage, TypeOK, ChildTypeOK
  <2>3. CASE turn # None /\ ~(hasRun /\ ~cliId)
    <3>1. CallAdapter(t)
      BY <1>6, <2>3 DEF AfterMessage
    <3> QED
      BY <1>6, <3>1, CallAdapterType DEF AfterMessage, TypeOK
  <2> QED
    BY <2>1, <2>2, <2>3
<1>7. CASE AfterResumeNotice(t)
  BY <1>7, CallAdapterType DEF AfterResumeNotice, TypeOK
<1>8. CASE ChildSpawned(t)
  <2>1. stream' \in [Turns -> Seq(Kinds)] /\ queue' \in Seq(SUBSET Callers)
    <3>1. CASE Notice({})
      BY <3>1, NoticeType, CallersType
    <3>2. CASE UNCHANGED outVars
      BY <3>2 DEF TypeOK
    <3>3. CASE Emit(t, "ended", {t})
      BY <3>3, EmitType, CallersType DEF Kinds
    <3> QED
      BY <1>8, <3>1, <3>2, <3>3 DEF ChildSpawned
  <2>2. killed' \in SUBSET Turns
    BY <1>8, KillType DEF ChildSpawned, TypeOK, ChildTypeOK
  <2>3. /\ activeEnded' \in BOOLEAN
        /\ failedStart' \in BOOLEAN
        /\ hasRun' \in BOOLEAN
    BY <1>8 DEF ChildSpawned, TypeOK, ChildTypeOK
  <2>4. pc' \in [Turns -> PCs]
    BY <1>8 DEF ChildSpawned, At, PCs, TypeOK
  <2>5. ChildTypeOK'
    BY <1>8, <2>2, <2>3 DEF ChildSpawned, TypeOK, ChildTypeOK
  <2> QED
    BY <1>8, <2>1, <2>3, <2>4, <2>5 DEF ChildSpawned, TypeOK
<1>9. CASE ChildUnavailable(t)
  <2>1. SendFails(t, TRUE, {})
    BY <1>9 DEF ChildUnavailable
  <2>2. /\ stream' \in [Turns -> Seq(Kinds)] /\ queue' \in Seq(SUBSET Callers)
        /\ killed' \in SUBSET Turns
        /\ pc' \in [Turns -> PCs]
    BY <2>1, SendFailsType
  <2> QED
    BY <1>9, <2>2 DEF ChildUnavailable, TypeOK, ChildTypeOK
<1>10. CASE AfterSendError(t)
  <2>1. SendFails(t, FALSE, KillReaches) /\ KillReaches \in SUBSET Turns
    BY <1>10, KillType DEF AfterSendError
  <2>2. /\ stream' \in [Turns -> Seq(Kinds)] /\ queue' \in Seq(SUBSET Callers)
        /\ killed' \in SUBSET Turns
        /\ pc' \in [Turns -> PCs]
    BY <2>1, SendFailsType
  <2> QED
    BY <1>10, <2>2 DEF AfterSendError, TypeOK, ChildTypeOK
<1>11. CASE ReleaseFailedTurn(t)
  BY <1>11 DEF ReleaseFailedTurn, At, PCs, TypeOK, ChildTypeOK
<1> QED
  BY <1>1, <1>2, <1>3, <1>4, <1>5, <1>6, <1>7, <1>8, <1>9, <1>10, <1>11 DEF Send

\* Every record of a child, and its close, keeps the types.
LEMMA ChildTypesOK ==
  ASSUME TypeOK, NEW p \in Turns, Child(p)
  PROVE  TypeOK'
<1> USE DEF childVars, seamVars, slotVars, opVars, flagVars, outVars, histVars
<1>1. CASE AgentEvent(p)
  BY <1>1, StampedType, RacesType DEF AgentEvent, Counted, TypeOK, ChildTypeOK
<1>2. CASE AgentSession(p)
  BY <1>2, NoticeType, CallersType DEF AgentSession, TypeOK, ChildTypeOK
<1>3. CASE AgentResult(p)
  BY <1>3, TurnEndsType DEF AgentResult, TypeOK, ChildTypeOK
<1>4. Terminated(child) \in SUBSET Turns /\ Terminated(p) \in SUBSET Turns
  BY KillType DEF TypeOK, ChildTypeOK
<1>5. CASE AgentMalformed(p)
  <2>1. CASE resultSeen
    <3>1. stream' \in [Turns -> Seq(Kinds)] /\ queue' \in Seq(SUBSET Callers)
      BY <1>5, <2>1, NoticeType, CallersType DEF AgentMalformed, TypeOK
    <3>2. killed' \in SUBSET Turns /\ records' \in Nat
      BY <1>4, <1>5, <2>1 DEF AgentMalformed, Counted, TypeOK, ChildTypeOK
    <3>3. ChildTypeOK'
      BY <1>5, <2>1, <3>2 DEF AgentMalformed, TypeOK, ChildTypeOK
    <3> QED
      BY <1>5, <2>1, <3>1, <3>2, <3>3 DEF AgentMalformed, TypeOK
  <2>2. CASE ~resultSeen
    BY <1>4, <1>5, <2>2, TurnEndsType
    DEF AgentMalformed, Counted, TypeOK, ChildTypeOK
  <2> QED
    BY <2>1, <2>2
<1>6. CASE AgentOverflow(p)
  BY <1>4, <1>6, TurnEndsType DEF AgentOverflow, Counted, TypeOK, ChildTypeOK
<1>7. CASE ChildCloses(p)
  <2>1. proc' \in [Turns -> ProcStates]
    BY <1>7 DEF ChildCloses, TypeOK, ChildTypeOK, ProcStates
  <2>2. stream' \in [Turns -> Seq(Kinds)] /\ queue' \in Seq(SUBSET Callers)
    BY <1>7, StampedType DEF ChildCloses, TypeOK
  <2>3. /\ child' \in Turns \cup {None} /\ turn' \in Turns \cup {None}
        /\ activeEnded' \in BOOLEAN /\ killed' \in SUBSET Turns
        /\ raced' \in SUBSET Turns
    BY <1>7, RacesType DEF ChildCloses, TypeOK, ChildTypeOK
  <2> QED
    BY <1>7, <2>1, <2>2, <2>3 DEF ChildCloses, TypeOK, ChildTypeOK
<1> QED
  BY <1>1, <1>2, <1>3, <1>5, <1>6, <1>7 DEF Child

\* The write queue and the storage-failure branch keep the types.
LEMMA SpillTypeOK ==
  ASSUME TypeOK, Spill
  PROVE  TypeOK'
<1> USE DEF childVars, seamVars, slotVars, opVars, flagVars, outVars, histVars
<1>1. CASE SpillAppends
  BY <1>1 DEF SpillAppends, TypeOK, ChildTypeOK
<1>2. CASE SpillFails
  BY <1>2, RacesType DEF SpillFails, TypeOK, ChildTypeOK
<1>3. CASE FailKills
  <2>1. stream' \in [Turns -> Seq(Kinds)]
    BY <1>3, DeliverType DEF FailKills, TypeOK, Kinds
  <2>2. killed' \in SUBSET Turns
    BY <1>3, KillType DEF FailKills, TypeOK, ChildTypeOK
  <2>3. fail' \in [stage : {"no", "meta", "killing", "done"},
                  victim : Turns \cup {None}, phase : {"starting", "running"}]
    BY <1>3 DEF FailKills, TypeOK
  <2> QED
    BY <1>3, <2>1, <2>2, <2>3 DEF FailKills, TypeOK, ChildTypeOK
<1>4. CASE FailFinishes
  <2>1. fail' \in [stage : {"no", "meta", "killing", "done"},
                  victim : Turns \cup {None}, phase : {"starting", "running"}]
    BY <1>4 DEF FailFinishes, TypeOK
  <2>2. queue' \in Seq(SUBSET Callers)
    BY <1>4 DEF FailFinishes
  <2> QED
    BY <1>4, <2>1, <2>2 DEF FailFinishes, TypeOK, ChildTypeOK
<1> QED
  BY <1>1, <1>2, <1>3, <1>4 DEF Spill

\* The other operations keep the types.
LEMMA OperationTypeOK ==
  ASSUME TypeOK, Operation
  PROVE  TypeOK'
<1> USE DEF childVars, seamVars, slotVars, opVars, flagVars, outVars, histVars
<1>1. CASE End
  BY <1>1 DEF End, Operates, TypeOK, ChildTypeOK
<1>2. CASE EndAnnounced
  BY <1>2, NoticeType, CallersType DEF EndAnnounced, TypeOK, ChildTypeOK
<1>3. CASE Restore
  BY <1>3 DEF Restore, Operates, TypeOK, ChildTypeOK
<1>4. CASE Restored
  <2>1. stream' \in [Turns -> Seq(Kinds)] /\ queue' \in Seq(SUBSET Callers)
    BY <1>4, NoticeType, CallersType DEF Restored, TypeOK
  <2> QED
    BY <1>4, <2>1 DEF Restored, TypeOK, ChildTypeOK
<1>5. CASE RestoreReturns
  BY <1>5 DEF RestoreReturns, TypeOK, ChildTypeOK
<1>6. CASE Remove
  <2>1. queue' \in Seq(SUBSET Callers)
    <3>1. CASE queue = << >>
      BY <1>6, <3>1 DEF Remove, TypeOK
    <3>2. CASE queue # << >>
      <4>1. queue \in Seq(SUBSET Callers) /\ Len(queue) \in 1..Len(queue)
        BY <3>2 DEF TypeOK
      <4>2. queue[Len(queue)] \cup {Op} \in SUBSET Callers
        BY <4>1, CallersType
      <4>3. queue' = [queue EXCEPT ![Len(queue)] = queue[Len(queue)] \cup {Op}]
        BY <1>6, <3>2 DEF Remove
      <4> QED
        BY <4>1, <4>2, <4>3
    <3> QED
      BY <3>1, <3>2
  <2> QED
    BY <1>6, <2>1 DEF Remove, Operates, TypeOK, ChildTypeOK
<1>7. CASE Removed
  <2>1. UNCHANGED <<childVars, slotVars, op, ending, flagVars, fail, outVars,
                    pc, histVars>> /\ present' = FALSE
    BY <1>7 DEF Removed
  <2>2. present' \in BOOLEAN
    BY <2>1
  <2>3. ChildTypeOK'
    BY <2>1 DEF TypeOK, ChildTypeOK
  <2> QED
    BY <2>1, <2>2, <2>3 DEF TypeOK
<1>8. CASE Shutdown
  BY <1>8, KillType DEF Shutdown, Operates, TypeOK, ChildTypeOK
<1> QED
  BY <1>1, <1>2, <1>3, <1>4, <1>5, <1>6, <1>7, <1>8 DEF Operation

\* So does every step.
LEMMA NextTypeOK == TypeOK /\ [Next]_vars => TypeOK'
<1> SUFFICES ASSUME TypeOK, [Next]_vars PROVE TypeOK'
  OBVIOUS
<1>1. ASSUME NEW t \in Turns, Claim(t) PROVE TypeOK'
  <2>1. raced' \in SUBSET Turns
    BY <1>1 DEF Claim, Sending, TypeOK
  <2> QED
    BY <1>1, <2>1 DEF Claim, At, PCs, TypeOK, ChildTypeOK, childVars, seamVars,
                      opVars, flagVars, outVars, histVars
<1>2. ASSUME NEW t \in Turns, Interrupt(t) PROVE TypeOK'
  BY <1>2, KillType DEF Interrupt, Operates, TypeOK, ChildTypeOK, seamVars,
                        slotVars, opVars, flagVars, outVars
<1>3. CASE UNCHANGED vars
  BY <1>3 DEF vars, coreVars, childVars, seamVars, slotVars, opVars, flagVars,
              outVars, histVars, TypeOK, ChildTypeOK
<1> QED
  BY <1>1, <1>2, <1>3, SendTypeOK, ChildTypesOK, SpillTypeOK, OperationTypeOK
  DEF Next

\* Every variable keeps its type, whatever the constants.
THEOREM TypeCorrect == Spec => []TypeOK
<1>1. Init => TypeOK
  BY InitTypeOK
<1>2. TypeOK /\ [Next]_vars => TypeOK'
  BY NextTypeOK
<1> QED
  BY <1>1, <1>2, PTL DEF Spec

---------------------------------------------------------------------------
(* The turn slot is exclusive.  SlotExclusive is inductive: only Claim fills *)
(* the slot, in the block that checked Idle; an operation begins only when   *)
(* Idle, and the storage failure ends the session and clears the slot in one *)
(* step.  Every other action can only clear the slot.                        *)

\* A step that gives nobody the slot, and changes neither the operation, the
\* state nor the registry, keeps the slot exclusive.
LEMMA SlotOnlyCleared ==
  ASSUME SlotExclusive, turn' \in {turn, None},
         UNCHANGED <<state, op, present>>
  PROVE  SlotExclusive'
BY DEF SlotExclusive

\* `send` behind its claim at most gives the slot back.
LEMMA SendKeepsSlot ==
  ASSUME NEW t \in Turns, Send(t)
  PROVE  turn' \in {turn, None} /\ UNCHANGED <<state, op, present>>
<1>1. CASE AttachFails(t)
  BY <1>1 DEF AttachFails, opVars
<1>2. CASE AttachWritten(t)
  BY <1>2 DEF AttachWritten, opVars, slotVars
<1>3. CASE Checkpointed(t)
  BY <1>3 DEF Checkpointed, opVars, slotVars
<1>4. CASE AnnounceTurn(t)
  BY <1>4 DEF AnnounceTurn, opVars, slotVars
<1>5. CASE AnnounceMessage(t)
  BY <1>5 DEF AnnounceMessage, opVars
<1>6. CASE AfterMessage(t) \/ AfterResumeNotice(t)
  BY <1>6 DEF AfterMessage, AfterResumeNotice, opVars, slotVars
<1>7. CASE ChildSpawned(t) \/ ChildUnavailable(t) \/ AfterSendError(t)
  BY <1>7 DEF ChildSpawned, ChildUnavailable, AfterSendError, opVars, slotVars
<1>8. CASE ReleaseFailedTurn(t)
  BY <1>8 DEF ReleaseFailedTurn, opVars
<1> QED
  BY <1>1, <1>2, <1>3, <1>4, <1>5, <1>6, <1>7, <1>8 DEF Send

\* A record or a close at most frees the slot.
LEMMA ChildKeepsSlot ==
  ASSUME NEW p \in Turns, Child(p)
  PROVE  turn' \in {turn, None} /\ UNCHANGED <<state, op, present>>
<1>1. CASE AgentEvent(p) \/ AgentSession(p)
  BY <1>1 DEF AgentEvent, AgentSession, opVars, slotVars
<1>2. CASE AgentResult(p)
  BY <1>2 DEF AgentResult, TurnEnds, opVars
<1>3. CASE AgentMalformed(p)
  BY <1>3 DEF AgentMalformed, TurnEnds, opVars
<1>4. CASE AgentOverflow(p)
  BY <1>4 DEF AgentOverflow, TurnEnds, opVars
<1>5. CASE ChildCloses(p)
  BY <1>5 DEF ChildCloses, opVars
<1> QED
  BY <1>1, <1>2, <1>3, <1>4, <1>5 DEF Child

\* The storage-failure branch clears the turn in the step that ends the session.
LEMMA SpillKeepsSlot ==
  ASSUME SlotExclusive, Spill
  PROVE  SlotExclusive'
<1>1. CASE SpillAppends
  BY <1>1, SlotOnlyCleared DEF SpillAppends, slotVars, opVars
<1>2. CASE SpillFails
  BY <1>2 DEF SpillFails, SlotExclusive
<1>3. CASE FailKills
  BY <1>3, SlotOnlyCleared DEF FailKills, slotVars, opVars
<1>4. CASE FailFinishes
  BY <1>4, SlotOnlyCleared DEF FailFinishes, slotVars, opVars
<1> QED
  BY <1>1, <1>2, <1>3, <1>4 DEF Spill

\* An operation claims the session only while no turn holds it.
LEMMA OperationKeepsSlot ==
  ASSUME SlotExclusive, Operation
  PROVE  SlotExclusive'
<1>1. CASE End
  BY <1>1 DEF End, Idle, SlotExclusive
<1>2. CASE EndAnnounced
  BY <1>2, SlotOnlyCleared DEF EndAnnounced, slotVars
<1>3. CASE Restore
  BY <1>3 DEF Restore, Idle, slotVars, SlotExclusive
<1>4. CASE Restored
  BY <1>4 DEF Restored, slotVars, SlotExclusive
<1>5. CASE RestoreReturns
  BY <1>5 DEF RestoreReturns, slotVars, SlotExclusive
<1>6. CASE Remove
  BY <1>6 DEF Remove, Idle, slotVars, SlotExclusive
<1>7. CASE Removed
  BY <1>7 DEF Removed, slotVars, SlotExclusive
<1>8. CASE Shutdown
  BY <1>8, SlotOnlyCleared DEF Shutdown, slotVars, opVars
<1> QED
  BY <1>1, <1>2, <1>3, <1>4, <1>5, <1>6, <1>7, <1>8 DEF Operation

\* No step breaks it.
LEMMA NextSlotExclusive == SlotExclusive /\ [Next]_vars => SlotExclusive'
<1> SUFFICES ASSUME SlotExclusive, [Next]_vars PROVE SlotExclusive'
  OBVIOUS
<1>1. ASSUME NEW t \in Turns, Claim(t) PROVE SlotExclusive'
  BY <1>1 DEF Claim, Idle, opVars, SlotExclusive
<1>2. ASSUME NEW t \in Turns, Send(t) PROVE SlotExclusive'
  BY <1>2, SendKeepsSlot, SlotOnlyCleared
<1>3. ASSUME NEW t \in Turns, Child(t) PROVE SlotExclusive'
  BY <1>3, ChildKeepsSlot, SlotOnlyCleared
<1>4. ASSUME NEW t \in Turns, Interrupt(t) PROVE SlotExclusive'
  BY <1>4, SlotOnlyCleared DEF Interrupt, slotVars, opVars
<1>5. CASE UNCHANGED vars
  BY <1>5, SlotOnlyCleared DEF vars, coreVars, slotVars, opVars
<1> QED
  BY <1>1, <1>2, <1>3, <1>4, <1>5, SpillKeepsSlot, OperationKeepsSlot DEF Next

\* I5, I8: while a turn holds the slot the session is live, registered, and
\* neither being restored nor removed, through every interleaving of the
\* awaits, for any number of turns.
THEOREM SlotIsExclusive == Spec => []SlotExclusive
<1>1. Init => SlotExclusive
  BY DEF Init, SlotExclusive
<1> QED
  BY <1>1, NextSlotExclusive, PTL DEF Spec

---------------------------------------------------------------------------
(* One send at a time.  Until a send is raced it is alone, and only it can   *)
(* hold the slot; a process exists only once its send has reached the        *)
(* adapter.                                                                  *)

\* Where a send is before it reaches the adapter.
Early == {"attach", "checkpoint", "checkpointEmit", "startedEmit",
          "messageEmit", "resumeEmit"}

\* A send that was not raced shares the session with no other send, and holds
\* the slot or has lost it to nobody; so does the turn a failure cleared.
SendsApart ==
  /\ \A t \in Turns \ raced :
       t \in Sending => Sending \subseteq {t} /\ turn \in {t, None}
  /\ turn # None /\ turn \notin raced => Sending \subseteq {turn}
  /\ fail.victim # None /\ fail.victim \notin raced
       => Sending \subseteq {fail.victim}

\* A storage failure leaves an ended session without a turn.
FailureEnds ==
  /\ Failed => turn = None /\ state = "ended"
  /\ ~Failed => fail.victim = None

\* A turn that has not begun holds nothing, and one that has not reached the
\* adapter has no process.
Unborn ==
  \A t \in Turns :
    /\ pc[t] \in Early \cup {"idle"} => proc[t] = "none"
    /\ pc[t] = "idle" => turn # t /\ fail.victim # t

SendInv == SendsApart /\ FailureEnds /\ Unborn

\* What a step that claims nothing does to the sends, the slot, the failure
\* and the processes.
SendsCalm == \A t \in Turns :
  pc'[t] = pc[t] \/ /\ t \in Sending /\ pc'[t] # "idle"
                    /\ pc'[t] \in Early => pc[t] \in Early
SlotCalm == turn' \in {turn, None} /\ raced \subseteq raced'
FailureCalm ==
  /\ state = "ended" => state' = "ended"
  /\ \/ (Failed' <=> Failed) /\ fail'.victim = fail.victim
     \/ ~Failed /\ Failed' /\ fail'.victim = turn /\ turn' = None /\ state' = "ended"
ProcsCalm == \A t \in Turns :
  proc'[t] = "none" \/ proc'[t] = proc[t] \/ proc[t] # "none" \/ pc'[t] \notin Early \cup {"idle"}
Calm == SendsCalm /\ SlotCalm /\ FailureCalm /\ ProcsCalm

\* A step that claims nothing keeps the sends apart.
LEMMA CalmKeeps ==
  ASSUME TypeOK, SendInv, Calm
  PROVE  SendInv'
<1>1. Sending' \subseteq Sending
  BY DEF Calm, SendsCalm, Sending
<1>2. turn' \in {turn, None} /\ raced \subseteq raced'
  BY DEF Calm, SlotCalm
<1>3. fail'.victim \in {fail.victim, turn}
  BY DEF Calm, FailureCalm
<1>4. SendsApart'
  <2>1. \A t \in Turns \ raced' :
          t \in Sending' => Sending' \subseteq {t} /\ turn' \in {t, None}
    BY <1>1, <1>2 DEF SendInv, SendsApart
  <2>2. turn' # None /\ turn' \notin raced' => Sending' \subseteq {turn'}
    BY <1>1, <1>2 DEF SendInv, SendsApart
  <2>3. fail'.victim # None /\ fail'.victim \notin raced'
          => Sending' \subseteq {fail'.victim}
    BY <1>1, <1>2, <1>3 DEF SendInv, SendsApart
  <2> QED
    BY <2>1, <2>2, <2>3 DEF SendsApart
<1>5. FailureEnds'
  BY DEF SendInv, FailureEnds, Calm, FailureCalm, SlotCalm
<1>6. Unborn'
  <2> SUFFICES ASSUME NEW t \in Turns
               PROVE  /\ pc'[t] \in Early \cup {"idle"} => proc'[t] = "none"
                      /\ pc'[t] = "idle" => turn' # t /\ fail'.victim # t
    BY DEF Unborn
  <2>1. pc'[t] \in Early \cup {"idle"} => pc[t] \in Early \cup {"idle"}
    BY DEF Calm, SendsCalm
  <2>2. pc'[t] = "idle" => pc[t] = "idle"
    BY DEF Calm, SendsCalm
  <2>3. pc'[t] \in Early \cup {"idle"} => proc'[t] = "none"
    BY <2>1 DEF SendInv, Unborn, Calm, ProcsCalm
  <2>4. pc'[t] = "idle" => turn' # t /\ fail'.victim # t
    BY <1>2, <1>3, <2>2 DEF SendInv, Unborn, None, Turns
  <2> QED
    BY <2>3, <2>4
<1> QED
  BY <1>4, <1>5, <1>6 DEF SendInv

\* A send that moves on leaves the other sends where they are.
LEMMA MoveIsCalm ==
  ASSUME NEW t \in Turns, NEW point, TypeOK, t \in Sending, At(t, point),
         point # "idle", point \in Early => pc[t] \in Early
  PROVE  SendsCalm
BY DEF TypeOK, At, SendsCalm

\* A step of `send` behind its claim claims nothing.
LEMMA SendIsCalm ==
  ASSUME NEW t \in Turns, TypeOK, Send(t)
  PROVE  Calm
<1> USE DEF childVars, seamVars, slotVars, opVars, flagVars, outVars, histVars
<1>1. SendsCalm
  <2>1. CASE AttachFails(t)
    BY <2>1, MoveIsCalm DEF AttachFails, Sending, Early
  <2>2. CASE AttachWritten(t)
    BY <2>2, MoveIsCalm DEF AttachWritten, Announce, Sending, Early
  <2>3. CASE Checkpointed(t)
    BY <2>3, MoveIsCalm DEF Checkpointed, Sending, Early
  <2>4. CASE AnnounceTurn(t)
    BY <2>4, MoveIsCalm DEF AnnounceTurn, Announce, Sending, Early
  <2>5. CASE AnnounceMessage(t)
    BY <2>5, MoveIsCalm DEF AnnounceMessage, Announce, Sending, Early
  <2>6. ASSUME CallAdapter(t), pc[t] \in Early PROVE SendsCalm
    BY <2>6, MoveIsCalm DEF CallAdapter, SendFails, Sending, Early
  <2>7. CASE AfterMessage(t)
    <3>1. pc[t] \in Early /\ t \in Sending
      BY <2>7 DEF AfterMessage, Sending, Early
    <3>2. At(t, "done") \/ At(t, "resumeEmit") \/ CallAdapter(t)
      BY <2>7 DEF AfterMessage
    <3> QED
      BY <2>6, <3>1, <3>2, MoveIsCalm DEF Early
  <2>8. CASE AfterResumeNotice(t)
    BY <2>6, <2>8 DEF AfterResumeNotice, Early
  <2>9. CASE ChildSpawned(t)
    BY <2>9, MoveIsCalm DEF ChildSpawned, Sending, Early
  <2>10. CASE ChildUnavailable(t)
    BY <2>10, MoveIsCalm DEF ChildUnavailable, SendFails, Sending, Early
  <2>11. CASE AfterSendError(t)
    BY <2>11, MoveIsCalm DEF AfterSendError, SendFails, Sending, Early
  <2>12. CASE ReleaseFailedTurn(t)
    BY <2>12, MoveIsCalm DEF ReleaseFailedTurn, Sending, Early
  <2> QED
    BY <2>1, <2>2, <2>3, <2>4, <2>5, <2>7, <2>8, <2>9, <2>10, <2>11, <2>12 DEF Send
<1>2. turn' \in {turn, None} /\ state' = state
  BY SendKeepsSlot
<1>3. raced' = raced /\ fail' = fail
  <2>1. CASE AttachFails(t) \/ AttachWritten(t) \/ Checkpointed(t) \/ AnnounceTurn(t)
    BY <2>1 DEF AttachFails, AttachWritten, Checkpointed, AnnounceTurn
  <2>2. CASE AnnounceMessage(t) \/ AfterMessage(t) \/ AfterResumeNotice(t)
    BY <2>2 DEF AnnounceMessage, AfterMessage, AfterResumeNotice
  <2>3. CASE \/ ChildSpawned(t) \/ ChildUnavailable(t) \/ AfterSendError(t)
             \/ ReleaseFailedTurn(t)
    BY <2>3 DEF ChildSpawned, ChildUnavailable, AfterSendError, ReleaseFailedTurn
  <2> QED
    BY <2>1, <2>2, <2>3 DEF Send
<1>4. ProcsCalm
  <2>1. ASSUME CallAdapter(t) PROVE proc' = proc \/ /\ At(t, "spawning")
                                                    /\ \E o : proc' = [proc EXCEPT ![t] = o]
    BY <2>1 DEF CallAdapter, StartRefused, StartFailedSync, StartChild
  <2>2. proc' = proc \/ CallAdapter(t)
    <3>1. CASE AttachFails(t) \/ AttachWritten(t) \/ Checkpointed(t) \/ AnnounceTurn(t)
      BY <3>1 DEF AttachFails, AttachWritten, Checkpointed, AnnounceTurn
    <3>2. CASE AnnounceMessage(t) \/ AfterMessage(t) \/ AfterResumeNotice(t)
      BY <3>2 DEF AnnounceMessage, AfterMessage, AfterResumeNotice
    <3>3. CASE \/ ChildSpawned(t) \/ ChildUnavailable(t) \/ AfterSendError(t)
               \/ ReleaseFailedTurn(t)
      BY <3>3 DEF ChildSpawned, ChildUnavailable, AfterSendError, ReleaseFailedTurn
    <3> QED
      BY <3>1, <3>2, <3>3 DEF Send
  <2> QED
    BY <2>1, <2>2 DEF ProcsCalm, At, TypeOK, ChildTypeOK, Early
<1> QED
  BY <1>1, <1>2, <1>3, <1>4 DEF Calm, SlotCalm, FailureCalm, Failed

\* Nor does a record or a close of a child.
LEMMA ChildIsCalm ==
  ASSUME NEW p \in Turns, TypeOK, Child(p)
  PROVE  Calm
<1> USE DEF childVars, seamVars, slotVars, opVars, flagVars, outVars, histVars
<1>1. pc' = pc /\ fail' = fail /\ state' = state
  <2>1. CASE AgentEvent(p) \/ AgentSession(p) \/ AgentResult(p)
    BY <2>1 DEF AgentEvent, AgentSession, AgentResult
  <2>2. CASE AgentMalformed(p) \/ AgentOverflow(p) \/ ChildCloses(p)
    BY <2>2 DEF AgentMalformed, AgentOverflow, ChildCloses
  <2> QED
    BY <2>1, <2>2 DEF Child
<1>2. turn' \in {turn, None}
  BY ChildKeepsSlot
<1>3. raced \subseteq raced'
  <2>1. CASE AgentEvent(p) \/ AgentSession(p) \/ AgentResult(p)
    BY <2>1 DEF AgentEvent, AgentSession, AgentResult, TurnEnds, Races
  <2>2. CASE AgentMalformed(p) \/ AgentOverflow(p) \/ ChildCloses(p)
    BY <2>2 DEF AgentMalformed, AgentOverflow, ChildCloses, TurnEnds, Races
  <2> QED
    BY <2>1, <2>2 DEF Child
<1>4. \/ proc' = proc
      \/ proc[p] # "none" /\ proc' = [proc EXCEPT ![p] = "gone"]
  <2>1. CASE AgentEvent(p) \/ AgentSession(p) \/ AgentResult(p)
    BY <2>1 DEF AgentEvent, AgentSession, AgentResult
  <2>2. CASE AgentMalformed(p) \/ AgentOverflow(p) \/ ChildCloses(p)
    BY <2>2 DEF AgentMalformed, AgentOverflow, ChildCloses
  <2> QED
    BY <2>1, <2>2 DEF Child
<1>5. ProcsCalm
  BY <1>4 DEF ProcsCalm, TypeOK, ChildTypeOK
<1> QED
  BY <1>1, <1>2, <1>3, <1>5 DEF Calm, SendsCalm, SlotCalm, FailureCalm, Failed

\* Nor the write queue: a failure clears the turn it records as its victim.
LEMMA SpillIsCalm ==
  ASSUME TypeOK, Spill
  PROVE  Calm
<1> USE DEF childVars, seamVars, slotVars, opVars, flagVars, outVars, histVars
<1>1. pc' = pc /\ proc' = proc
  <2>1. CASE SpillFails \/ SpillAppends
    BY <2>1 DEF SpillFails, SpillAppends
  <2>2. CASE FailKills \/ FailFinishes
    BY <2>2 DEF FailKills, FailFinishes
  <2> QED
    BY <2>1, <2>2 DEF Spill
<1>2. SlotCalm
  <2>1. CASE SpillFails
    BY <2>1 DEF SlotCalm, SpillFails, Races
  <2>2. CASE SpillAppends \/ FailKills \/ FailFinishes
    BY <2>2 DEF SlotCalm, SpillAppends, FailKills, FailFinishes
  <2> QED
    BY <2>1, <2>2 DEF Spill
<1>3. FailureCalm
  <2>1. CASE SpillAppends
    BY <2>1 DEF SpillAppends, FailureCalm, Failed
  <2>2. CASE SpillFails
    BY <2>2 DEF SpillFails, FailureCalm, Failed
  <2>3. CASE FailKills
    BY <2>3 DEF FailKills, FailureCalm, Failed, TypeOK
  <2>4. CASE FailFinishes
    BY <2>4 DEF FailFinishes, FailureCalm, Failed, TypeOK
  <2> QED
    BY <2>1, <2>2, <2>3, <2>4 DEF Spill
<1> QED
  BY <1>1, <1>2, <1>3 DEF Calm, SendsCalm, ProcsCalm

\* Nor another operation, or an interrupt.
LEMMA OperationIsCalm ==
  ASSUME TypeOK, Operation \/ \E t \in Turns : Interrupt(t)
  PROVE  /\ Calm
         /\ UNCHANGED <<pc, proc, turn, raced, fail, child, active, handle,
                        activeEnded, deadSpawn, phase>>
         /\ killed \subseteq killed'
         /\ muted => muted'
         /\ stream' = stream
<1> USE DEF childVars, seamVars, slotVars, opVars, flagVars, outVars, histVars
<1>1. UNCHANGED <<pc, proc, turn, raced, fail, child, active, handle,
                  activeEnded, deadSpawn, phase>>
  BY DEF Operation, End, EndAnnounced, Restore, Restored, RestoreReturns,
         Remove, Removed, Shutdown, Interrupt
<1>2. state = "ended" => state' = "ended"
  BY DEF Operation, End, EndAnnounced, Restore, Restored, RestoreReturns,
         Remove, Removed, Shutdown, Interrupt
<1>3. killed \subseteq killed' /\ (muted => muted')
  BY DEF Operation, End, EndAnnounced, Restore, Restored, RestoreReturns,
         Remove, Removed, Shutdown, Interrupt
<1>4. \A c : Notice(c) => stream' = stream
  BY DEF Notice, Emit, Deliver
<1>5. stream' = stream
  BY <1>4 DEF Operation, End, EndAnnounced, Restore, Restored, RestoreReturns,
         Remove, Removed, Shutdown, Interrupt
<1> QED
  BY <1>1, <1>2, <1>3, <1>5
  DEF Calm, SendsCalm, SlotCalm, FailureCalm, ProcsCalm, Failed

\* A claim finds no turn, and a live session; the claims that overtake an
\* earlier send are raced.
LEMMA ClaimKeeps ==
  ASSUME NEW t \in Turns, TypeOK, SendInv, Claim(t)
  PROVE  SendInv'
<1>1. /\ turn = None /\ state = "live" /\ pc[t] = "idle"
      /\ turn' = t /\ pc' = [pc EXCEPT ![t] = "attach"]
      /\ raced' = IF Sending = {} THEN raced ELSE raced \cup Sending \cup {t}
      /\ UNCHANGED <<state, fail, proc>>
  BY DEF Claim, Idle, At, childVars
<1>2. pc \in [Turns -> PCs] /\ None \notin Turns
  BY DEF TypeOK, Turns, None
<1>3. ~Failed /\ fail.victim = None
  BY <1>1 DEF SendInv, FailureEnds
<1>4. Sending' = Sending \cup {t}
  BY <1>1, <1>2 DEF Sending
<1>5. SendsApart'
  BY <1>1, <1>2, <1>3, <1>4 DEF SendsApart
<1>6. FailureEnds'
  BY <1>1, <1>3 DEF FailureEnds, Failed
<1>7. Unborn'
  BY <1>1, <1>2, <1>3 DEF SendInv, Unborn, Early
<1> QED
  BY <1>5, <1>6, <1>7 DEF SendInv

\* Every step keeps the sends apart.
LEMMA NextSendInv == TypeOK /\ SendInv /\ [Next]_vars => SendInv'
<1> SUFFICES ASSUME TypeOK, SendInv, [Next]_vars PROVE SendInv'
  OBVIOUS
<1>1. ASSUME NEW t \in Turns, Claim(t) PROVE SendInv'
  BY <1>1, ClaimKeeps
<1>2. ASSUME NEW t \in Turns, Send(t) \/ Child(t) \/ Interrupt(t) PROVE SendInv'
  BY <1>2, SendIsCalm, ChildIsCalm, OperationIsCalm, CalmKeeps
<1>3. CASE Spill \/ Operation
  BY <1>3, SpillIsCalm, OperationIsCalm, CalmKeeps
<1>4. CASE UNCHANGED vars
  <2>1. Calm
    BY <1>4 DEF vars, coreVars, childVars, seamVars, slotVars, opVars, flagVars,
                outVars, histVars, Calm, SendsCalm, SlotCalm, FailureCalm,
                ProcsCalm, Failed
  <2> QED
    BY <2>1, CalmKeeps
<1> QED
  BY <1>1, <1>2, <1>3, <1>4 DEF Next

\* In a new session nothing is being sent.
LEMMA InitSendInv == Init => SendInv
BY DEF Init, ChildInit, SendInv, SendsApart, FailureEnds, Unborn, Failed,
       Sending, Turns, None, Early

---------------------------------------------------------------------------
(* The children.  While no send was raced, the adapter, the seam's handle    *)
(* and the slot agree on whose child is running.                             *)

\* An open turn of the seam is the turn in the slot, and its send is waiting
\* for the spawn or has returned.
SeamOpen ==
  active # None /\ ~activeEnded /\ ~Failed =>
    turn = active /\ pc[active] \in {"spawning", "done"}

Seam == deadSpawn = {} => handle = active /\ SeamOpen

\* A running child nobody has killed, spawned by a send that held its slot.
Running(p) == proc[p] = "running" /\ p \notin killed /\ p \notin deadSpawn

\* It is the one a kill reaches, and its turn holds the slot, open unless
\* shutdown has stopped listening before the spawn -- or it is the turn the
\* storage failure cleared, still to be killed or closed behind the mute.
Watched(p) ==
  /\ active = p /\ child = p /\ handle = p
  /\ \/ /\ turn = p
        /\ pc[p] \in {"spawning", "done"}
        /\ muted => pc[p] = "spawning"
        /\ activeEnded => muted
     \/ fail.stage = "meta" /\ fail.victim = p
     \/ fail.victim = p /\ activeEnded

Children ==
  raced = {} => Seam /\ \A p \in Turns : Running(p) => Watched(p)

\* While a send is in progress the only child of a held slot is its own.
LEMMA RunningIsSending ==
  ASSUME NEW t \in Turns, NEW p \in Turns, SendInv, Children, raced = {},
         t \in Sending, Running(p)
  PROVE  p = t /\ Watched(t)
<1>1. Sending \subseteq {t} /\ turn \in {t, None} /\ p # None
  BY DEF SendInv, SendsApart, Turns, None
<1>2. Watched(p)
  BY DEF Children
<1>3. CASE turn = p
  BY <1>1, <1>2, <1>3
<1>4. CASE fail.victim = p
  BY <1>1, <1>2, <1>4 DEF SendInv, SendsApart
<1> QED
  BY <1>2, <1>3, <1>4 DEF Watched

\* What a watched child's kill reaches.
LEMMA WatchedIsReached ==
  ASSUME NEW p \in Turns, Running(p), Watched(p)
  PROVE  /\ ~activeEnded => p \in KillReaches
         /\ ~activeEnded => p \in Reached(TRUE, ~activeEnded)
<1>1. p # None /\ p \in Terminated(child)
  BY DEF Watched, Running, Terminated, Turns, None
<1> QED
  BY <1>1 DEF Watched, KillReaches, Reached

\* Steps that touch neither the seam nor the slot.
LEMMA ChildrenKept ==
  ASSUME SendInv, Children, raced \subseteq raced',
         UNCHANGED <<child, active, handle, activeEnded, deadSpawn, fail, turn>>,
         muted' = muted, killed \subseteq killed',
         \A p \in Turns : proc'[p] = "running" => proc[p] = "running",
         \A t \in Turns : pc[t] \in {"spawning", "done"} => pc'[t] = pc[t],
         active \in Turns \cup {None}
  PROVE  Children'
<1> SUFFICES ASSUME raced' = {}
             PROVE  Seam' /\ \A p \in Turns : Running(p)' => Watched(p)'
  BY DEF Children
<1>1. raced = {}
  OBVIOUS
<1>2. Seam'
  BY <1>1 DEF Children, Seam, SeamOpen, Failed
<1>3. ASSUME NEW p \in Turns, Running(p)' PROVE Watched(p)'
  <2>1. Running(p)
    BY <1>3 DEF Running
  <2>2. Watched(p)
    BY <1>1, <2>1 DEF Children
  <2> QED
    BY <2>2 DEF Watched
<1> QED
  BY <1>2, <1>3

\* Steps that take the slot from a turn that has no child.
LEMMA ChildrenReleased ==
  ASSUME NEW t \in Turns, SendInv, Children, t \in Sending, raced' = raced,
         pc[t] \notin {"spawning", "done"}, turn' = None,
         UNCHANGED <<child, active, handle, activeEnded, deadSpawn, fail, muted,
                     killed, proc>>,
         \A u \in Turns : u # t => pc'[u] = pc[u],
         active \in Turns \cup {None}
  PROVE  Children'
<1> SUFFICES ASSUME raced = {}
             PROVE  Seam' /\ \A p \in Turns : Running(p)' => Watched(p)'
  BY DEF Children
<1>1. turn \in {t, None}
  BY DEF SendInv, SendsApart
<1>2. Seam'
  BY <1>1 DEF Children, Seam, SeamOpen, Failed, Turns, None
<1>3. ASSUME NEW p \in Turns, Running(p)' PROVE Watched(p)'
  <2>1. Running(p)
    BY <1>3 DEF Running
  <2>2. p = t /\ Watched(t)
    BY <2>1, RunningIsSending
  <2> QED
    BY <2>2 DEF Watched
<1> QED
  BY <1>2, <1>3

\* adapter.send: the seam refuses only behind a send that spawned without its
\* slot, and the child that starts is watched.
LEMMA CallKeepsChildren ==
  ASSUME NEW t \in Turns, TypeOK, SendInv, Children, CallAdapter(t),
         pc[t] \in {"messageEmit", "resumeEmit"},
         UNCHANGED <<raced, turn, fail, muted>>
  PROVE  Children'
<1> SUFFICES ASSUME raced = {}
             PROVE  Seam' /\ \A p \in Turns : Running(p)' => Watched(p)'
  BY DEF Children
<1>1. t \in Sending /\ proc[t] = "none" /\ t # None /\ t \in Turns
  BY DEF SendInv, Unborn, Early, Sending, Turns, None
<1>2. \A p \in Turns : ~Running(p)
  BY <1>1, RunningIsSending DEF Running
<1>3. \A p \in Turns : p # t => (Running(p)' => Running(p))
  BY DEF CallAdapter, StartRefused, SendFails, StartFailedSync, StartChild,
         Running, TypeOK, ChildTypeOK
<1>4. deadSpawn' = IF turn # t THEN deadSpawn \cup {t} ELSE deadSpawn
  BY DEF CallAdapter
<1>5. CASE StartRefused /\ SendFails(t, FALSE, {}) /\ SeamRefuses
  <2>1. deadSpawn' # {}
    BY <1>1, <1>4, <1>5 DEF SeamRefuses, Children, Seam, SeamOpen, SendInv,
                            FailureEnds, Turns, None
  <2>2. ~Running(t)'
    BY <1>1, <1>5 DEF StartRefused, Running
  <2> QED
    BY <1>2, <1>3, <2>1, <2>2 DEF Seam
<1>6. CASE StartFailedSync(t)
  <2>1. ~Running(t)' /\ handle' = active' /\ activeEnded'
    BY <1>1, <1>6 DEF StartFailedSync, Running
  <2> QED
    BY <1>2, <1>3, <2>1 DEF Seam, SeamOpen
<1>7. CASE (\E outcome \in {"running", "failed"} : StartChild(t, outcome))
           /\ At(t, "spawning")
  <2>1. active' = t /\ child' = t /\ handle' = t /\ activeEnded' = FALSE
        /\ pc'[t] = "spawning"
    BY <1>7 DEF StartChild, At, TypeOK
  <2>2. deadSpawn' = {} => turn = t
    BY <1>4
  <2>3. Seam'
    BY <2>1, <2>2 DEF Seam, SeamOpen
  <2>4. Running(t)' => Watched(t)'
    BY <1>4, <2>1 DEF Running, Watched
  <2> QED
    BY <1>2, <1>3, <2>3, <2>4
<1> QED
  BY <1>5, <1>6, <1>7 DEF CallAdapter

\* The step behind a spawn: behind the mute the sink kills the child, and a
\* message that cannot be written gets its child killed through the handle.
LEMMA SpawnKeepsChildren ==
  ASSUME NEW t \in Turns, TypeOK, SendInv, Children, ChildSpawned(t)
  PROVE  Children'
<1> SUFFICES ASSUME raced' = {}
             PROVE  Seam' /\ \A p \in Turns : Running(p)' => Watched(p)'
  BY DEF Children
<1>1. /\ pc[t] = "spawning" /\ proc[t] = "running" /\ killed \subseteq killed'
      /\ UNCHANGED <<child, active, handle, proc, turn, fail, muted, deadSpawn, raced>>
  BY DEF ChildSpawned, slotVars, histVars
<1>2. \/ activeEnded' = activeEnded /\ pc' = [pc EXCEPT ![t] = "done"]
      \/ activeEnded' /\ Reached(TRUE, ~activeEnded) \subseteq killed'
  BY DEF ChildSpawned, At
<1>3. muted => t \in killed'
  BY DEF ChildSpawned
<1>4. t \in Sending /\ raced = {}
  BY <1>1 DEF Sending
<1>5. Seam'
  BY <1>1, <1>2, <1>4 DEF Children, Seam, SeamOpen, Failed, TypeOK, ChildTypeOK
<1>6. ASSUME NEW p \in Turns, Running(p)' PROVE Watched(p)'
  <2>1. Running(p)
    BY <1>1, <1>6 DEF Running
  <2>2. p = t /\ Watched(t) /\ Running(t)
    BY <1>4, <2>1, RunningIsSending
  <2>3. ~muted
    BY <1>3, <1>6, <2>2 DEF Running
  <2>4. CASE activeEnded' = activeEnded /\ pc' = [pc EXCEPT ![t] = "done"]
    BY <1>1, <2>2, <2>3, <2>4 DEF Watched, TypeOK
  <2>5. CASE activeEnded' /\ Reached(TRUE, ~activeEnded) \subseteq killed'
    <3>1. activeEnded
      BY <1>6, <2>2, <2>5, WatchedIsReached DEF Running
    <3> QED
      BY <1>1, <2>2, <2>3, <2>5, <3>1 DEF Watched
  <2> QED
    BY <1>2, <2>4, <2>5
<1> QED
  BY <1>5, <1>6

\* Every step of `send` behind its claim keeps the children watched.
LEMMA SendKeepsChildren ==
  ASSUME NEW t \in Turns, TypeOK, SendInv, Children, Send(t)
  PROVE  Children'
<1> USE DEF childVars, seamVars, slotVars, opVars, flagVars, outVars, histVars
<1>1. active \in Turns \cup {None} /\ pc \in [Turns -> PCs] /\ killed \in SUBSET Turns
  BY DEF TypeOK, ChildTypeOK
<1>2. ASSUME NEW point, At(t, point), pc[t] \notin {"spawning", "done"}
      PROVE  \A u \in Turns : pc[u] \in {"spawning", "done"} => pc'[u] = pc[u]
  BY <1>1, <1>2 DEF At
<1>3. CASE AttachFails(t)
  <2>1. pc[t] = "attach" /\ At(t, "done")
    BY <1>3 DEF AttachFails
  <2>2. \A u \in Turns : u # t => pc'[u] = pc[u]
    BY <1>1, <2>1 DEF At
  <2> QED
    BY <1>1, <1>3, <2>1, <2>2, ChildrenReleased DEF AttachFails, Sending
<1>4. CASE AttachWritten(t) \/ Checkpointed(t) \/ AnnounceTurn(t) \/ AnnounceMessage(t)
  <2>1. pc[t] \notin {"spawning", "done"} /\ \E point : At(t, point)
    BY <1>4 DEF AttachWritten, Checkpointed, AnnounceTurn, AnnounceMessage, Announce
  <2>2. UNCHANGED <<childVars, turn, fail, muted, raced, deadSpawn>>
    BY <1>4 DEF AttachWritten, Checkpointed, AnnounceTurn, AnnounceMessage
  <2> QED
    BY <1>1, <1>2, <2>1, <2>2, ChildrenKept
<1>5. CASE AfterMessage(t)
  <2>1. pc[t] = "messageEmit" /\ UNCHANGED <<turn, fail, muted, raced>>
    BY <1>5 DEF AfterMessage
  <2>2. CASE CallAdapter(t)
    BY <2>1, <2>2, CallKeepsChildren
  <2>3. CASE /\ UNCHANGED <<childVars, deadSpawn>>
             /\ \E point : At(t, point)
    BY <1>1, <1>2, <2>1, <2>3, ChildrenKept
  <2> QED
    BY <1>5, <2>2, <2>3 DEF AfterMessage
<1>6. CASE AfterResumeNotice(t)
  BY <1>6, CallKeepsChildren DEF AfterResumeNotice
<1>7. CASE ChildSpawned(t)
  BY <1>7, SpawnKeepsChildren
<1>8. CASE ChildUnavailable(t)
  <2>1. /\ pc[t] = "spawning" /\ proc[t] = "failed" /\ activeEnded'
        /\ UNCHANGED <<child, active, handle, proc, turn, fail, muted, deadSpawn, raced>>
    BY <1>8 DEF ChildUnavailable
  <2>2. killed \subseteq killed'
    BY <1>8 DEF ChildUnavailable, SendFails
  <2>3. ASSUME raced = {}, NEW p \in Turns, Running(p)' PROVE FALSE
    <3>1. Running(p) /\ t \in Sending
      BY <2>1, <2>2, <2>3 DEF Running, Sending
    <3>2. p = t
      BY <2>3, <3>1, RunningIsSending
    <3> QED
      BY <2>1, <3>1, <3>2 DEF Running
  <2>4. ASSUME raced = {} PROVE Seam'
    BY <2>1, <2>4 DEF Children, Seam, SeamOpen
  <2> QED
    BY <2>1, <2>3, <2>4 DEF Children
<1>9. CASE AfterSendError(t)
  <2>1. pc[t] = "errorEmit" /\ At(t, "endedEmit") /\ killed \subseteq killed'
    BY <1>9 DEF AfterSendError, SendFails
  <2>2. UNCHANGED <<child, active, handle, activeEnded, proc, turn, fail, muted,
                    raced, deadSpawn>>
    BY <1>9 DEF AfterSendError
  <2> QED
    BY <1>1, <1>2, <2>1, <2>2, ChildrenKept
<1>10. CASE ReleaseFailedTurn(t)
  <2>1. pc[t] = "endedEmit" /\ At(t, "done")
    BY <1>10 DEF ReleaseFailedTurn
  <2>2. \A u \in Turns : u # t => pc'[u] = pc[u]
    BY <1>1, <2>1 DEF At
  <2> QED
    BY <1>1, <1>10, <2>1, <2>2, ChildrenReleased DEF ReleaseFailedTurn, Sending
<1> QED
  BY <1>3, <1>4, <1>5, <1>6, <1>7, <1>8, <1>9, <1>10 DEF Send

\* A record that ends the turn kills the watched child of the slot it frees;
\* behind the mute it only closes the seam's turn.
LEMMA EndKeepsChildren ==
  ASSUME NEW q \in Turns, NEW extra, TypeOK, SendInv, SlotExclusive, Children,
         TurnEnds(q, extra), UNCHANGED <<child, active, handle, deadSpawn, fail,
                                         muted, proc, pc>>
  PROVE  Children'
<1> SUFFICES ASSUME raced' = {}
             PROVE  Seam' /\ \A p \in Turns : Running(p)' => Watched(p)'
  BY DEF Children
<1>1. activeEnded' /\ killed \subseteq killed' /\ raced \subseteq raced'
  BY DEF TurnEnds, Races, outVars
<1>2. raced = {}
  BY <1>1
<1>3. Seam'
  BY <1>1, <1>2 DEF Children, Seam, SeamOpen
<1>4. ASSUME NEW p \in Turns, Running(p)' PROVE Watched(p)'
  <2>1. Running(p)
    BY <1>1, <1>4 DEF Running
  <2>2. Watched(p) /\ p # None
    BY <1>2, <2>1 DEF Children, Turns, None
  <2>3. CASE fail.victim = p
    BY <1>1, <2>2, <2>3 DEF Watched
  <2>4. CASE fail.victim # p /\ Heard
    <3>1. turn = p /\ ~activeEnded
      BY <2>2, <2>4 DEF Watched, Heard
    <3>2. KillReaches \subseteq killed'
      BY <2>2, <2>4, <3>1 DEF TurnEnds
    <3> QED
      BY <1>4, <2>1, <2>2, <3>1, <3>2, WatchedIsReached DEF Running
  <2>5. CASE fail.victim # p /\ ~Heard
    <3>1. turn = p /\ turn' = turn
      BY <2>2, <2>5 DEF Watched, TurnEnds
    <3>2. muted
      BY <2>2, <2>5, <3>1 DEF Heard, SlotExclusive
    <3> QED
      BY <1>1, <2>2, <3>1, <3>2 DEF Watched
  <2> QED
    BY <2>3, <2>4, <2>5
<1> QED
  BY <1>3, <1>4

\* A close forgets the child it is the close of.
LEMMA CloseKeepsChildren ==
  ASSUME NEW q \in Turns, TypeOK, SendInv, Children, ChildCloses(q)
  PROVE  Children'
<1> SUFFICES ASSUME raced' = {}
             PROVE  Seam' /\ \A p \in Turns : Running(p)' => Watched(p)'
  BY DEF Children
<1> USE DEF slotVars, opVars, flagVars, outVars, histVars
<1>1. /\ proc' = [proc EXCEPT ![q] = "gone"]
      /\ UNCHANGED <<active, handle, deadSpawn, fail, muted, pc>>
      /\ killed' = killed /\ raced \subseteq raced'
  BY DEF ChildCloses, Races
<1>2. \/ UNCHANGED <<child, activeEnded, turn>>
      \/ child = q /\ UNCHANGED <<activeEnded, turn>>
      \/ child = q /\ activeEnded'
  BY DEF ChildCloses, Owned
<1>3. raced = {}
  BY <1>1
<1>4. Seam'
  BY <1>1, <1>2, <1>3 DEF Children, Seam, SeamOpen, Failed
<1>5. ASSUME NEW p \in Turns, Running(p)' PROVE Watched(p)'
  <2>1. Running(p) /\ p # q
    BY <1>1, <1>5 DEF Running, TypeOK, ChildTypeOK
  <2>2. Watched(p)
    BY <1>3, <2>1 DEF Children
  <2> QED
    BY <1>1, <1>2, <2>1, <2>2 DEF Watched
<1> QED
  BY <1>4, <1>5

\* Every record of a child, and its close, keeps the children watched.
LEMMA ChildKeepsChildren ==
  ASSUME NEW p \in Turns, TypeOK, SendInv, SlotExclusive, Children, Child(p)
  PROVE  Children'
<1> USE DEF childVars, seamVars, slotVars, opVars, flagVars, outVars, histVars
<1>1. active \in Turns \cup {None}
  BY DEF TypeOK, ChildTypeOK
<1>2. CASE AgentEvent(p) \/ AgentSession(p)
  BY <1>1, <1>2, ChildrenKept DEF AgentEvent, AgentSession, Races
<1>3. CASE AgentResult(p)
  BY <1>3, EndKeepsChildren DEF AgentResult
<1>4. CASE AgentMalformed(p)
  <2>1. CASE resultSeen
    <3>1. /\ UNCHANGED <<child, active, handle, activeEnded, deadSpawn, fail,
                         turn, muted, proc, pc, raced>>
          /\ killed \subseteq killed'
      BY <1>4, <2>1 DEF AgentMalformed
    <3> QED
      BY <1>1, <3>1, ChildrenKept
  <2>2. CASE ~resultSeen
    BY <1>4, <2>2, EndKeepsChildren DEF AgentMalformed
  <2> QED
    BY <2>1, <2>2
<1>5. CASE AgentOverflow(p)
  BY <1>5, EndKeepsChildren DEF AgentOverflow
<1>6. CASE ChildCloses(p)
  BY <1>6, CloseKeepsChildren
<1> QED
  BY <1>2, <1>3, <1>4, <1>5, <1>6 DEF Child

\* The storage failure hands the slot's child to FailKills, which kills it.
LEMMA SpillKeepsChildren ==
  ASSUME TypeOK, SendInv, Children, Spill
  PROVE  Children'
<1> USE DEF childVars, seamVars, slotVars, opVars, flagVars, outVars, histVars
<1>1. active \in Turns \cup {None}
  BY DEF TypeOK, ChildTypeOK
<1>2. CASE SpillAppends
  BY <1>1, <1>2, ChildrenKept DEF SpillAppends
<1>3. CASE SpillFails
  <2> SUFFICES ASSUME raced' = {}
               PROVE  Seam' /\ \A p \in Turns : Running(p)' => Watched(p)'
    BY DEF Children
  <2>1. /\ UNCHANGED childVars /\ UNCHANGED <<deadSpawn, pc, muted>>
        /\ fail'.stage = "meta" /\ fail'.victim = turn
        /\ fail.stage = "no" /\ fail.victim = None
        /\ raced \subseteq raced'
    BY <1>3 DEF SpillFails, Races, SendInv, FailureEnds, Failed
  <2>2. Seam'
    BY <2>1 DEF Children, Seam, SeamOpen, Failed
  <2>3. ASSUME NEW p \in Turns, Running(p)' PROVE Watched(p)'
    <3>1. Running(p) /\ p # None
      BY <2>1, <2>3 DEF Running, Turns, None
    <3>2. Watched(p)
      BY <2>1, <3>1 DEF Children
    <3> QED
      BY <2>1, <3>1, <3>2 DEF Watched
  <2> QED
    BY <2>2, <2>3
<1>4. CASE FailKills \/ FailFinishes
  <2> SUFFICES ASSUME raced' = {}
               PROVE  Seam' /\ \A p \in Turns : Running(p)' => Watched(p)'
    BY DEF Children
  <2>1. /\ UNCHANGED <<child, active, handle, activeEnded, proc>>
        /\ UNCHANGED <<deadSpawn, pc, muted, raced, turn>>
        /\ fail'.victim = fail.victim /\ fail'.stage # "no" /\ turn = None
        /\ killed \subseteq killed'
    BY <1>4 DEF FailKills, FailFinishes, SendInv, FailureEnds, Failed, TypeOK
  <2>2. \/ fail.stage = "killing"
        \/ fail.victim # None => KillReaches \subseteq killed'
    BY <1>4 DEF FailKills, FailFinishes
  <2>3. Seam'
    BY <2>1 DEF Children, Seam, SeamOpen, Failed
  <2>4. ASSUME NEW p \in Turns, Running(p)' PROVE Watched(p)'
    <3>1. Running(p) /\ p # None
      BY <2>1, <2>4 DEF Running, Turns, None
    <3>2. Watched(p)
      BY <2>1, <3>1 DEF Children
    <3>3. fail.victim = p
      BY <2>1, <3>1, <3>2 DEF Watched
    <3>4. activeEnded
      <4>1. turn # p
        BY <2>1, <3>1
      <4>2. CASE fail.stage = "killing"
        BY <3>2, <4>1, <4>2 DEF Watched
      <4>3. CASE KillReaches \subseteq killed'
        BY <2>4, <3>1, <3>2, <4>3, WatchedIsReached DEF Running
      <4> QED
        BY <2>2, <3>1, <3>3, <4>2, <4>3
    <3> QED
      BY <2>1, <3>2, <3>3, <3>4 DEF Watched
  <2> QED
    BY <2>3, <2>4
<1> QED
  BY <1>2, <1>3, <1>4 DEF Spill

\* Shutdown kills the child of the slot before it stops listening.
LEMMA OperationKeepsChildren ==
  ASSUME TypeOK, SendInv, SlotExclusive, Children,
         Operation \/ \E t \in Turns : Interrupt(t)
  PROVE  Children'
<1>1. /\ UNCHANGED <<pc, proc, turn, raced, fail, child, active, handle,
                     activeEnded, deadSpawn>>
      /\ killed \subseteq killed'
      /\ active \in Turns \cup {None}
  BY OperationIsCalm DEF TypeOK, ChildTypeOK
<1>2. CASE muted' = muted
  BY <1>1, <1>2, ChildrenKept
<1>3. CASE Shutdown
  <2> SUFFICES ASSUME raced' = {}
               PROVE  Seam' /\ \A p \in Turns : Running(p)' => Watched(p)'
    BY DEF Children
  <2>1. Seam'
    BY <1>1 DEF Children, Seam, SeamOpen, Failed
  <2>2. ASSUME NEW p \in Turns, Running(p)' PROVE Watched(p)'
    <3>1. Running(p) /\ p # None
      BY <1>1, <2>2 DEF Running, Turns, None
    <3>2. Watched(p)
      BY <1>1, <3>1 DEF Children
    <3>3. CASE fail.victim = p
      <4>1. turn # p
        BY <3>1, <3>3 DEF SendInv, FailureEnds
      <4> QED
        BY <1>1, <3>2, <3>3, <4>1 DEF Watched
    <3>4. CASE fail.victim # p
      <4>1. turn = p /\ present /\ ~muted /\ ~activeEnded
        BY <1>3, <3>1, <3>2, <3>4 DEF Shutdown, Watched, SlotExclusive
      <4>2. KillReaches \subseteq killed'
        BY <1>3, <3>1, <4>1 DEF Shutdown
      <4> QED
        BY <2>2, <3>1, <3>2, <4>1, <4>2, WatchedIsReached DEF Running
    <3> QED
      BY <3>3, <3>4
  <2> QED
    BY <2>1, <2>2
<1>4. muted' = muted \/ Shutdown
  BY DEF Operation, End, EndAnnounced, Restore, Restored, RestoreReturns,
         Remove, Removed, Interrupt, flagVars
<1> QED
  BY <1>2, <1>3, <1>4

\* A claim finds no watched child.
LEMMA ClaimKeepsChildren ==
  ASSUME NEW t \in Turns, TypeOK, SendInv, Children, Claim(t)
  PROVE  Children'
<1> SUFFICES ASSUME raced' = {}
             PROVE  Seam' /\ \A p \in Turns : Running(p)' => Watched(p)'
  BY DEF Children
<1>1. /\ turn = None /\ state = "live" /\ raced = {}
      /\ UNCHANGED <<child, active, handle, activeEnded, proc, killed>>
      /\ UNCHANGED <<deadSpawn, fail>>
  BY DEF Claim, Idle, childVars, seamVars
<1>2. ~Failed /\ fail.victim = None
  BY <1>1 DEF SendInv, FailureEnds
<1>3. Seam'
  BY <1>1, <1>2 DEF Children, Seam, SeamOpen, Failed, Turns, None
<1>4. ASSUME NEW p \in Turns, Running(p)' PROVE FALSE
  BY <1>1, <1>2, <1>4 DEF Running, Children, Watched, Turns, None
<1> QED
  BY <1>3, <1>4

\* Every step keeps the children watched.
LEMMA NextChildren ==
  TypeOK /\ SlotExclusive /\ SendInv /\ Children /\ [Next]_vars => Children'
<1> SUFFICES ASSUME TypeOK, SlotExclusive, SendInv, Children, [Next]_vars
             PROVE  Children'
  OBVIOUS
<1>1. ASSUME NEW t \in Turns, Claim(t) PROVE Children'
  BY <1>1, ClaimKeepsChildren
<1>2. ASSUME NEW t \in Turns, Send(t) \/ Child(t) PROVE Children'
  BY <1>2, SendKeepsChildren, ChildKeepsChildren
<1>3. CASE Operation \/ \E t \in Turns : Interrupt(t)
  BY <1>3, OperationKeepsChildren
<1>4. CASE UNCHANGED vars
  <2>1. active \in Turns \cup {None}
    BY DEF TypeOK, ChildTypeOK
  <2> QED
    BY <1>4, <2>1, ChildrenKept
    DEF vars, coreVars, childVars, seamVars, slotVars, flagVars, histVars
<1> QED
  BY <1>1, <1>2, <1>3, <1>4, SpillKeepsChildren DEF Next

\* A new session has no children.
LEMMA InitChildren == Init => Children
BY DEF Init, ChildInit, Children, Seam, SeamOpen, Running, Turns, None

\* What the sends, the slot and the children promise one another.
TurnInv == TypeOK /\ SlotExclusive /\ SendInv /\ Children

\* It holds in a new session, and every step keeps it.
LEMMA TurnInvariant == Spec => []TurnInv
<1>1. Init => TurnInv
  BY InitTypeOK, InitSendInv, InitChildren DEF Init, SlotExclusive, TurnInv
<1>2. TurnInv /\ [Next]_vars => TurnInv'
  BY NextTypeOK, NextSlotExclusive, NextSendInv, NextChildren DEF TurnInv
<1> QED
  BY <1>1, <1>2, PTL DEF Spec

\* I59: for any number of turns, while no sends race, a running child nobody
\* has killed belongs to the turn in the slot, where a kill reaches it, or to the
\* one the storage failure has still to kill, unless it was outrun or spawned
\* without its slot; and the handle a kill goes through is the active turn's.
THEOREM ChildrenHaveTurns == Spec => []ChildHasTurn
<1>1. TurnInv => ChildHasTurn
  <2> SUFFICES ASSUME TurnInv, raced = {} PROVE ChildHasTurn
    BY DEF ChildHasTurn
  <2>1. deadSpawn = {} => handle = active
    BY DEF TurnInv, Children, Seam
  <2>2. ASSUME NEW p \in Turns, Running(p), Watched(p)
        PROVE  \/ turn = p /\ (p \in KillReaches \/ (muted /\ pc[p] = "spawning"))
               \/ fail.stage = "meta" /\ fail.victim = p
               \/ Outrun(p)
    <3>1. CASE fail.victim = p
      <4>1. p # None /\ fail.stage \in {"meta", "killing", "done"}
        BY <3>1 DEF TurnInv, TypeOK, SendInv, FailureEnds, Failed, Turns, None
      <4>2. turn # p
        BY <4>1 DEF TurnInv, SendInv, FailureEnds, Failed
      <4> QED
        BY <2>2, <3>1, <4>1, <4>2 DEF Watched, Outrun
    <3>2. CASE fail.victim # p
      BY <2>2, <3>2, WatchedIsReached DEF Watched
    <3> QED
      BY <3>1, <3>2
  <2> QED
    BY <2>1, <2>2 DEF TurnInv, Children, Running, ChildHasTurn
<1> QED
  BY <1>1, TurnInvariant, PTL

---------------------------------------------------------------------------
(* The transcripts.  What subscribers were handed of a turn, against where   *)
(* its send is and who holds the slot.                                       *)

Says(s, k) == \E i \in DOMAIN s : s[i] = k

\* A transcript in order: the checkpoint before turn.started, turn.started once
\* and before everything of the turn's own, turn.ended last.
Bracketed(s) == \A i \in DOMAIN s :
  /\ \/ s[i] \in {"foreign", "foreignEnd"}
     \/ s[i] = "checkpoint" /\ \A j \in 1..i : s[j] # "started"
     \/ s[i] = "started" /\ \A j \in DOMAIN s : s[j] = "started" => j = i
     \/ \E j \in 1..(i - 1) : s[j] = "started"
  /\ s[i] = "ended" => i = Len(s)

\* A kind of envelope that may come next.
Fits(s, k) ==
  \/ k \in {"foreign", "foreignEnd"}
  \/ k \in {"checkpoint", "started"} /\ ~Says(s, "started")
  \/ k \in {"message", "event", "ended"} /\ Says(s, "started")

\* Nothing of the turn's own comes before turn.started.
LEMMA EndHasBegun ==
  ASSUME NEW s \in Seq(Kinds), Bracketed(s), Says(s, "ended")
  PROVE  Says(s, "started")
<1>1. PICK i \in DOMAIN s : s[i] = "ended"
  BY DEF Says
<1>2. \E j \in 1..(i - 1) : s[j] = "started"
  BY <1>1 DEF Bracketed
<1> QED
  BY <1>1, <1>2 DEF Says

\* An envelope that may come next keeps the transcript in order.
LEMMA NextEnvelope ==
  ASSUME NEW s \in Seq(Kinds), NEW k \in Kinds, Bracketed(s), ~Says(s, "ended"),
         Fits(s, k)
  PROVE  /\ Bracketed(Append(s, k))
         /\ \A j : Says(Append(s, k), j) <=> Says(s, j) \/ j = k
<1> DEFINE n == Append(s, k)
           l == Len(s)
<1>1. /\ l \in Nat /\ DOMAIN s = 1..l /\ DOMAIN n = 1..(l + 1) /\ Len(n) = l + 1
      /\ \A i \in 1..l : n[i] = s[i]
      /\ n[l + 1] = k
  OBVIOUS
<1> HIDE DEF n, l
<1>2. \A j : Says(n, j) <=> Says(s, j) \/ j = k
  BY <1>1 DEF Says
<1>3. ASSUME NEW i \in 1..l
      PROVE  /\ \/ n[i] \in {"foreign", "foreignEnd"}
                \/ n[i] = "checkpoint" /\ \A j \in 1..i : n[j] # "started"
                \/ n[i] = "started" /\ \A j \in DOMAIN n : n[j] = "started" => j = i
                \/ \E j \in 1..(i - 1) : n[j] = "started"
             /\ n[i] = "ended" => i = Len(n)
  <2>1. i \in DOMAIN s /\ n[i] = s[i]
    BY <1>1, <1>3
  <2>2. s[i] # "ended"
    BY <2>1 DEF Says
  <2>3. CASE s[i] \in {"foreign", "foreignEnd"}
    BY <2>1, <2>3
  <2>4. CASE s[i] = "checkpoint" /\ \A j \in 1..i : s[j] # "started"
    <3>1. \A j \in 1..i : n[j] = s[j]
      BY <1>1, <1>3
    <3> QED
      BY <2>1, <2>4, <3>1
  <2>5. CASE s[i] = "started" /\ \A j \in DOMAIN s : s[j] = "started" => j = i
    <3>1. k # "started"
      BY <2>1, <2>5 DEF Fits, Says
    <3> QED
      BY <1>1, <2>1, <2>5, <3>1
  <2>6. CASE \E j \in 1..(i - 1) : s[j] = "started"
    <3>1. PICK j \in 1..(i - 1) : s[j] = "started"
      BY <2>6
    <3>2. n[j] = s[j]
      BY <1>1, <1>3, <3>1
    <3> QED
      BY <2>1, <2>2, <3>1, <3>2
  <2> QED
    BY <2>1, <2>3, <2>4, <2>5, <2>6 DEF Bracketed
<1>4. \/ k \in {"foreign", "foreignEnd"}
      \/ k = "checkpoint" /\ \A j \in 1..(l + 1) : n[j] # "started"
      \/ k = "started" /\ \A j \in 1..(l + 1) : n[j] = "started" => j = l + 1
      \/ \E j \in 1..l : n[j] = "started"
  BY <1>1 DEF Fits, Says
<1>5. Bracketed(n)
  <2> SUFFICES ASSUME NEW i \in DOMAIN n
               PROVE  /\ \/ n[i] \in {"foreign", "foreignEnd"}
                         \/ n[i] = "checkpoint" /\ \A j \in 1..i : n[j] # "started"
                         \/ n[i] = "started" /\ \A j \in DOMAIN n : n[j] = "started" => j = i
                         \/ \E j \in 1..(i - 1) : n[j] = "started"
                      /\ n[i] = "ended" => i = Len(n)
    BY DEF Bracketed
  <2>1. CASE i \in 1..l
    BY <1>3, <2>1
  <2>2. CASE i = l + 1
    <3>1. i - 1 = l
      BY <1>1, <2>2
    <3> QED
      BY <1>1, <1>4, <2>2, <3>1
  <2> QED
    BY <1>1, <2>1, <2>2
<1> QED
  BY <1>2, <1>5 DEF n

\* One envelope of kind k for turn t, a repeated one counted once.
Adds(t, k) ==
  /\ Bracketed(stream'[t])
  /\ \A j : Says(stream'[t], j) <=> Says(stream[t], j) \/ j = k

\* What Deliver does to the transcripts.
LEMMA DeliverAdds ==
  ASSUME NEW t \in Turns, NEW k \in Kinds, TypeOK, Deliver(t, k),
         Bracketed(stream[t]), ~Says(stream[t], "ended"), Fits(stream[t], k)
  PROVE  Adds(t, k)
<1>1. stream[t] \in Seq(Kinds) /\ t # None
  BY DEF TypeOK, Turns, None
<1>2. CASE Repeats(t, k)
  <2>1. stream' = stream
    BY <1>2 DEF Deliver
  <2>2. Says(stream[t], k)
    BY <1>1, <1>2 DEF Repeats, Says
  <2> QED
    BY <2>1, <2>2 DEF Adds
<1>3. CASE ~Repeats(t, k)
  <2>1. stream'[t] = Append(stream[t], k)
    BY <1>1, <1>3 DEF Deliver, TypeOK
  <2> QED
    BY <1>1, <2>1, NextEnvelope DEF Adds
<1> QED
  BY <1>2, <1>3

\* Deliver and emit touch no other turn's transcript, and lose nothing.
LEMMA DeliverGrows ==
  ASSUME NEW t \in Turns \cup {None}, NEW k, TypeOK, Deliver(t, k)
  PROVE  /\ \A u \in Turns : u # t => stream'[u] = stream[u]
         /\ \A u \in Turns : \A j : Says(stream[u], j) => Says(stream'[u], j)
<1>1. \A u \in Turns : u # t => stream'[u] = stream[u]
  BY DEF Deliver, TypeOK
<1>2. ASSUME NEW u \in Turns, NEW j, Says(stream[u], j) PROVE Says(stream'[u], j)
  <2>1. stream'[u] = stream[u] \/ stream'[u] = Append(stream[u], k)
    BY DEF Deliver, TypeOK
  <2>2. CASE stream'[u] = stream[u]
    BY <1>2, <2>2
  <2>3. CASE stream'[u] = Append(stream[u], k)
    <3>1. stream[u] \in Seq(Kinds)
      BY DEF TypeOK
    <3>2. PICK i \in DOMAIN stream[u] : stream[u][i] = j
      BY <1>2 DEF Says
    <3>3. i \in DOMAIN stream'[u] /\ stream'[u][i] = j
      BY <2>3, <3>1, <3>2
    <3> QED
      BY <3>3 DEF Says
  <2> QED
    BY <2>1, <2>2, <2>3
<1> QED
  BY <1>1, <1>2

\* emit leaves other turns' envelopes alone and takes none back, and is silent
\* once storage has failed.
LEMMA EmitGrows ==
  ASSUME NEW t \in Turns \cup {None}, NEW k, NEW callers, TypeOK,
         Emit(t, k, callers)
  PROVE  /\ \A u \in Turns : u # t => stream'[u] = stream[u]
         /\ \A u \in Turns : \A j : Says(stream[u], j) => Says(stream'[u], j)
         /\ Failed => stream' = stream
         /\ ~Failed => Deliver(t, k)
BY DeliverGrows DEF Emit, outVars

\* An envelope of no turn leaves every turn's transcript as it was.
LEMMA NoticeSilent ==
  ASSUME NEW callers, Notice(callers)
  PROVE  stream' = stream
BY DEF Notice, Emit, Deliver, outVars

Begun(t) == Says(stream[t], "started")
Closed(t) == Says(stream[t], "ended")
Freed(t) == Says(stream[t], "foreignEnd")

\* The turn is announced once its send is past the checkpoint, and before its
\* phase is "running" ...
Announced(t) ==
  /\ pc[t] \in {"idle", "attach", "checkpoint", "checkpointEmit"} => ~Begun(t)
  /\ pc[t] \in {"startedEmit", "messageEmit", "resumeEmit", "spawning",
                "errorEmit", "endedEmit"} => Begun(t)
  /\ turn = t => /\ pc[t] = "done" => Begun(t)
                 /\ phase = "running" => Begun(t)

\* ... it is closed by the failing send, or in the step that takes the slot from
\* it, or by the storage failure that took it ...
ClosedOnce(t) ==
  /\ ~Failed /\ (t \in Sending \/ turn = t) => (Closed(t) <=> pc[t] = "endedEmit")
  /\ fail.stage = "meta" /\ fail.victim = t =>
       ~Closed(t) /\ (fail.phase = "running" => Begun(t))
  /\ Begun(t) /\ ~Closed(t) /\ ~Freed(t) =>
       \/ turn = t
       \/ fail.victim = t /\ (fail.stage = "meta" \/ fail.phase = "starting")

\* ... and a send that has lost its slot lost it to another turn's child.
SlotKept(t) == t \in Sending /\ ~Freed(t) /\ ~Failed => turn = t

Transcript(t) ==
  Bracketed(stream[t]) /\ Announced(t) /\ ClosedOnce(t) /\ SlotKept(t)

Transcripts == \A t \in Turns \ raced : Transcript(t)

\* A step that tells subscribers nothing of the turn and leaves its send and
\* its hold on the slot alone.
LEMMA TranscriptKept ==
  ASSUME NEW t \in Turns, Transcript(t), stream'[t] = stream[t], pc'[t] = pc[t],
         fail' = fail,
         (turn' = turn /\ phase' = phase) \/ (turn # t /\ turn' # t)
  PROVE  Transcript(t)'
<1>1. Bracketed(stream'[t])
  BY DEF Transcript
<1>2. Announced(t)'
  BY DEF Transcript, Announced, Begun
<1>3. ClosedOnce(t)' /\ SlotKept(t)'
  BY DEF Transcript, ClosedOnce, SlotKept, Begun, Closed, Freed, Failed, Sending
<1> QED
  BY <1>1, <1>2, <1>3 DEF Transcript

\* What the step of a send says, it says of its own turn.
LEMMA SendSpeaks ==
  ASSUME NEW t \in Turns, TypeOK, Send(t)
  PROVE  /\ \A u \in Turns : u # t => stream'[u] = stream[u] /\ pc'[u] = pc[u]
         /\ \A u \in Turns : \A j : Says(stream[u], j) => Says(stream'[u], j)
         /\ fail' = fail /\ raced' = raced
         /\ t \in Sending
<1> USE DEF childVars, seamVars, slotVars, opVars, flagVars, outVars, histVars
<1>1. t \in Turns \cup {None} /\ pc \in [Turns -> PCs]
  BY DEF TypeOK
<1>2. (\E k, c : Emit(t, k, c)) \/ (\E c : Notice(c)) \/ stream' = stream
  <2>1. CASE AttachFails(t) \/ AttachWritten(t) \/ Checkpointed(t) \/ AnnounceTurn(t)
    BY <2>1 DEF AttachFails, AttachWritten, Checkpointed, AnnounceTurn, Announce
  <2>2. CASE AnnounceMessage(t)
    BY <2>2 DEF AnnounceMessage, Announce
  <2>3. CASE AfterMessage(t) \/ AfterResumeNotice(t)
    BY <2>3 DEF AfterMessage, AfterResumeNotice, CallAdapter, SendFails
  <2>4. CASE ChildSpawned(t)
    BY <2>4 DEF ChildSpawned
  <2>5. CASE ChildUnavailable(t) \/ AfterSendError(t) \/ ReleaseFailedTurn(t)
    BY <2>5 DEF ChildUnavailable, AfterSendError, ReleaseFailedTurn, SendFails
  <2> QED
    BY <2>1, <2>2, <2>3, <2>4, <2>5 DEF Send
<1>3. /\ \A u \in Turns : u # t => stream'[u] = stream[u]
      /\ \A u \in Turns : \A j : Says(stream[u], j) => Says(stream'[u], j)
  BY <1>1, <1>2, EmitGrows, NoticeSilent
<1>4. \E point : At(t, point)
  <2>1. CASE AttachFails(t) \/ AttachWritten(t) \/ Checkpointed(t) \/ AnnounceTurn(t)
    BY <2>1 DEF AttachFails, AttachWritten, Checkpointed, AnnounceTurn, Announce
  <2>2. CASE AnnounceMessage(t)
    BY <2>2 DEF AnnounceMessage, Announce
  <2>3. CASE AfterMessage(t) \/ AfterResumeNotice(t)
    BY <2>3 DEF AfterMessage, AfterResumeNotice, CallAdapter, SendFails
  <2>4. CASE ChildSpawned(t)
    BY <2>4 DEF ChildSpawned
  <2>5. CASE ChildUnavailable(t) \/ AfterSendError(t) \/ ReleaseFailedTurn(t)
    BY <2>5 DEF ChildUnavailable, AfterSendError, ReleaseFailedTurn, SendFails
  <2> QED
    BY <2>1, <2>2, <2>3, <2>4, <2>5 DEF Send
<1>5. \A u \in Turns : u # t => pc'[u] = pc[u]
  BY <1>1, <1>4 DEF At
<1>6. fail' = fail /\ raced' = raced
  <2>1. CASE AttachFails(t) \/ AttachWritten(t) \/ Checkpointed(t) \/ AnnounceTurn(t)
    BY <2>1 DEF AttachFails, AttachWritten, Checkpointed, AnnounceTurn
  <2>2. CASE AnnounceMessage(t) \/ AfterMessage(t) \/ AfterResumeNotice(t)
    BY <2>2 DEF AnnounceMessage, AfterMessage, AfterResumeNotice
  <2>3. CASE \/ ChildSpawned(t) \/ ChildUnavailable(t) \/ AfterSendError(t)
             \/ ReleaseFailedTurn(t)
    BY <2>3 DEF ChildSpawned, ChildUnavailable, AfterSendError, ReleaseFailedTurn
  <2> QED
    BY <2>1, <2>2, <2>3 DEF Send
<1>7. t \in Sending
  <2>1. CASE AttachFails(t) \/ AttachWritten(t) \/ Checkpointed(t) \/ AnnounceTurn(t)
    BY <2>1 DEF AttachFails, AttachWritten, Checkpointed, AnnounceTurn, Sending
  <2>2. CASE AnnounceMessage(t) \/ AfterMessage(t) \/ AfterResumeNotice(t)
    BY <2>2 DEF AnnounceMessage, AfterMessage, AfterResumeNotice, Sending
  <2>3. CASE \/ ChildSpawned(t) \/ ChildUnavailable(t) \/ AfterSendError(t)
             \/ ReleaseFailedTurn(t)
    BY <2>3 DEF ChildSpawned, ChildUnavailable, AfterSendError,
                ReleaseFailedTurn, Sending
  <2> QED
    BY <2>1, <2>2, <2>3 DEF Send
<1> QED
  BY <1>3, <1>5, <1>6, <1>7

\* So it leaves the transcript of any other turn alone.
LEMMA OtherSend ==
  ASSUME NEW t \in Turns, NEW u \in Turns, TypeOK, SendInv, Send(u), u # t,
         t \notin raced, Transcript(t)
  PROVE  Transcript(t)'
<1>1. /\ stream'[t] = stream[t] /\ pc'[t] = pc[t]
      /\ fail' = fail /\ u \in Sending
  BY SendSpeaks
<1>2. turn # t
  BY <1>1 DEF SendInv, SendsApart, Turns, None
<1>3. turn' # t
  BY <1>2, SendKeepsSlot DEF Turns, None
<1> QED
  BY <1>1, <1>2, <1>3, TranscriptKept

\* An envelope a send announces while it still holds the slot.
LEMMA AnnounceTranscript ==
  ASSUME NEW t \in Turns, NEW k \in {"started", "message"}, NEW point, TypeOK,
         SendInv, t \notin raced, t \in Sending, Transcript(t),
         Announce(t, k, point), turn' = turn, fail' = fail,
         \/ k = "started" /\ point = "startedEmit"
         \/ k = "message" /\ point = "messageEmit",
         k = "message" <=> pc[t] = "startedEmit",
         k = "started" => pc[t] \in {"attach", "checkpointEmit"},
         k = "started" => phase' = phase
  PROVE  Transcript(t)'
<1>1. /\ turn \in {t, None} /\ t # None /\ (Failed => turn = None)
      /\ pc \in [Turns -> PCs] /\ stream[t] \in Seq(Kinds)
  BY DEF SendInv, SendsApart, FailureEnds, TypeOK, Turns, None
<1>2. CASE turn = None
  <2>1. pc' = [pc EXCEPT ![t] = "done"] /\ stream' = stream
    BY <1>2 DEF Announce, At, outVars
  <2>2. pc'[t] = "done" /\ turn # t /\ turn' # t
    BY <1>1, <1>2, <2>1
  <2>3. Announced(t)' /\ ClosedOnce(t)' /\ SlotKept(t)'
    BY <2>1, <2>2 DEF Transcript, Announced, ClosedOnce, SlotKept, Begun, Closed,
                      Freed, Failed, Sending
  <2> QED
    BY <2>1, <2>3 DEF Transcript
<1>3. CASE turn = t
  <2>1. pc' = [pc EXCEPT ![t] = point] /\ Emit(t, k, {t}) /\ ~Failed
    BY <1>1, <1>3 DEF Announce, At
  <2>2. pc'[t] = point
    BY <1>1, <2>1
  <2>3. Bracketed(stream[t]) /\ ~Closed(t) /\ (k = "started" <=> ~Begun(t))
    BY <1>3, <2>1 DEF Transcript, ClosedOnce, Announced
  <2>4. Fits(stream[t], k) /\ k \in Kinds
    BY <2>3 DEF Fits, Begun, Kinds
  <2>5. Deliver(t, k)
    BY <2>1 DEF Emit
  <2>6. Adds(t, k)
    BY <2>3, <2>4, <2>5, DeliverAdds DEF Closed
  <2>7. Begun(t)' /\ ~Closed(t)'
    BY <2>3, <2>6 DEF Adds, Begun, Closed
  <2>8. Announced(t)' /\ ClosedOnce(t)' /\ SlotKept(t)'
    BY <1>3, <2>1, <2>2, <2>7 DEF Announced, ClosedOnce, SlotKept, Failed
  <2> QED
    BY <2>6, <2>8 DEF Transcript, Adds
<1> QED
  BY <1>1, <1>2, <1>3

\* Before a failure there is no victim.
LEMMA SendInvVictim ==
  ASSUME SendInv, ~Failed
  PROVE  fail.victim = None /\ \A t \in Turns : fail.victim # t
BY DEF SendInv, FailureEnds, Turns, None

\* A failing send reports why, or closes the turn it announced.
LEMMA SendFailsTranscript ==
  ASSUME NEW t \in Turns, NEW unavailable \in BOOLEAN, NEW reach, TypeOK,
         SendInv, t \notin raced, Transcript(t),
         SendFails(t, unavailable, reach), turn' = turn, fail' = fail,
         pc[t] \in {"messageEmit", "resumeEmit", "spawning", "errorEmit"}
  PROVE  Transcript(t)'
<1>1. /\ turn \in {t, None} /\ t # None /\ t \in Sending
      /\ pc \in [Turns -> PCs] /\ stream[t] \in Seq(Kinds)
  BY DEF SendInv, SendsApart, Sending, TypeOK, Turns, None
<1>2. Begun(t) /\ Bracketed(stream[t]) /\ (~Failed => ~Closed(t))
  BY <1>1 DEF Transcript, Announced, ClosedOnce
<1>3. CASE unavailable
  <2>1. pc'[t] = "errorEmit" /\ stream' = stream
    BY <1>1, <1>3, NoticeSilent DEF SendFails, At
  <2>2. Announced(t)' /\ ClosedOnce(t)' /\ SlotKept(t)'
    BY <1>1, <1>2, <2>1 DEF Transcript, Announced, ClosedOnce, SlotKept, Begun,
                            Closed, Freed, Failed, Sending
  <2> QED
    BY <1>2, <2>1, <2>2 DEF Transcript
<1>4. CASE ~unavailable
  <2>1. pc'[t] = "endedEmit" /\ Emit(t, "ended", {t})
    BY <1>1, <1>4 DEF SendFails, At
  <2>2. CASE Failed
    <3>1. stream' = stream
      BY <2>1, <2>2 DEF Emit, outVars
    <3>2. Announced(t)' /\ ClosedOnce(t)' /\ SlotKept(t)'
      BY <1>1, <1>2, <2>1, <2>2, <3>1
      DEF Transcript, Announced, ClosedOnce, SlotKept, Begun, Closed, Freed,
          Failed, Sending
    <3> QED
      BY <1>2, <3>1, <3>2 DEF Transcript
  <2>3. CASE ~Failed
    <3>1. Deliver(t, "ended") /\ Fits(stream[t], "ended") /\ "ended" \in Kinds
      BY <1>2, <2>1, <2>3 DEF Emit, Fits, Begun, Kinds
    <3>2. Adds(t, "ended")
      BY <1>2, <2>3, <3>1, DeliverAdds DEF Closed
    <3>3. Begun(t)' /\ Closed(t)' /\ (Freed(t) => Freed(t)')
      BY <1>2, <3>2 DEF Adds, Begun, Closed, Freed
    <3>4. Announced(t)' /\ ClosedOnce(t)' /\ SlotKept(t)'
      BY <1>1, <2>1, <2>3, <3>3, SendInvVictim DEF Transcript, Announced,
         ClosedOnce, SlotKept, Failed
    <3> QED
      BY <3>2, <3>4 DEF Transcript, Adds
  <2> QED
    BY <2>2, <2>3
<1> QED
  BY <1>3, <1>4

\* A send that moves on and says nothing.
LEMMA MoveTranscript ==
  ASSUME NEW t \in Turns, NEW point, TypeOK, SendInv, t \notin raced,
         Transcript(t), At(t, point), stream' = stream, fail' = fail,
         t \in Sending,
         \/ pc[t] = "attach" /\ point = "checkpoint"
         \/ pc[t] = "checkpoint" /\ point = "checkpointEmit"
         \/ pc[t] = "messageEmit" /\ point = "resumeEmit"
         \/ pc[t] \in {"messageEmit", "resumeEmit"} /\ point = "spawning"
         \/ pc[t] = "spawning" /\ point = "done"
         \/ pc[t] = "messageEmit" /\ point = "done" /\ turn = None,
         turn' = turn, phase' = phase
  PROVE  Transcript(t)'
<1>1. pc'[t] = point /\ turn \in {t, None} /\ t # None
  BY DEF At, TypeOK, SendInv, SendsApart, Turns, None
<1>2. Announced(t)'
  BY <1>1 DEF Transcript, Announced, Begun
<1>3. ClosedOnce(t)'
  BY <1>1 DEF Transcript, ClosedOnce, Begun, Closed, Freed, Failed, Sending
<1>4. SlotKept(t)'
  BY <1>1 DEF Transcript, SlotKept, Freed, Failed, Sending
<1> QED
  BY <1>2, <1>3, <1>4 DEF Transcript

\* A send that gives the slot up: its turn was closed, or never announced.
LEMMA ReleaseTranscript ==
  ASSUME NEW t \in Turns, TypeOK, SendInv, t \notin raced, Transcript(t),
         At(t, "done"), stream' = stream, fail' = fail, turn' = None,
         pc[t] \in {"attach", "endedEmit"}
  PROVE  Transcript(t)'
<1>1. /\ pc'[t] = "done" /\ turn \in {t, None} /\ t # None
      /\ Failed => turn = None
      /\ t \in Sending
  BY DEF At, TypeOK, SendInv, SendsApart, FailureEnds, Sending, Turns, None
<1>2. Announced(t)'
  BY <1>1 DEF Announced
<1>3. ClosedOnce(t)'
  BY <1>1 DEF Transcript, Announced, ClosedOnce, Begun, Closed, Freed, Failed, Sending
<1>4. SlotKept(t)'
  BY <1>1 DEF SlotKept, Sending
<1> QED
  BY <1>2, <1>3, <1>4 DEF Transcript

\* The commit of the pre-turn checkpoint, or its notice.
LEMMA CheckpointTranscript ==
  ASSUME NEW t \in Turns, TypeOK, SendInv, t \notin raced, Transcript(t),
         Checkpointed(t)
  PROVE  Transcript(t)'
<1>1. /\ pc[t] = "checkpoint" /\ At(t, "checkpointEmit") /\ t \in Sending
      /\ UNCHANGED <<turn, phase, fail>>
  BY DEF Checkpointed, Sending, slotVars
<1>2. CASE stream' = stream
  BY <1>1, <1>2, MoveTranscript
<1>3. CASE Emit(t, "checkpoint", {t}) /\ ~Failed
  <2>1. /\ Deliver(t, "checkpoint") /\ "checkpoint" \in Kinds
        /\ ~Begun(t) /\ ~Closed(t) /\ Bracketed(stream[t])
    BY <1>1, <1>3 DEF Emit, Kinds, Transcript, Announced, ClosedOnce
  <2>2. Adds(t, "checkpoint")
    BY <2>1, DeliverAdds DEF Fits, Begun, Closed
  <2>3. ~Begun(t)' /\ ~Closed(t)' /\ (Freed(t)' <=> Freed(t))
    BY <2>1, <2>2 DEF Adds, Begun, Closed, Freed
  <2>4. pc'[t] = "checkpointEmit"
    BY <1>1 DEF At, TypeOK
  <2>5. phase = "running" => turn # t
    BY <2>1 DEF Transcript, Announced
  <2>6. Announced(t)' /\ ClosedOnce(t)' /\ SlotKept(t)'
    BY <1>1, <1>3, <2>3, <2>4, <2>5, SendInvVictim
    DEF Transcript, Announced, ClosedOnce, SlotKept, Failed, Sending
  <2> QED
    BY <2>2, <2>6 DEF Transcript, Adds
<1>4. CASE Emit(t, "checkpoint", {t}) /\ Failed
  BY <1>2, <1>4 DEF Emit, outVars
<1> QED
  BY <1>2, <1>3, <1>4, NoticeSilent DEF Checkpointed

\* adapter.send, told by the send that calls it.
LEMMA CallTranscript ==
  ASSUME NEW t \in Turns, TypeOK, SendInv, t \notin raced, Transcript(t),
         CallAdapter(t), pc[t] \in {"messageEmit", "resumeEmit"},
         UNCHANGED <<turn, phase, fail>>
  PROVE  Transcript(t)'
<1>1. CASE \E unavailable \in BOOLEAN : \E reach : SendFails(t, unavailable, reach)
  BY <1>1, SendFailsTranscript
<1>2. CASE At(t, "spawning") /\ stream' = stream
  BY <1>2, MoveTranscript DEF Sending
<1> QED
  BY <1>1, <1>2 DEF CallAdapter, outVars

\* Every step of `send` behind its claim keeps its own turn's transcript.
LEMMA OwnSend ==
  ASSUME NEW t \in Turns, TypeOK, SendInv, Send(t), t \notin raced, Transcript(t)
  PROVE  Transcript(t)'
<1> USE DEF childVars, seamVars, slotVars, opVars, flagVars, outVars, histVars
<1>1. t \in Sending /\ fail' = fail
  BY SendSpeaks
<1>2. CASE AttachFails(t)
  BY <1>1, <1>2, ReleaseTranscript DEF AttachFails
<1>3. CASE AttachWritten(t)
  <2>1. pc[t] = "attach" /\ UNCHANGED <<turn, phase>>
    BY <1>3 DEF AttachWritten
  <2>2. \/ At(t, "checkpoint") /\ stream' = stream
        \/ Announce(t, "started", "startedEmit")
    BY <1>3 DEF AttachWritten
  <2> QED
    BY <1>1, <2>1, <2>2, MoveTranscript, AnnounceTranscript
<1>4. CASE Checkpointed(t)
  BY <1>4, CheckpointTranscript
<1>5. CASE AnnounceTurn(t)
  <2>1. /\ pc[t] = "checkpointEmit" /\ UNCHANGED <<turn, phase>>
        /\ Announce(t, "started", "startedEmit")
    BY <1>5 DEF AnnounceTurn
  <2> QED
    BY <1>1, <2>1, AnnounceTranscript
<1>6. CASE AnnounceMessage(t)
  <2>1. pc[t] = "startedEmit" /\ turn' = turn /\ Announce(t, "message", "messageEmit")
    BY <1>6 DEF AnnounceMessage
  <2> QED
    BY <1>1, <2>1, AnnounceTranscript
<1>7. CASE AfterMessage(t)
  <2>1. pc[t] = "messageEmit" /\ UNCHANGED <<turn, phase>>
    BY <1>7 DEF AfterMessage
  <2>2. \/ At(t, "done") /\ turn = None /\ stream' = stream
        \/ At(t, "resumeEmit") /\ Notice({t})
        \/ CallAdapter(t)
    BY <1>7 DEF AfterMessage
  <2> QED
    BY <1>1, <2>1, <2>2, MoveTranscript, NoticeSilent, CallTranscript
<1>8. CASE AfterResumeNotice(t)
  BY <1>1, <1>8, CallTranscript DEF AfterResumeNotice
<1>9. CASE ChildSpawned(t)
  <2>1. pc[t] = "spawning" /\ UNCHANGED <<turn, phase>>
    BY <1>9 DEF ChildSpawned
  <2>2. \/ At(t, "done") /\ stream' = stream
        \/ Emit(t, "ended", {t}) /\ At(t, "endedEmit")
    BY <1>9, NoticeSilent DEF ChildSpawned
  <2>3. CASE Emit(t, "ended", {t}) /\ At(t, "endedEmit")
    <3>1. \E reach : killed' = killed \cup reach
      BY <1>9 DEF ChildSpawned
    <3>2. \E reach : SendFails(t, FALSE, reach)
      BY <2>3, <3>1 DEF SendFails
    <3> QED
      BY <1>1, <2>1, <3>2, SendFailsTranscript
  <2> QED
    BY <1>1, <2>1, <2>2, <2>3, MoveTranscript
<1>10. CASE ChildUnavailable(t)
  BY <1>10, SendFailsTranscript DEF ChildUnavailable
<1>11. CASE AfterSendError(t)
  BY <1>11, SendFailsTranscript DEF AfterSendError
<1>12. CASE ReleaseFailedTurn(t)
  BY <1>1, <1>12, ReleaseTranscript DEF ReleaseFailedTurn
<1> QED
  BY <1>2, <1>3, <1>4, <1>5, <1>6, <1>7, <1>8, <1>9, <1>10, <1>11, <1>12 DEF Send

\* A record of process p, stamped with the turn in the slot: only a process
\* whose send has returned is heard.
LEMMA StampTranscript ==
  ASSUME NEW t \in Turns, NEW p \in Turns, NEW k \in {"event", "ended"}, TypeOK,
         SendInv, t \notin raced, Transcript(t), Stamped(k, p),
         turn' \in {turn, None}, k = "ended" => turn' = None,
         k = "event" => turn' = turn,
         proc[p] # "none", pc[p] # "spawning",
         UNCHANGED <<pc, phase, fail>>,
         turn = t => /\ pc[t] # "endedEmit"
                     /\ k = "ended" => pc[t] # "errorEmit"
  PROVE  Transcript(t)'
<1>1. t # None /\ turn \in Turns \cup {None} /\ stream[t] \in Seq(Kinds)
  BY DEF TypeOK, Turns, None
<1> DEFINE s == IF p = turn THEN k
                ELSE IF k = "ended" THEN "foreignEnd" ELSE "foreign"
<1>2. Emit(turn, s, {})
  BY DEF Stamped
<1>3. CASE turn # t
  <2>1. stream'[t] = stream[t]
    BY <1>1, <1>2, <1>3, EmitGrows
  <2> QED
    BY <1>1, <1>3, <2>1, TranscriptKept
<1>4. CASE turn = t
  <2>1. ~Failed /\ ~Closed(t) /\ Bracketed(stream[t])
    BY <1>1, <1>4 DEF SendInv, FailureEnds, Transcript, ClosedOnce
  <2>2. p = t => Begun(t) /\ (k = "ended" => t \notin Sending)
    <3>1. pc[p] \notin Early \cup {"idle"}
      BY DEF SendInv, Unborn
    <3>2. pc[p] \in PCs
      BY DEF TypeOK
    <3>3. p = t => pc[t] \in {"done", "errorEmit"} /\ (k = "ended" => pc[t] = "done")
      BY <1>4, <3>1, <3>2 DEF Early, PCs
    <3> QED
      BY <1>4, <3>3 DEF Transcript, Announced, Sending
  <2>3. Fits(stream[t], s) /\ s \in Kinds
    BY <1>4, <2>2 DEF Fits, Begun, Kinds
  <2>4. Deliver(t, s)
    BY <1>2, <1>4, <2>1 DEF Emit
  <2> HIDE DEF s
  <2>5. Adds(t, s)
    BY <2>1, <2>3, <2>4, DeliverAdds DEF Closed
  <2>6. /\ Begun(t)' <=> Begun(t) \/ s = "started"
        /\ Closed(t)' <=> s = "ended"
        /\ Freed(t)' <=> Freed(t) \/ s = "foreignEnd"
    BY <2>1, <2>5 DEF Adds, Begun, Closed, Freed
  <2>7. /\ s = "ended" => k = "ended" /\ p = t
        /\ s = "foreignEnd" => k = "ended"
        /\ k = "ended" => s \in {"ended", "foreignEnd"}
        /\ s # "started"
    BY <1>4 DEF s
  <2>8. Announced(t)'
    BY <1>1, <1>4, <2>6, <2>7 DEF Transcript, Announced
  <2>9. CASE k = "event"
    <3>1. ClosedOnce(t)' /\ SlotKept(t)'
      BY <1>4, <2>1, <2>6, <2>7, <2>9, SendInvVictim
      DEF Transcript, ClosedOnce, SlotKept, Failed, Sending
    <3> QED
      BY <2>5, <2>8, <3>1 DEF Transcript, Adds
  <2>10. CASE k = "ended"
    <3>1. turn' # t
      BY <1>1, <2>10
    <3>2. ClosedOnce(t)' /\ SlotKept(t)'
      BY <1>4, <2>1, <2>2, <2>6, <2>7, <2>10, <3>1, SendInvVictim
      DEF Transcript, ClosedOnce, SlotKept, Failed, Sending
    <3> QED
      BY <2>5, <2>8, <3>2 DEF Transcript, Adds
  <2> QED
    BY <2>9, <2>10
<1> QED
  BY <1>3, <1>4

\* A record that ends the turn.
LEMMA EndTranscript ==
  ASSUME NEW t \in Turns, NEW p \in Turns, NEW extra, TypeOK, SendInv,
         t \notin raced', Transcript(t), TurnEnds(p, extra), Prints(p),
         UNCHANGED <<pc, phase, fail>>
  PROVE  Transcript(t)'
<1>1. CASE ~Heard
  BY <1>1, TranscriptKept DEF TurnEnds, outVars
<1>2. CASE Heard
  <2>1. /\ Stamped("ended", p) /\ turn' = None
        /\ Races({"errorEmit", "endedEmit"})
    BY <1>2 DEF TurnEnds
  <2>2. turn = t => pc[t] \notin {"errorEmit", "endedEmit"}
    BY <2>1 DEF Races, Turns, None
  <2>3. t \notin raced
    BY <2>1 DEF Races
  <2> QED
    BY <2>1, <2>2, <2>3, StampTranscript DEF Prints
<1> QED
  BY <1>1, <1>2

\* Every record of a child, and its close, keeps the transcripts.
LEMMA ChildTranscript ==
  ASSUME NEW t \in Turns, NEW p \in Turns, TypeOK, SendInv, Child(p),
         t \notin raced', t \notin raced, Transcript(t)
  PROVE  Transcript(t)'
<1> USE DEF childVars, seamVars, slotVars, opVars, flagVars, outVars, histVars
<1>1. CASE AgentEvent(p)
  <2>1. /\ Stamped("event", p) /\ Races({"endedEmit"}) /\ Prints(p)
        /\ UNCHANGED <<turn, phase, fail, pc>>
    BY <1>1 DEF AgentEvent
  <2>2. turn = t => pc[t] # "endedEmit"
    BY <2>1 DEF Races, Turns, None
  <2> QED
    BY <2>1, <2>2, StampTranscript DEF Prints
<1>2. CASE AgentSession(p)
  BY <1>2, NoticeSilent, TranscriptKept DEF AgentSession
<1>3. CASE AgentResult(p)
  BY <1>3, EndTranscript DEF AgentResult
<1>4. CASE AgentMalformed(p)
  <2>1. CASE resultSeen
    BY <1>4, <2>1, NoticeSilent, TranscriptKept DEF AgentMalformed
  <2>2. CASE ~resultSeen
    BY <1>4, <2>2, EndTranscript DEF AgentMalformed
  <2> QED
    BY <2>1, <2>2
<1>5. CASE AgentOverflow(p)
  BY <1>5, EndTranscript DEF AgentOverflow
<1>6. CASE ChildCloses(p)
  <2>1. /\ proc[p] # "none" /\ pc[p] # "spawning"
        /\ UNCHANGED <<phase, fail, pc>>
    BY <1>6 DEF ChildCloses
  <2>2. \/ UNCHANGED <<turn, stream>>
        \/ /\ Stamped("ended", p) /\ turn' = None
           /\ Races({"errorEmit", "endedEmit"})
    BY <1>6 DEF ChildCloses
  <2>3. CASE UNCHANGED <<turn, stream>>
    BY <2>1, <2>3, TranscriptKept
  <2>4. CASE /\ Stamped("ended", p) /\ turn' = None
             /\ Races({"errorEmit", "endedEmit"})
    <3>1. turn = t => pc[t] \notin {"errorEmit", "endedEmit"}
      BY <2>4 DEF Races, Turns, None
    <3> QED
      BY <2>1, <2>4, <3>1, StampTranscript
  <2> QED
    BY <2>2, <2>3, <2>4
<1> QED
  BY <1>1, <1>2, <1>3, <1>4, <1>5, <1>6 DEF Child

\* The storage failure takes the slot of a turn that is not closed, and closes
\* it if its phase was "running".
LEMMA SpillTranscript ==
  ASSUME NEW t \in Turns, TypeOK, SendInv, Spill, t \notin raced', t \notin raced,
         Transcript(t)
  PROVE  Transcript(t)'
<1> USE DEF childVars, seamVars, slotVars, opVars, flagVars, outVars, histVars
<1>1. t # None /\ stream[t] \in Seq(Kinds)
  BY DEF TypeOK, Turns, None
<1>2. CASE SpillAppends
  BY <1>2, TranscriptKept DEF SpillAppends
<1>3. CASE SpillFails
  <2>1. /\ turn' = None /\ UNCHANGED <<stream, pc, phase>>
        /\ ~Failed /\ Failed' /\ fail'.stage = "meta" /\ fail'.victim = turn
        /\ fail'.phase = phase
        /\ Races({"endedEmit"})
    BY <1>3 DEF SpillFails, Failed
  <2>2. turn = t => pc[t] # "endedEmit"
    BY <2>1 DEF Races, Turns, None
  <2>3. Announced(t)'
    BY <1>1, <2>1 DEF Transcript, Announced, Begun
  <2>4. ClosedOnce(t)'
    BY <1>1, <2>1, <2>2, SendInvVictim
    DEF Transcript, Announced, ClosedOnce, Begun, Closed, Freed
  <2>5. SlotKept(t)'
    BY <2>1 DEF SlotKept
  <2> QED
    BY <2>1, <2>3, <2>4, <2>5 DEF Transcript
<1>4. CASE FailKills
  <2>1. /\ UNCHANGED <<pc, turn, phase>> /\ turn = None
        /\ fail.stage = "meta" /\ fail'.stage = "killing"
        /\ fail'.victim = fail.victim /\ fail'.phase = fail.phase
        /\ Failed /\ Failed'
    BY <1>4 DEF FailKills, Failed, TypeOK, SendInv, FailureEnds
  <2>2. fail.victim \in Turns \cup {None} /\ fail.phase \in {"starting", "running"}
    BY DEF TypeOK
  <2>3. Deliver(IF fail.phase = "starting" THEN None ELSE fail.victim, "ended")
    BY <1>4 DEF FailKills
  <2>4. CASE fail.victim = t /\ fail.phase = "running"
    <3>1. /\ Deliver(t, "ended") /\ Begun(t) /\ ~Closed(t) /\ Bracketed(stream[t])
          /\ "ended" \in Kinds
      BY <2>1, <2>3, <2>4 DEF Transcript, ClosedOnce, Kinds
    <3>2. Adds(t, "ended")
      BY <3>1, DeliverAdds DEF Fits, Begun, Closed
    <3>3. Begun(t)' /\ Closed(t)'
      BY <3>1, <3>2 DEF Adds, Begun, Closed
    <3>4. Announced(t)' /\ ClosedOnce(t)' /\ SlotKept(t)'
      BY <1>1, <2>1, <3>1, <3>3 DEF Transcript, Announced, ClosedOnce, SlotKept
    <3> QED
      BY <3>2, <3>4 DEF Transcript, Adds
  <2>5. CASE ~(fail.victim = t /\ fail.phase = "running")
    <3>1. stream'[t] = stream[t]
      <4>1. CASE fail.phase = "starting"
        BY <2>3, <4>1 DEF Deliver
      <4>2. CASE fail.phase = "running"
        BY <2>2, <2>3, <2>5, <4>2, DeliverGrows
      <4> QED
        BY <2>2, <4>1, <4>2
    <3>2. Announced(t)'
      BY <2>1, <3>1 DEF Transcript, Announced, Begun
    <3>3. ClosedOnce(t)'
      BY <2>1, <2>2, <2>5, <3>1 DEF Transcript, ClosedOnce, Begun, Closed, Freed
    <3>4. SlotKept(t)'
      BY <2>1 DEF SlotKept
    <3> QED
      BY <3>1, <3>2, <3>3, <3>4 DEF Transcript
  <2> QED
    BY <2>4, <2>5
<1>5. CASE FailFinishes
  <2>1. /\ UNCHANGED <<stream, pc, turn, phase>>
        /\ fail.stage = "killing" /\ fail'.stage = "done"
        /\ fail'.victim = fail.victim /\ fail'.phase = fail.phase
        /\ Failed /\ Failed'
    BY <1>5 DEF FailFinishes, Failed, TypeOK
  <2>2. Announced(t)' /\ ClosedOnce(t)' /\ SlotKept(t)'
    BY <2>1 DEF Transcript, Announced, ClosedOnce, SlotKept, Begun, Closed, Freed
  <2> QED
    BY <2>1, <2>2 DEF Transcript
<1> QED
  BY <1>2, <1>3, <1>4, <1>5 DEF Spill

\* A claim announces nothing yet.
LEMMA ClaimTranscript ==
  ASSUME NEW t \in Turns, NEW u \in Turns, TypeOK, SendInv, Claim(u),
         t \notin raced, Transcript(t)
  PROVE  Transcript(t)'
<1>1. /\ turn = None /\ turn' = u /\ pc[u] = "idle" /\ state = "live"
      /\ pc' = [pc EXCEPT ![u] = "attach"] /\ phase' = "starting"
      /\ UNCHANGED <<fail, stream>>
  BY DEF Claim, Idle, At, outVars
<1>2. t # None /\ pc \in [Turns -> PCs] /\ stream[t] \in Seq(Kinds)
  BY DEF TypeOK, Turns, None
<1>3. CASE u # t
  BY <1>1, <1>2, <1>3, TranscriptKept
<1>4. CASE u = t
  <2>1. ~Failed /\ pc'[t] = "attach"
    BY <1>1, <1>2, <1>4 DEF SendInv, FailureEnds
  <2>2. ~Begun(t) /\ Bracketed(stream[t])
    BY <1>1, <1>4 DEF Transcript, Announced
  <2>3. ~Closed(t)
    BY <1>2, <2>2, EndHasBegun DEF Begun, Closed
  <2>4. Announced(t)' /\ ClosedOnce(t)' /\ SlotKept(t)'
    BY <1>1, <1>4, <2>1, <2>2, <2>3, SendInvVictim
    DEF Announced, ClosedOnce, SlotKept, Begun, Closed, Failed
  <2> QED
    BY <1>1, <2>2, <2>4 DEF Transcript
<1> QED
  BY <1>3, <1>4

\* Every step keeps the transcripts.
LEMMA NextTranscripts ==
  TypeOK /\ SendInv /\ Transcripts /\ [Next]_vars => Transcripts'
<1> SUFFICES ASSUME TypeOK, SendInv, Transcripts, [Next]_vars,
                    NEW t \in Turns, t \notin raced'
             PROVE  Transcript(t)'
  BY DEF Transcripts
<1>1. ASSUME NEW u \in Turns, Claim(u) PROVE Transcript(t)'
  <2>1. t \notin raced
    BY <1>1 DEF Claim
  <2> QED
    BY <1>1, <2>1, ClaimTranscript DEF Transcripts
<1>2. ASSUME t \notin raced PROVE Transcript(t)
  BY <1>2 DEF Transcripts
<1>3. ASSUME NEW u \in Turns, Send(u) PROVE Transcript(t)'
  <2>1. t \notin raced
    BY <1>3, SendSpeaks
  <2> QED
    BY <1>2, <1>3, <2>1, OwnSend, OtherSend
<1>4. ASSUME NEW p \in Turns, Child(p) PROVE Transcript(t)'
  <2>1. t \notin raced
    BY <1>4, ChildIsCalm DEF Calm, SlotCalm
  <2> QED
    BY <1>2, <1>4, <2>1, ChildTranscript
<1>5. CASE Spill
  <2>1. t \notin raced
    BY <1>5, SpillIsCalm DEF Calm, SlotCalm
  <2> QED
    BY <1>2, <1>5, <2>1, SpillTranscript
<1>6. CASE Operation \/ \E u \in Turns : Interrupt(u)
  BY <1>2, <1>6, OperationIsCalm, TranscriptKept
<1>7. CASE UNCHANGED vars
  BY <1>2, <1>7, TranscriptKept
  DEF vars, coreVars, slotVars, outVars, histVars
<1> QED
  BY <1>1, <1>3, <1>4, <1>5, <1>6, <1>7 DEF Next

\* Nothing has been emitted in a new session.
LEMMA InitTranscripts == Init => Transcripts
<1> SUFFICES ASSUME Init, NEW t \in Turns PROVE Transcript(t)
  BY DEF Transcripts
<1>1. /\ stream[t] = << >> /\ pc[t] = "idle" /\ t \notin Sending /\ turn # t
      /\ fail.victim # t
  BY DEF Init, Sending, Turns, None
<1>2. Bracketed(stream[t]) /\ \A k : ~Says(stream[t], k)
  BY <1>1 DEF Bracketed, Says
<1>3. Announced(t) /\ ClosedOnce(t) /\ SlotKept(t)
  BY <1>1, <1>2 DEF Announced, ClosedOnce, SlotKept, Begun, Closed, Freed
<1> QED
  BY <1>2, <1>3 DEF Transcript

---------------------------------------------------------------------------
(* session.ended comes last.                                                 *)

\* A child's step speaks only of the turn in the slot.
LEMMA ChildSpeaks ==
  ASSUME NEW p \in Turns, TypeOK, Child(p)
  PROVE  /\ turn = None => stream' = stream
         /\ \A u \in Turns : \A j : Says(stream[u], j) => Says(stream'[u], j)
         /\ ending' = ending
<1> USE DEF childVars, seamVars, slotVars, opVars, flagVars, outVars, histVars
<1>1. turn \in Turns \cup {None}
  BY DEF TypeOK
<1>2. (\E k : Emit(turn, k, {})) \/ Notice({}) \/ stream' = stream
  <2>1. CASE AgentEvent(p) \/ AgentSession(p)
    BY <2>1 DEF AgentEvent, AgentSession, Stamped
  <2>2. CASE AgentResult(p)
    BY <2>2 DEF AgentResult, TurnEnds, Stamped
  <2>3. CASE AgentMalformed(p)
    BY <2>3 DEF AgentMalformed, TurnEnds, Stamped
  <2>4. CASE AgentOverflow(p)
    BY <2>4 DEF AgentOverflow, TurnEnds, Stamped
  <2>5. CASE ChildCloses(p)
    BY <2>5 DEF ChildCloses, Stamped
  <2> QED
    BY <2>1, <2>2, <2>3, <2>4, <2>5 DEF Child
<1>3. \A k : turn = None /\ Emit(turn, k, {}) => stream' = stream
  BY DEF Emit, Deliver, outVars
<1>4. \A u \in Turns : \A j : Says(stream[u], j) => Says(stream'[u], j)
  BY <1>1, <1>2, EmitGrows, NoticeSilent
<1>5. ending' = ending
  <2>1. CASE AgentEvent(p) \/ AgentSession(p) \/ AgentResult(p)
    BY <2>1 DEF AgentEvent, AgentSession, AgentResult
  <2>2. CASE AgentMalformed(p) \/ AgentOverflow(p) \/ ChildCloses(p)
    BY <2>2 DEF AgentMalformed, AgentOverflow, ChildCloses
  <2> QED
    BY <2>1, <2>2 DEF Child
<1> QED
  BY <1>2, <1>3, <1>4, <1>5, NoticeSilent

\* The write queue speaks only of the turn a failure cleared.
LEMMA SpillSpeaks ==
  ASSUME TypeOK, Spill
  PROVE  /\ fail.victim = None => stream' = stream
         /\ \A u \in Turns : \A j : Says(stream[u], j) => Says(stream'[u], j)
         /\ ending' = ending
<1> USE DEF childVars, seamVars, slotVars, opVars, flagVars, outVars, histVars
<1>1. CASE FailKills
  <2>1. Deliver(IF fail.phase = "starting" THEN None ELSE fail.victim, "ended")
        /\ ending' = ending
    BY <1>1 DEF FailKills
  <2>2. (IF fail.phase = "starting" THEN None ELSE fail.victim) \in Turns \cup {None}
    BY DEF TypeOK
  <2>3. fail.victim = None => stream' = stream
    BY <2>1 DEF Deliver
  <2> QED
    BY <2>1, <2>2, <2>3, DeliverGrows
<1>2. CASE SpillAppends \/ FailFinishes
  BY <1>2 DEF SpillAppends, FailFinishes
<1>3. CASE SpillFails
  BY <1>3 DEF SpillFails
<1> QED
  BY <1>1, <1>2, <1>3 DEF Spill

Undisturbed == raced = {} /\ \A t \in Turns : ~Freed(t)

\* A session that was ended has no turn, and no send unless one was disturbed.
Concluded ==
  ending # "no" =>
    /\ state = "ended" /\ turn = None /\ fail.victim = None
    /\ Undisturbed => Sending = {}

\* Every step keeps an ended session's slot empty, and its sends over.
LEMMA NextConcluded ==
  TypeOK /\ SendInv /\ Transcripts /\ Concluded /\ [Next]_vars => Concluded'
<1> SUFFICES ASSUME TypeOK, SendInv, Transcripts, Concluded, [Next]_vars,
                    ending' # "no"
             PROVE  /\ state' = "ended" /\ turn' = None /\ fail'.victim = None
                    /\ Undisturbed' => Sending' = {}
  BY DEF Concluded
<1>1. ASSUME Calm, ending # "no",
             \A u \in Turns : \A j : Says(stream[u], j) => Says(stream'[u], j)
      PROVE  /\ state' = "ended" /\ turn' = None /\ fail'.victim = None
             /\ Undisturbed' => Sending' = {}
  <2>1. /\ state = "ended" /\ turn = None /\ fail.victim = None
        /\ Undisturbed => Sending = {}
    BY <1>1 DEF Concluded
  <2>2. Undisturbed' => Undisturbed
    BY <1>1 DEF Undisturbed, Freed, Calm, SlotCalm
  <2>3. Sending' \subseteq Sending
    BY <1>1 DEF Calm, SendsCalm, Sending
  <2> QED
    BY <1>1, <2>1, <2>2, <2>3 DEF Calm, SlotCalm, FailureCalm
<1>2. CASE End
  <2>1. /\ turn = None /\ state = "live" /\ state' = "ended"
        /\ UNCHANGED <<turn, fail, stream, pc, raced>>
    BY <1>2 DEF End, Idle, outVars
  <2>2. ~Failed /\ fail.victim = None
    BY <2>1 DEF SendInv, FailureEnds
  <2>3. Undisturbed => Sending = {}
    <3> SUFFICES ASSUME Undisturbed, NEW t \in Sending PROVE FALSE
      OBVIOUS
    <3>1. t \in Turns /\ t # None /\ Transcript(t) /\ ~Freed(t)
      BY DEF Undisturbed, Transcripts, Sending, Turns, None
    <3> QED
      BY <2>1, <2>2, <3>1 DEF Transcript, SlotKept
  <2> QED
    BY <2>1, <2>2, <2>3 DEF Undisturbed, Freed, Sending
<1>3. ASSUME NEW t \in Turns, Claim(t) PROVE FALSE
  BY <1>3 DEF Claim, Concluded, opVars
<1>4. ASSUME NEW t \in Turns, Send(t) PROVE ending # "no" /\ Calm
  <2>1. CASE AttachFails(t) \/ AttachWritten(t) \/ Checkpointed(t) \/ AnnounceTurn(t)
    BY <1>4, <2>1, SendIsCalm
    DEF AttachFails, AttachWritten, Checkpointed, AnnounceTurn, opVars
  <2>2. CASE AnnounceMessage(t) \/ AfterMessage(t) \/ AfterResumeNotice(t)
    BY <1>4, <2>2, SendIsCalm
    DEF AnnounceMessage, AfterMessage, AfterResumeNotice, opVars
  <2>3. CASE \/ ChildSpawned(t) \/ ChildUnavailable(t) \/ AfterSendError(t)
             \/ ReleaseFailedTurn(t)
    BY <1>4, <2>3, SendIsCalm
    DEF ChildSpawned, ChildUnavailable, AfterSendError, ReleaseFailedTurn, opVars
  <2> QED
    BY <1>4, <2>1, <2>2, <2>3 DEF Send
<1>5. CASE (Operation \/ \E t \in Turns : Interrupt(t)) /\ ~End
  <2>1. ending # "no"
    BY <1>5 DEF Operation, EndAnnounced, Restore, Restored, RestoreReturns,
                Remove, Removed, Shutdown, Interrupt, opVars
  <2> QED
    BY <1>1, <1>5, <2>1, OperationIsCalm
<1>6. CASE UNCHANGED vars
  BY <1>6 DEF vars, coreVars, slotVars, opVars, outVars, histVars, Concluded,
              Undisturbed, Freed, Sending
<1>7. ASSUME NEW t \in Turns, Send(t)
      PROVE  /\ state' = "ended" /\ turn' = None /\ fail'.victim = None
             /\ Undisturbed' => Sending' = {}
  BY <1>1, <1>4, <1>7, SendSpeaks
<1>8. ASSUME NEW t \in Turns, Child(t)
      PROVE  /\ state' = "ended" /\ turn' = None /\ fail'.victim = None
             /\ Undisturbed' => Sending' = {}
  BY <1>1, <1>8, ChildIsCalm, ChildSpeaks
<1>9. CASE Spill
  BY <1>1, <1>9, SpillIsCalm, SpillSpeaks
<1> QED
  BY <1>2, <1>3, <1>5, <1>6, <1>7, <1>8, <1>9 DEF Next

\* What a subscriber is handed says of a turn, as the run's properties put it.
LEMMA KindSays ==
  \A t \in Turns : \A k : Kind(t, k) # {} <=> Says(stream[t], k)
BY DEF Kind, Says

\* The transcripts in order are the bracketed ones.
LEMMA BracketedKinds ==
  ASSUME TypeOK, NEW t \in Turns, Bracketed(stream[t])
  PROVE  /\ \A i \in DOMAIN stream[t] :
              \/ stream[t][i] \in {"foreign", "foreignEnd"}
              \/ stream[t][i] = "checkpoint" /\ Kind(t, "started") \cap 1..i = {}
              \/ stream[t][i] = "started" /\ Kind(t, "started") = {i}
              \/ Kind(t, "started") \cap 1..(i - 1) # {}
         /\ Kind(t, "ended") \subseteq {Len(stream[t])}
<1>1. stream[t] \in Seq(Kinds) /\ DOMAIN stream[t] = 1..Len(stream[t])
      /\ Len(stream[t]) \in Nat
  BY DEF TypeOK
<1>2. Kind(t, "ended") \subseteq {Len(stream[t])}
  BY DEF Kind, Bracketed
<1>3. ASSUME NEW i \in DOMAIN stream[t]
      PROVE  \/ stream[t][i] \in {"foreign", "foreignEnd"}
             \/ stream[t][i] = "checkpoint" /\ Kind(t, "started") \cap 1..i = {}
             \/ stream[t][i] = "started" /\ Kind(t, "started") = {i}
             \/ Kind(t, "started") \cap 1..(i - 1) # {}
  <2>1. CASE \E j \in 1..(i - 1) : stream[t][j] = "started"
    <3>1. PICK j \in 1..(i - 1) : stream[t][j] = "started"
      BY <2>1
    <3>2. j \in DOMAIN stream[t]
      BY <1>1, <3>1
    <3>3. j \in Kind(t, "started")
      BY <3>1, <3>2 DEF Kind
    <3> QED
      BY <3>1, <3>3
  <2>2. CASE /\ stream[t][i] = "checkpoint"
             /\ \A j \in 1..i : stream[t][j] # "started"
    BY <2>2 DEF Kind
  <2>3. CASE /\ stream[t][i] = "started"
             /\ \A j \in DOMAIN stream[t] : stream[t][j] = "started" => j = i
    BY <2>3 DEF Kind
  <2> QED
    BY <2>1, <2>2, <2>3 DEF Bracketed
<1> QED
  BY <1>2, <1>3

\* The inductive invariant of a session.
SessionInv == TurnInv /\ Transcripts /\ Concluded

\* The conjunction is inductive, so every reachable state satisfies it.
LEMMA SessionInvariant == Spec => []SessionInv
<1>1. Init => SessionInv
  <2> SUFFICES ASSUME Init PROVE SessionInv
    OBVIOUS
  <2>1. SlotExclusive /\ Concluded
    BY DEF Init, SlotExclusive, Concluded
  <2> QED
    BY <2>1, InitTypeOK, InitSendInv, InitChildren, InitTranscripts
    DEF SessionInv, TurnInv
<1>2. SessionInv /\ [Next]_vars => SessionInv'
  BY NextTypeOK, NextSlotExclusive, NextSendInv, NextChildren, NextTranscripts,
     NextConcluded DEF SessionInv, TurnInv
<1> QED
  BY <1>1, <1>2, PTL DEF Spec

\* I14, I15: for any number of turns, each transcript is bracketed: the
\* checkpoint before turn.started, turn.started once and first of the turn's
\* own, turn.ended once and last -- unless the turn's send was raced.
THEOREM TurnsAreBracketed == Spec => []TurnBracketed
<1>1. SessionInv => TurnBracketed
  BY BracketedKinds DEF SessionInv, TurnInv, Transcripts, Transcript, TurnBracketed
<1> QED
  BY <1>1, SessionInvariant, PTL

\* I14: whatever failed, an announced turn is closed once nothing is in
\* progress, but for the one whose own turn.started could not be appended.
THEOREM AnnouncedTurnsClose == Spec => []AnnouncedTurnCloses
<1>1. SessionInv => AnnouncedTurnCloses
  <2> SUFFICES ASSUME SessionInv, Quiet, NEW t \in Turns \ raced,
                      Kind(t, "started") # {}, Ends(t) = {}
               PROVE  fail.victim = t /\ fail.phase = "starting"
    BY DEF AnnouncedTurnCloses
  <2>1. Begun(t) /\ ~Closed(t) /\ ~Freed(t)
    BY KindSays DEF Begun, Closed, Freed, Ends
  <2>2. turn # t /\ fail.stage # "meta"
    BY DEF Quiet, Turns, None
  <2> QED
    BY <2>1, <2>2 DEF SessionInv, Transcripts, Transcript, ClosedOnce
<1> QED
  BY <1>1, SessionInvariant, PTL

\* I14: once session.ended was announced, subscribers are told nothing more of
\* any turn, unless a send was disturbed.
THEOREM SessionEndComesLast == Spec => SessionEndIsLast
<1>1. SessionInv /\ [Next]_vars =>
        [(ending = "done" /\ raced = {} /\ \A t \in Turns : Kind(t, "foreignEnd") = {})
           => UNCHANGED stream]_vars
  <2> SUFFICES ASSUME SessionInv, [Next]_vars, ending = "done", raced = {},
                      \A t \in Turns : Kind(t, "foreignEnd") = {}
               PROVE  stream' = stream
    OBVIOUS
  <2>1. TypeOK /\ turn = None /\ fail.victim = None /\ Sending = {}
    BY KindSays DEF SessionInv, TurnInv, Concluded, Undisturbed, Freed
  <2>2. ASSUME NEW t \in Turns, Claim(t) PROVE stream' = stream
    BY <2>2 DEF Claim, outVars
  <2>3. ASSUME NEW t \in Turns, Send(t) PROVE FALSE
    BY <2>1, <2>3, SendSpeaks
  <2>4. CASE UNCHANGED vars
    BY <2>4 DEF vars, coreVars, outVars
  <2> QED
    BY <2>1, <2>2, <2>3, <2>4, ChildSpeaks, SpillSpeaks, OperationIsCalm DEF Next
<1> QED
  BY <1>1, SessionInvariant, PTL DEF Spec, SessionEndIsLast
====
