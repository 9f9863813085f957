# SkyNet HR: the verification project

SkyNet HR is a server (TypeScript on Node) that runs coding agents for people in a
browser. It keeps *sessions*; a session runs *turns*; a turn is one child process of
an agent's CLI in the session's workspace. Everything the agent does becomes an
*envelope* with a sequence number, written to a spill file and fanned out to
subscribers. The agent asks permission for some of what it does, and the answers are
audited.

This directory holds TLA+ modules of that server and its console, the TLC
configurations that check them, and proofs the TLA+ proof system checks.
`PROJECT.json` maps every definition to the source lines it models. Paths below are
relative to the repository; the server's code is in its `src/`, the console's in
`client/`. `core` is `src/agent-console/core/index.ts`. I*n*, D*n* and S*n* are the
invariants, decisions and scenarios of `design/20-contract.md` and its companions.

    tlc -workers 2 -config MCSessionTurn.cfg SessionTurn
    tlapm SessionTurn_proofs.tla

## 1. Inventory

| Component | State it keeps | Operations | Module |
|---|---|---|---|
| **Session core: turns** (`core`, `core/lane.ts`) | per session: `record.state`, `entry.turn` and its phase, `entry.operation`, `storageFailed`, the write queue | `send`, `interrupt`, `end`, `remove`, `restore`, the notification handler, `shutdown` | `SessionTurn` |
| **Session core: permissions** (`core`, `store/audit.ts`) | `turn.pending`, in-flight answers, `standingRules`, `audit.ndjson` | `permission.request`, `answerPermission`, pre-approval, cancellation | `PermissionFlow` |
| **Session core: event log** (`core`, `store/fs.ts`) | `seq`, ring, write queue, `events.ndjson`, subscribers | `emit`, `subscribe`, rehydration | `EventLog`, `EventStream` |
| **Session core: creation and boot** (`core`, `core/create-attempts.ts`, `core/workspaces/*`, `store/create-attempts.ts`) | workspace claims, attempt records, `meta.json`, the host's attempts | `create`, its unwinds, recovery at boot | `CreateSession` |
| **Claude adapter** (`providers/claude-cli`, `adapter-session.ts`, `legacy.ts`) | `child`, `resultSeen`, `active`, `pendingByRequestId` | `send`, `respond`, `interrupt`, `kill`, stdout records, `close` | `ClaudeChild`; parts in `PermissionFlow` |
| **Codex adapter** (`providers/codex-cli`) | child, outstanding RPC call, approvals, the seam's turn | `send` and its handshake, timeouts, items, approvals, `respond`, `kill`, `close`, over app-server and exec | `CodexAdapter` |
| **Process supervision** (`process/*`) | `pids.ndjson`, grace timers | record, tombstone, `terminate`, boot's reap | `ProcessReap`, `AppendLog`; `terminate` in `ClaudeChild` |
| **Session store** (`store/fs.ts`, `lease.ts`, `audit.ts`) | spill, ring, `meta.json`, lease and audit files | append, replay, `lastSeq`, claim, pages | `EventLog`, `ServerLock`, `AuditView` |
| **Server lock and lifecycle** (`store/index.ts`, `server.ts`, `bound-step.ts`) | `server.lock`, `heldLock`, the renewal timer, `stopping` | `claimLock`, `renewLock`, `releaseLock`, boot, shutdown | `ServerLock` |
| **Records** (`records/index.ts`, `store/index.ts`) | requisitions, reviews, their logs, locks in memory | raise, decide, claim, consume; draft, edit, finalise | `Requisitions`, `Reviews`, `Records`, `AppendLog` |
| **Session manager** (`session-manager/*`) | checklist promises, budget state | tick, budget check, payroll fold, its side of `create` | `HostEvents`, `CreateSession` |
| **Runtime RPC** (`runtime/*`) | credit, queue, replay of each subscription; the writer's round robin | subscribe, credit, deliver, gap | `RpcSubscriptions` |
| **Edges** (`edge/*`) | a connection's mode and its guard | the events route (SSE, WebSocket), the API's routes | `LiveView`, `Console`, `AuditView` |
| **Browser client** (`client/app.js`) | transcript and cursor, selection, panels, login, audit query | streams, fetches, clicks | `LiveView`, `Console`, `AuditView` |
| **Checkpoints** (`extensions/checkpoints`) | the shadow repository's commits and index, a manifest of ignored paths for each | commit before a turn, `restore` | `Checkpoints` |
| **Attachments, rename, reassignPrincipal** | staged uploads; a title; the owner | | not modelled of their own (section 7) |
| **Identity, configuration, contract, harness, prototypes** | none | parsing, validation | not modelled |

How they interact: an edge calls the session manager, which calls the core in the same process
or over the runtime RPC. The core calls the adapter synchronously and is called back
through `notify`; it awaits the store, the checkpoints and the attachments. Every
envelope goes through `emit`, which assigns its seq and fans it out in the caller's
stack, then chains the append on the session's write queue. The adapter calls the
process supervision. During a creation the core asks the manager back (prepare, commit,
status), which moves a requisition of the records. Before any of it, `boot` claims the
server lock, then the runtime lease, reaps the children of earlier lives and recovers
creations. The console keeps one stream for the selected session and fetches the rest.

What makes it hard:

* **Awaits.** The server is one thread, but `send` has nine awaits and `create` as many,
  and at each of them the child, another operation, a storage failure or a shutdown
  may change what was checked.
* **Failure inside the queue.** A failed append runs a branch (fail the session, clear
  the turn, kill its child, tell subscribers) *inside* the write queue every later
  `emit` waits on, after the envelope was already fanned out.
* **Two owners of one question.** A permission is resolved by an operator, a rule, an
  exit, a storage failure or a restart; a creation by the core, by a host that answers late
  or never, or by boot.
* **Replay against live.** `subscribe` registers first and reads the file afterwards;
  so do the RPC subscription and the console on top of it.
* **Restart.** A crash may leave a torn line, an open turn, a pending request, a lock,
  a lease, a half-created session or a living child whose pid is reused.
* **Time.** Two servers may meet at one storage root; only timing tells a dead
  holder from a living one. RPC calls to the agent and to the host time out, and their
  answers come later.
* **Git in between.** A restore is a sequence of git commands over a workspace whose
  ignore rules the restore itself rewrites; any of them may fail, or succeed and leave
  part of its work undone, and the server may die behind any.
* **Answers in any order.** The console has several requests out; what was selected,
  opened or pinned when one was made is not when it is answered.

What makes each component correct: *turns*: one owner of the session at a time, every
child belongs to the turn in the slot, a turn's envelopes are bracketed and closed, nothing
follows `session.ended`, every `send` returns, a kill frees the slot. *Permissions*:
each request resolved once and before its turn ends, nothing allowed that was not
audited first. *Event log, RPC, transcript*: every envelope once and in order, or a gap that
is told. *Creation*: a session is created and paid for or neither, no two live sessions
in one directory, no creation refused with an error keeps its requisition. *Lock*: one server at a time
works on a root, and a displaced one stops. *Processes*: every orphan reaped and no
stranger. *Records*: a decision once, a final review final. *Manager*: a notice or
completion once and where it belongs. *Codex*: a turn ends once, an answer goes to who
asked. *Checkpoints*: what a restore replaces is in its safety checkpoint, what the rules
protect stands, whatever becomes of it, and it reports what it left. *Console*: what is shown is what is selected. `PROJECT.json` lists the hazards
line by line.

## 2. Plan

Done, in this order: `ClaudeChild` and `SessionTurn` with `SessionTurn_proofs`,
`PermissionFlow`, `EventStream` and `EventLog` with `EventLog_proofs`, `ServerLock` with
`ServerLock_proofs`; then `CreateSession`, `ProcessReap`, the records' modules, `HostEvents`,
`RpcSubscriptions`, `CodexAdapter`, `LiveView`, `Console`, `AuditView`, `Checkpoints`.

Which module stands on which:

* `SessionTurn` and `ProcessReap` name the same children; the first models a turn's life,
  the second what outlives a server. `ClaudeChild` is part of `SessionTurn`.
* `EventStream` is the abstract specification of delivery. `EventLog` implements it for a
  subscriber of the core, `RpcSubscriptions` for a host on the link, each through a
  refinement mapping. `LiveView` states its own end of it: what is on screen.
* `CreateSession` extends `Requisitions`: its host moves them. `Records` composes
  `Requisitions` and `Reviews`; all of them, and `ProcessReap`, write through `AppendLog`.
* `SessionTurn` has a checkpoint and a restore as steps with two outcomes; `Checkpoints` is
  what happens inside them, and takes from it that turns and restores exclude each other.
* `MCHost` and `MCOperator` put parts that share no state side by side in one run.

Then the proofs: every safety invariant the runs check, and both refinements of `EventStream`.
No module that a proof needs declares a recursive operator. What a next step would be:
attachments, and the artifacts a session may read.

## 3. The modules

Conventions: an action is the code between two awaits, it runs whole, and whatever
is awaited may be overtaken. Envelope contents, wording and log lines are left out.
An operator named `...Variant` (or for what it gets wrong: `EqualOnly`, `NeverMoved`,
`ListensAnyway`) is a plausible mistake in the definition that follows it, kept to show
that a property notices it. Variables marked *history* are read by no guard.

### ClaudeChild, SessionTurn

`ClaudeChild` gives the operators of the provider side: `child`, `resultSeen`, the
seam's `active` and `handle`, what became of each process, and whom a kill reaches.
Each turn spawns its own process, named by the turn. `SessionTurn` conjoins them with
what the core does in the same call stack:

| Actions | Code |
|---|---|
| `Claim`, `AttachFails`, `AttachWritten`, `Checkpointed`, `AnnounceTurn`, `AnnounceMessage`, `AfterMessage`, `AfterResumeNotice`, `ChildSpawned`, `ChildUnavailable`, `AfterSendError`, `ReleaseFailedTurn` | the awaits of `send`, in order (`pc` says which one) |
| `AgentEvent`, `AgentSession`, `AgentResult`, `AgentMalformed`, `AgentOverflow`, `ChildCloses` | the adapter's stdout records and `close`, with the core's handler |
| `SpillAppends`, `SpillFails`, `FailKills`, `FailFinishes` | the write queue and the storage-failure branch |
| `Interrupt`, `End`, `Restore`, `Remove`, `Shutdown` and what follows their awaits | the other operations |

`stream[t]` is what subscribers were handed of turn *t*, cut off where it only repeats itself;
`raced` and `deadSpawn` are history variables that name the situations the properties except
(section 6): `raced` has every turn whose send was in progress together with another's, or was
written to or closed by something else while its failed send closed it; `deadSpawn` those
whose send spawned without holding the slot. A third exception is a state: `Outrun(p)` says that
the storage-failure branch has issued its kill for the turn it cleared when the child had already
printed its result, so that the seam's handle refused it; that child nobody kills (section 6). Restore
and remove are claim, work, announcement; the git and directory work is one step with
both outcomes.

### PermissionFlow

A request is stamped with the turn in the slot (`asked`), becomes `pending`, is taken
out of it by whoever resolves it (`flying`), has its audit line appended (`appends`),
and is answered (`reply`) and announced (`stream`). `Ask`, `Answer`, `Preapprove`,
`DecisionSettles`, `CorrectionSettles`, `ChildCloses`, `RecordEndsTurn`, `PipeBreaks`,
`SpillFails`/`FailCancels`/`FailEndsTurn`, `Crash` and the `Boot...` actions are the
handlers of those names. Whether a rule matches is a choice. `spilled` is a lower
bound on what is durable: a crash settles how far the spill really got. Behind a failed append the
queue goes on with what it holds, and each of those appends may land or not: a crash in a life
whose storage failed replaces any of them by `Lost(e)`, a place in the transcript with nothing on
disk. A line behind a torn fragment is glued to it, which loses it as well; that is `EventLog`'s,
also for what boot writes, which here always lands or fails as a whole.

### EventStream, EventLog

`EventStream` is the promise: from where a subscriber resumed, every envelope once and
in order, until it is told of a gap; after storage failed, the order only. `EventLog` is the
code: `Emit` (seq, ring, queue, fan-out), `AppendSettles`/`AppendFails`, the failure
branch's direct delivery, `Subscribe` from the ring or the spill, the replay step by step
with its buffer and high-water mark, `Disconnect`, `Crash` (which keeps any prefix of
the queue and maybe a fragment), `BootEmits`, `Serve`. Abstractions: a fragment never
parses as a line; the several direct envelopes of the failure branch are one; an ended
session emits nothing after boot.

### ServerLock

Servers go through `claimLock` (`Link`, `FirstSample`, `SecondSample`, `Overwrite`,
`Confirm`), the runtime lease (`Publish`, `List`, `Check`, `Leased`), boot (`Booted`), the
renewal timer (`RenewalFires`, `RenewReads`, `RenewWrites`) and shutdown (`Drained`,
`Killed`, `ReleaseReads`, `ReleaseRemoves`, `Close`), and may crash anywhere. Time is in
seconds: `Tick` moves every timer, and only when nobody has something due, so that I/O settles
within the instant it is issued in. A server in `late` is exempt: its boot takes as
long as it likes and its renewals may fail. Hostnames are chosen at the start, so that
the lease tells the two servers apart or does not. `hasty` is a history variable: a server was
told to stop while its lock had not been renewed since it took it. Left out: a corrupt lock or lease
(both refuse the start), the reuse of a pid (the lease's creation-time comparison), a
drain or kill that ends early is any moment up to its bound.

### CreateSession

Each creation goes through `Reserve`, `RecordAttempt`, `Prepare` and its answer,
`MakeAdapter`, `StoreSession`, `InitCheckpoints`, `Commit` and its answer, and `Publish`;
any of them may fail, and `Cleanup`, `Unwind` and `AttemptRemoved` are what the code does
then. An abort (`Aborts`) of a host behind the RPC may be answered, or time out, which rejects out
of `create` with the attempt record and the directory still held; the host takes it up
later (`LateAbort`) or never. The host is the session manager: it claims the requisition in `prepare` and consumes
it in `commit`, through `Requisitions`. One inside the process forgets its
attempts with a crash; one behind the RPC answers late (`LatePrepare`, `LateCommit`) or not
before the timeout, and keeps its records. `Crash` may strike at any await; `Recover`,
`AskHost`, `NoAnswer` and `Rehydrate` are boot, which publishes, removes or keeps a session
quarantined by what the host says of it. An entry's `state` is `live` from the step that
makes the entry, `StoreSession`, to its `End`. A directory is a sequence of names, so that
one can lie inside another.

### ProcessReap, AppendLog, Requisitions, Reviews, Records

`AppendLog` is one ndjson file: the lines a reader can parse, and a fragment that swallows
the next line. `ProcessReap` has machines that reuse pids and reboot, a server that records
the children it spawns (`Record`, behind the read of the creation time), tombstones them, kills
them at shutdown and reaps at boot (`Leave`, `Clear`, `Reap`, `Spare` are the outcomes of
`reapOne`), and a storage root that may be carried to another machine. `raced` names the two
windows in which a pid may change hands between a look and a use. `Requisitions` and
`Reviews` are the mutations of `records/index.ts`, each with its lock in memory, its append
(kept, torn or refused) and what the registry does afterwards; `Records` puts the two
registries side by side, with the claim and the consumption of a requisition by a creation, and
adds crash and boot.

### HostEvents

One session's log as the session manager writes and reads it. `Tick`, `TickReads`,
`TickSettles` are `tickChecklistItem` around its awaits, `CheckBegins` to
`ExhaustionSettles` the budget check with its two notices. `foldPayroll` is the fold of
`payroll.ts` over the whole spill; an envelope's time is its place in the log.

### RpcSubscriptions

The runtime's side of the link. A subscription has credit, a replay read
a record at a time while live events queue behind it, a byte budget, and a gap that ends it
(`Deliver`, `ReadReturns`, `Credit`, `Gap`); the writer serves replies first, in bursts,
and the subscriptions in turn, and stops while the pipe is full (`Pump`, `Drain`, `Answer`).
All lines have one size, so that byte budgets are budgets in lines. The host need not
extend credit; `CoreDrops` is the core's own gap, passed on.

### LiveView

From `subscribe` to the screen. `conn` is a connection of either edge with its greeting, its
replay and the guard that drops a slow socket; the console's `stream` dials again, gives
up or refetches by the closing code; `rows` is the transcript, where a message's streamed
parts become its row. `Drop` loses a connection, `OnStaleEnvelope` is a replaced stream
that still fires, `Select` a reselection, `hole` a seq the spill does not have: the crash or
failed append that lost it ended the session, so that all it says is said from the start. `Write`
is the guard over each item of one call, `Fans` what an envelope does to the connection
(`Swamped`: one that replays has too much buffered). Of `EventLog` it keeps what a subscriber is
handed: replay, live envelopes and a gap.

### CodexAdapter

A child for each turn, spoken to by JSON-RPC. `Answer` and `Timeout` settle the one call
outstanding; `Continue` is what the promise set off, up to the next call, and runs before
the next timer or event. `Lines` are notifications (items, a turn's end with any status, a
schema mismatch, an overflow, an approval asked or resolved), `Respond` an operator's
answer, `Kill` the core's, `Close` the process's end, with and without a turn left
open. A process is named by the turn it was spawned for; a superseded one closes late.

### Console, AuditView

`Console` is the rest of the page: calls that are out (`calls`, answered in any order), what
each handler does with its answer, the four panels, the screens above them and the login; and the
routes, each by what it can answer. A behaviour follows one panel, or the list of sessions
with the writes beside it. `AuditView` is `GET /api/audit` from the panel's pinned query over
the page walk to the file; cursors are line numbers under the secret of one boot.

### Checkpoints

The workspace is `files` (contents by path) and `rules`, the paths its `.gitignore`
names; a content of `Dangling` is a link to nothing, and a directory of `Repos` a repository of
its own as long as there is a file in it. git is its `index` and its `commits`, each with its tree, its rules and the manifest
of what it ignored, if that was captured. `Checkpoint` is the commit before a turn, and
`Write`, `Delete`, `EditRules` the agent at work. `Restore` verifies the checkpoint and reads the
protected set, in which an ignored directory is one entry unless something in it is tracked, and
from which a link to nothing is missing, because its `stat` fails. `add -A` (`Staged`) takes a file by its
content and a repository as one `Gitlink`, at whatever commit (whether two differ is a choice),
and may keep the gitlink of one whose directory is empty. `Preflight` looks for collisions with the target's tree, `SafetyCommit` commits what is
there, `ReadTree` makes index and workspace the target's, or stops on the way, or leaves
paths behind, and `Verify` compares and reports. `Crash` may strike behind any of them. Nobody else
edits the workspace during a restore, as 20-contract 1539 has it. A stale `index.lock` is a
command that fails. What git does with repositories and links was tried with git 2.39. A
repository begun in a directory that has tracked files is left out.

### MCHost, MCOperator

Parts that share no state go through one run side by side: `part` (`at`) says
which part a behaviour is in, the others stay as they began. `MCHost` extends the modules of
the processes and of the two registries and has four: the processes, each registry on its
own, the manager's events. `MCOperator` extends `Checkpoints` and has three: the console, the
audit panel and the restore.

## 4. What is checked

| Run | Module, bounds | Shows |
|---|---|---|
| `session_turn` | `SessionTurn`, 2 turns, 1 record, 1 operation | the slot has one owner (`SlotExclusive`), a child its turn (`ChildHasTurn`), a turn's envelopes are bracketed and closed (`TurnBracketed`, `AnnouncedTurnCloses`), nothing follows the session's end (`SessionEndIsLast`) |
| `session_turn_live` | 1 turn, 2 records, 2 operations | every `send` returns (`SendReturns`); a killed child's turn frees the slot (`KillFreesSlot`) |
| `permission_flow` | `MCPermissionFlow`, 2 requests, 2 turns | each request is resolved once, within its turn unless its turn was cut or its resolution lost (`PermissionPaired`); nothing is allowed unaudited, and what is audited was decided (`DecisionAudited`); a restart leaves a turn open only if its end was lost in front of a later turn's line (`RestartClosesTurns`) |
| `event_log` | `EventLog`, 1 subscriber, ring 2, high water 1, 5 seqs | the spill is the history (`SpillIsHistory`, `SpillRises`); a live subscriber is complete (`LiveIsComplete`); `EventLog` implements `EventStream` (`StreamKept`); a replay ends (`ReplayEnded`) |
| `server_lock` | `ServerLock`, 2 servers, 2 hosts, the code's 10/2/5/2 seconds | one server at most works on the root while boot takes less than a second, no renewal fails and none is told to stop before its first renewal (`RootExclusive`), on one host always (`HostExclusive`); a displaced server stops (`DisplacedStops`) |
| `create_session` | `MCCreateSession`, 2 creations in three arrangements, 1 requisition, 2 crashes, 1 live session at most | no two live sessions in overlapping directories (`OneLivePerWorkspace`); what is visible is paid for, and what is paid for exists (`PublishedIsPaid`); a creation refused with an error keeps no claim, one that rejected keeps its record and directory with it (`RefusedHoldsNoClaim`); a create returns (`CreateReturns`) |
| `host` | `MCHost`: 2 machines, 1 pid, 3 births, 3 lives, 1 reboot; 2 requisitions, 1 review, 3 revisions, 2 crashes; 6 envelopes, budget 2, warning line 1, 1 refusal | boot spares strangers and reaps orphans (`StrangersSpared`, `OrphansReaped`); a decision and a final review are for ever (`DecidedOnce`, `FinalStays`); an item is completed once, a notice follows its crossing, idle time is between turns (`ItemCompletedOnce`, `NoticeFollowsCrossing`, `IdleIsBetweenTurns`) |
| `rpc_subscriptions` | `RpcSubscriptions`, 2 subscriptions, 2 seqs, credit 1, queue 1, 2 controls, burst 1 | each subscription implements `EventStream` and a gap of the link names the last seq sent (`StreamKept`); one with credit moves on (`CreditedMovesOn`) |
| `live_view` | `LiveView`, 3 seqs, 2 parts, ring 1, guard at 1 or 3, a hole at 1, at 2 or none, 1 drop, 1 reselection | the transcript is the history or says that it is not (`ViewIsHistory`), and no bubble is only a message's head; the view catches up (`ViewCatchesUp`) |
| `codex_adapter` | `CodexAdapter`, 2 turns, 1 request id | a process ends one turn (`EndsItsTurnOnce`); answers go to who waits (`AnswersAreAwaited`); a send returns (`SendReturns`) |
| `operator` | `MCOperator`: 2 sessions, 2 calls; pages of 1 record, 2 lines scanned, 3 lines, 3 loads, 1 restart; 4 paths, one of them a repository's file, 2 contents, one a link to nothing, 2 commits | a panel is the selected session's, and nothing but the requisitions panel covers the login (`OverlaysAreCurrent`); audit rows are one query's (`AuditRowsAreOneQuery`); what a restore replaces is in its safety checkpoint, but for a repository's files and links to nothing (`NothingIsLost`), and what it reports is so (`RestoreTells`) |
| `spawn_into_ended` | `SessionTurn`, 2 turns | `NoSpawnIntoEndedSession` is refuted: section 6 |

Why the bounds are enough. *Turns*: every hazard needs at most one turn and its successor;
two sends meet at every await, one record is enough to be late, one operation to
intervene, and the storage failure is unbounded. *Permissions*: two requests meet on one
pipe, one can grant the rule that answers the other, two turns let a record of the first
child land in the second; the requests are symmetric. *Log*: five seqs overflow a
ring of two, leave some of the history to the spill alone, and fill a buffer of one;
subscribers do not affect each other (two were checked as well). *Lock*: a claimant and a holder are two;
the former server gives each of them a stale lock to race for. Renewals are counted up to 7 and then
from 1 again, more than fit one window; the proof shows that a count does not come round while
anybody watches. The inductive invariant of section 5 was checked with three servers, at smaller
times. *Creation*: the hazards are between a
pair; the second crash strikes the recovery from the first. *Processes*: three births are an
orphan, the stranger that takes its pid and a later child; three lives let a server
elsewhere come between. *Records*: two requisitions, one to be glued to the other's fragment;
a review is edited, finalised and edited again. *Manager*: six envelopes hold two turns, a crossing
of each line and a restart. *RPC*: with a budget of one record everything overflows, and a
burst of one alternates. *Transcript*: one seq is in the ring, one in the spill, one live.
*Codex*: the second child numbers its requests as the first did, and starts while that one
dies. *Console*: with two sessions one is selected and one is left; two calls overtake each other.
*Checkpoints*: a path, two beneath it and one beneath the second, which is then a repository, give
the shapes of a collision, an ignored directory with a repository inside and one beside a plain file; of two
commits one is the target and one the safety checkpoint; of the contents one is a link to nothing,
and a path's content may change into the other's.
CHECK_DEADLOCK is off where the bounds let the system come to rest.
`TypeOK` of a module was checked by TLC on its run's instance with that one invariant; the runs spend their
time on the rest.

Fairness, all of it weak. *Turns*: awaited I/O completes, and a killed child the adapter still owns dies,
because SIGKILL follows SIGTERM (`process/termination.ts`); no agent is assumed
to finish. *Log*: writes settle and a replay goes on reading; the bound on emission lets it
reach the end of the file. *Lock*: time passes and a server does what is due; a boot ends unless the
server is late.
*Creation*: the server's own steps are taken, and timers are among them; the host need never answer.
*RPC*: the event loop runs what is scheduled, reads and writes settle, and the host
reads its pipe (`Drain`); it need not give credit, and replies may keep coming.
*Transcript*: the edge and the browser run their handlers and timers, and the socket drains;
nobody reselects and no connection is lost by assumption. *Codex*: timers fire and promises
continue; the process may stay silent for ever.

## 5. What is proved

For every value of the constants that the modules' own `ASSUME`s admit, and with no bound on
turns, records, seqs, crashes, servers or time. A component of the core has a module of proofs of
its own; `Neighbours_proofs` has those of the parts beside the core and `Host_proofs` those of the
host and of the transcript. They extend `MCOperator` and `MCHost`, to name the properties as those
runs do, and prove them of each part's own specification, not of the composition. Each part has a
theorem of type correctness (`TypeCorrect`, `ReapTypeCorrect`, `CodexTypeCorrect`,
`RpcTypeCorrect`, `ViewTypeCorrect`) or has the types in its inductive invariant (`HostEvents`,
`Console`, `AuditView`), beside what follows. `AppendLog_proofs` has no specification: it holds
the lemmas about the ndjson files that `Host_proofs` and `CreateSession_proofs` share, that is
which lines an append, a tear or a crash leaves, and which line is then the newest of an id.

**`SessionTurn_proofs`.** `SlotIsExclusive` stands on `SlotExclusive` itself: every action that
gives the slot to a turn, or the session to an operation, looks at both in the step in which it
claims, and the storage-failure branch clears the turn with the state; `present` joins it because
a removal never gives its claim back. The other four rest on `SessionInv`:

* `ChildrenHaveTurns` (`ChildHasTurn`). Until a send is raced it is the only one in progress, and
  the slot is its own or nobody's (`SendsApart`). A running child nobody has killed is then the
  one the adapter's handle reaches, and its turn holds the slot, or is the one a storage failure
  cleared and has yet to kill, or had its result seen before that kill (`Watched`, `Outrun`). Most steps claim nothing, spawn nothing and free
  nothing, and one lemma (`Calm`) does for all of them.
* `TurnsAreBracketed` (`TurnBracketed`) and `AnnouncedTurnsClose` (`AnnouncedTurnCloses`). Neither
  is inductive: what may come next depends on where the send is and who holds the slot.
  `Transcripts` says it for each turn: begun exactly from the step that announces it, closed only
  by the failing send or in the step that takes its slot, and, once begun, closed or still
  somebody's to close.
* `SessionEndComesLast` (`SessionEndIsLast`), an action property: an ended session has no turn,
  and no send either unless one was raced or freed by another turn's child (`Concluded`), so that
  nobody is left to say anything.

**`PermissionFlow_proofs`**, over any set of requests and turns.

* `AllowedIsAudited` (`DecisionAudited`). A request leaves `pending` with its decision, its
  decision is appended at most once, and while storage works its cancellation is appended only
  behind its departure from both maps (`Recording`); what was replied or announced has its record
  (`Audited`).
* `RequestsArePaired` (`PermissionPaired`). As long as its turn is not cut, a request that is in
  neither map has its resolution in the transcript, and one that is in a map belongs to the turn
  in the slot, whose child lives (`Outstanding`); the transcript keeps the order of a turn's
  start, requests, resolutions and end through every append of one envelope or of a batch
  (`Transcript`), and a crash, wherever it cuts and whatever it turns into holes, leaves the rest in
  its order.
* `RestartEndsTurns` (`RestartClosesTurns`). Boot finds the one turn that may be open, because
  turns do not overlap in what was spilled: any prefix of such a transcript is one again, and holes
  in it let an earlier turn appear open only where its end is one of them.

**`EventLog_proofs`.**

* `HistoryKept` (`SpillIsHistory`) and `NoSeqTwice` (`SpillRises`) follow from `LogInv`: a restart
  reads its seq from the last line that parses, so that line must be the highest; a line behind a
  fragment is torn, so a sound file must have no fragment; the queue must lie above the file and
  the next seq above both; boot writes past the queue, which must be empty.
* `NothingIsMissed` (`LiveIsComplete`). The ring is the end of the history (`RingInv`). A
  connection's watermark is what it was handed, and behind it either it buffers, without a hole,
  all that the lines still to be read do not have, or it is live and complete, or it was told of a
  gap (`Holds`, `CaughtUp`). The replay cannot skip a line because the number of lines it awaits
  is taken when it registers, and the file only grows.
* `EventLogImplementsStream` (`StreamKept`): the refinement of `EventStream` under the mapping in
  `EventLog`. The initial states map; `Emit`, the write queue, boot's notices and the replay are a
  `Publish`, `Crash` a `Restart`, `Subscribe` and `Disconnect` a `Resume`, and `Serve` a stutter.

**`ServerLock_proofs`** has two arguments with nothing in common.

* `OneServerPerHost` (`HostExclusive`), for any timing. A server publishes its lease before it
  enumerates the others, so of two the second to publish finds the first; it passes over a lease
  only when that process is dead. A lease stays on disk until its server closes or exits, and two
  servers of one host are never both past the other's (`Apart`).
* `OneServerPerRoot` (`RootExclusive`), for any hosts and any number of servers, from `Timely`:
  boot, one interval, the drain and the kill are together less than the window, and so are boot
  and two intervals. The code's numbers (10, 2, 5 and 2 seconds) satisfy it for a boot below one
  second; nothing in the code enforces that, and section 6 shows what happens otherwise. The core
  of it is `Outlasts`: whoever works, or has a renewal in flight, behind the lock a claimant
  sampled has less time left without a renewal (`Remaining`) than the claimant has left to watch.
  It needs the sample to be told from every later content: a renewal counts on, and `Counts`
  bounds the renewals of one window by the time it takes; the same server may only write the lock
  anew when nobody can still hold a sample of its earlier one (`Echo`); and nobody works while a
  lock is being overwritten or confirmed (`Overwriting`, `Confirming`), by however many claimants
  at once. An attempt to prove it without `hasty` failed at the shutdown of a server that has not
  renewed yet, and TLC showed that it is false there (`MCThreeServers`).

**`Neighbours_proofs`.** *Checkpoints*, for any paths, repositories that do not nest, contents, ignore rules and commits.
`RestoreLosesNothing` (`NothingIsLost`) and `RestoreReportIsTrue` (`RestoreTells`) rest on what
each step of a restore leaves to the next (`Underway`): the protected set is the one the
workspace's own rules give, the target collides with none of it, and from the safety commit on the
newest commit holds every file that was not protected, in a repository or a link to nothing
(`SafetyHolds`). The lemma both need
(`HeldIsApart`) is that a target's path which collides with no protected entry neither is one, nor
lies beneath one, nor above one.

*The Codex adapter*, for any number of turns, over app-server and exec. `TurnsEndOnce`
(`EndsItsTurnOnce`): turns begin one after the other and the newest one's process is the child
(`Begun`); a process whose result was seen has ended its turn or reported an unknown status
(`Resolved`); and a process that has ended a turn has its result seen or is closed, after which it
ends no other (`EndedOnce`). `AnswersGoWhereAwaited` (`AnswersAreAwaited`), an action property:
the approvals kept for a process are among those it asked and neither got answered nor took back
(`Owed`).

*The runtime link*, for any number of subscriptions, any credit, queue budget, control limit and
burst. `RpcImplementsStream` (`StreamKept`) is the refinement of `EventStream` under the mapping
in `RpcSubscriptions`: `Emit`, an event written to the pipe and a gap of the core are a `Publish`,
`Subscribe` (also past the end) a `Resume`, and the rest are stutters. It stands on `Attended`:
what a host was sent follows on its position up to the watermark, the queue follows on the
watermark or, during a replay, on where the file ends, and what is still to come follows on the
queue (`Lined`). That `Pump` is never without a choice needs the round robin to have a nearest
ready source, the least of a nonempty set of distances.

*The console*, for any sessions and calls. `OverlaysStayCurrent` (`OverlaysAreCurrent`) follows
from `Covers`: a panel opens, or waits to, only for a session that is selected and never over the
login, and what it then shows is that session's, because every handler compares the session its
call was made for with the one selected; the login closes what is open.

*The audit panel*, for any file, page size and scan limit. `RowsAreOneQuery`
(`AuditRowsAreOneQuery`). The records a page holds are a set read downwards, and a set has one
such order (`Falls`), so that two pages whose sets meet at the cursor are one (`AuditInv`): an
answer on its way holds what matches between its request's position and its cursor (`Page`), the
request that is out asks for what the panel lacks (`Wanted`), no other answer is heeded
(`Tokens`), and the file only grows at its end.

**`Host_proofs`.** *Records*, for any requisitions, reviews, sessions and crashes.
`DecisionsStand` (`DecidedOnce`): each requisition has at most one line on its way, held there by
the registry and by the lock or the claim its operation took (`OneAppend`, `Claimed`); the
registry is the newest line of each id, and that line follows the acknowledged verdict
(`WrittenDown`). A line behind a fragment is the exception the properties name (`reqGlued`).
`FinalReviewStays` (`FinalStays`) has the same shape: a line on its way is of a draft, so nothing
on its way can follow a final one. The run `host` takes the registries one at a time, to be
finite; the theorems are about both together.

*Processes*, for any machines, pids and images, any number of births, reboots and lives of the
server. `StrangersAreSpared` (`StrangersSpared`): a birth is one process's (`Births`), and as long
as no pid changed hands unseen, every record, every child whose creation time is being read and
the pid boot is about to kill name one of the server's children as long as it lives (`Unraced`).
`OrphansAreReaped` (`OrphansReaped`): a child whose record landed has it as its pid's newest line,
or its pid was recorded again (`Ledgered`); boot's list holds the record of every such child of an
earlier life it has not yet looked at (`Reaping`), and none is left once it serves (`Reaped`).
`ReapInv` is these with the types, what each phase may hold (`Phases`) and the reads in progress
(`Readings`).

*The manager's events*, for any checklist, log and refusals. `ItemsAreCompletedOnce`
(`ItemCompletedOnce`): while the session lives, an item with a completion in the log has a promise
in memory that says so, appending or done, so that no other call appends one; and one that was
told is in the part of the log that survives (`Once`). Boot, which closes what it finds open, adds
no completion.

Two properties speak of a fold over the whole log, the burn of the budget and the payroll's pass.
Each is a `FoldLeft`, which the prover expands to the function on sets of places it is defined by;
that such a function exists for every length (`TallyIs`) and that its values along the log obey the
fold's step (`TallyCounts`, so `BurnCounts` and `PayrollCounts`) is shown by taking the least
length, or place, that fails. `NoticesFollowCrossings` (`NoticeFollowsCrossing`, with the budget,
the line and every usage a natural number: `EventsAssumption`): a notice stands behind a part of
the spill whose burn had reached its line, and behind no notice it repeats or contradicts
(`Timely`). A check that flushes has every notice before the place it flushes to, so that it finds
them all (`Flushing`); one that waits for its warning finds no exhaustion in the log when it goes
on (`Warning`). A longer log has burnt no less (`BurnGrows`). `IdleTimeIsBetweenTurns`
(`IdleIsBetweenTurns`): in every log a turn that ends was open, or ends behind a restart, and none
starts behind one (`Orderly`, `TurnsInv`). On such a log the pass has billed, after each line, the
times without an open turn up to the last turn's start, and its cursor is where the time since then
stopped being a turn's (`BilledUpTo`).

*The transcript*, for any session, lost line, ring, budget of a socket and number of lost
connections and reselections, on either edge. `ViewsAreHistory` (`ViewIsHistory`) is about rows,
and rows come from what the connection carries, which in turn comes from where the edge's
connection stands. `ViewInv` has one part for each. A live connection has written up to the
session's last seq, a replaying one up to its watermark (`Attached`). Each item of the inbox
follows on what comes before it (`FollowsOn`): with `Reaches` how far the console will be by then,
the next envelope is the next seq, or a gap comes first (`GapBefore`); and a message finds in the
bubble (`Drawn`) an end of its parts or nothing (`Whole`). The rows begin with the seqs from 1 on
and rise behind a gap's row (`Shown`). A closed connection has nothing behind its end, and one
that greets carries nothing but the greeting (`Linked`), so that the position it then names is the
one the console is at. The lemmas underneath say what becomes of `FollowsOn` when an item is
added, a run of envelopes is added, the head is taken or the end is lost, and what `Write` (the
guard) leaves of any list: all of it, or a first part, a gap that tells how far it got, and the
end.

**`CreateSession_proofs`**, for any sessions, directories, requisitions and crashes, and a host
inside or outside the process. All of it stands on `Table`: what a create has left behind, in the
entry, on disk and at the host, by each of its steps.

* `OneLivePerDirectory` (`OneLivePerWorkspace`), for `MaxLive = 1`, which is what the session
  manager configures. Who is being created or is live holds its directory (`HoldsPlace`). That two
  holders never overlap is not inductive: boot gives a directory back to every attempt it finds,
  with no look at the others. `Apart` says that this is the only way, and that neither of the two
  is then visible or working.
* `RefusalsHoldNoClaim` (`RefusedHoldsNoClaim`). The claimed are exactly those whose attempt at
  the host is prepared or committing, each alone on its requisition (`Claims`), and a create that
  returned an error has an attempt in neither state once the host is done (`Settles`); one that
  rejected still has the record boot asks the host by, and its directory.
* `CreationsArePaid` (`PublishedIsPaid`). A line on its way is of a claimant that commits, and the
  registry is the newest line of each requisition (`Promised`). Whoever is counted on, because the
  host committed, boot was told so, or there are files and no attempt record, is named by its
  requisition's newest line (`Paid`); and any line that names a session names one whose files are
  there and whose unwind can no longer run (`Delivered`).

An attempt to prove the first found the model wrong: `state` was never set for a session created
behind a restart, so that the property held of it for nothing. It was corrected and the run
repeated.

What stays with TLC. The liveness properties (`SendReturns`, `KillFreesSlot`, `ReplayEnded`,
`DisplacedStops`, `CreateReturns`, `CreditedMovesOn`, `ViewCatchesUp`) are out of the proof
system's reach.

## 6. Where the code and its documents part

The first is a run and the finding of `PROJECT.json`; the configurations named for the others are
run by hand, and TLC refutes each of them. A configuration that holds several properties is taken
with one of them at a time.

| Statement | Configuration, module | What happens |
|---|---|---|
| `NoSpawnIntoEndedSession` | run `spawn_into_ended` | turn 1 ends before its session id is reported; the append of turn 2's `resume_unavailable` fails, the session is failed, and `send` still spawns (`core` 1107) |
| `FailureKillsChild` (`core` 373, S9.8) | `MCFailureLeavesChild`, `SessionTurn` | the child prints its result while the storage-failure branch awaits `meta.json`: the seam's turn has ended, and the kill issued behind it does nothing (`core` 415, `adapter-session.ts` 74) |
| `RestartClosesEveryTurn` (`core` 712) | `MCRestartLeavesOpen`, `MCPermissionFlow` | the append of `turn.ended` fails and the next `turn.started`, queued behind it, lands; boot keeps one open turn and closes the newest only (`core` 381, 551) |
| `FailureReleasesClaim` (S13.9, `core` 888) | `MCAbortUnanswered`, `MCCreateSession` | prepare times out and so does its abort; `create` rejects, the host takes up the prepare later, and the claim stays (`create-attempts.ts` 105) |
| `RestoreIsRecoverable` (D31, `checkpoints/index.ts` 319) | `MCRestoreOverRepo`, `MCOperator` | the safety checkpoint has a gitlink for an embedded repository; the target has a file of its name, and `read-tree` removes the repository to write it |
| `IgnoredStands` (I77) | `MCRestoreOverLink`, `MCOperator` | an ignored link to nothing fails its `stat` and is in no protected set; the target has a file of its name, and `read-tree` overwrites it (`checkpoints/index.ts` 126) |
| `SubscriberSeesTurnEnd` | `MCSessionTurnRefuted`, `SessionTurn` | `turn.started` is fanned out before its append fails, and no `turn.ended` follows (`core` 424) |
| `PermissionAlwaysResolved` (I9) | `MCRestartLeavesOpen` with this invariant in place of its own, `MCPermissionFlow` | a `result` record ends a turn whose request is pending; nothing resolves it (`claude-cli` 465) |
| `NoSilentGap` | `MCEventLogRefuted`, `EventLog` | a replay waits for an append, the append fails, and the subscriber misses the envelope without being told (`core` 1547) |
| `TornLineCostsOne` | `MCEventLogRefuted`, `EventLog` | the line boot writes behind a torn fragment is glued to it (`fs.ts` 184) |
| `OneHolder` (I56) | `MCServerLockRefuted`, `ServerLock` | no renewal is sent in boot or once `stopping` is set; a boot of four seconds, a drain of five and a kill of two outlast the window (`server.ts` 261) |
| the same, with a boot that takes no time | `MCThreeServers`, `ServerLock` | three servers: one has reclaimed the lock and confirmed it an interval later, is told to stop a second after that, before its first renewal, and drains and kills for seven more. A claimant that sampled the lock when it was written finds it unchanged and decides to overwrite; the holder, whose ownership check still passed, removes it; a third server links it in between and serves; the overwrite lands, and two serve (`store/index.ts` 198, 269). TLC takes three minutes. `RootExclusive` excepts it by `hasty` |
| `OneTurnInFlight` (`design/10-design.md` 2280: "At most one turn in flight per session. This is the invariant everything else leans on") | `MCSessionTurnRefuted`, `SessionTurn` | the child of turn 1 outlives its turn and prints its result while the send of turn 2 is at an await; the core frees the slot, turn 3 claims it; `send` asks whether the slot is taken and not by whom, so that both sends go on (`core` 1082) |
| `HolderNamed` (I56) | `MCServerLockRefuted`, `ServerLock` | a renewal in flight when shutdown begins lands after the release, over a successor's lock, which stops itself at its next renewal (`server.ts` 225) |
| `ShutdownKills` (20-contract 2380) | `MCShutdownOrphan`, `ProcessReap` | shutdown tombstones a child it has only sent SIGTERM; one that ignores it lives on, and no later boot reaps it |
| `TornTailKeepsFinal` (`store/index.ts` 122) | `MCTornTail`, `Records` | a final review's line behind a fragment of an earlier failed append is acknowledged and cannot be read back |
| `WatermarkNeverAdvances` (`subscriptions.ts` 53) | `MCWatermark`, `RpcSubscriptions` | a gap of the core is passed on with the core's watermark, past what was sent |
| `TextIsWhole` (20-contract 588) | `MCLiveViewRefuted`, `LiveView` | who attaches while a message is streamed shows its tail (`app.js` 839) |
| `ReloadsStop` (D155, 20-contract 2730) | `MCLiveViewRefuted`, `LiveView` | each refetch forgets that it was one; a history with a hole is refetched again and again (`app.js` 661) |
| `NoTurnLeftOpen` | `MCCodexRefuted`, `CodexAdapter` | a `turn/completed` of an unknown status marks the result seen and ends no turn; the close stays silent too (`codex-cli` 319) |
| `ExecEndsOnce` (I14, 20-contract 3093) | `MCCodexRefuted`, `CodexAdapter` | exec reads on behind a schema mismatch and ends the turn again |
| `LoginIsUncovered` | `MCConsoleRefuted`, `Console` | `showLogin` hides every overlay but the requisitions panel (`app.js` 1669) |
| `RowsAreOfSelected` | the same | checkpoints and reviews show the previous session's rows until their own arrive, or for good when the read fails |
| `TerminatesWhatItShows` | the same | the DELETE takes the session selected by then, which a finished creation changed under the screen |
| `MessageReachesItsSession` | the same | the session is read after the attachments were encoded (`app.js` 1173) |
| `EndedStaysEnded` | the same | a list read before the end arrives behind it and offers the composer again |
| `DraftIsOfSelected` | the same | a draft saved under another selection is edited and published from that session's form |

The properties that pass except what these and the following cause, and say so: a
failed `send` that was raced announces `turn.ended` twice, and its late
`entry.turn = null` may clear a newer turn (`core` 1135), and two sends at work on one slot may
do anything a single one does not (`raced`); what a superseded child
still prints is stamped with the turn in the slot ("foreign"); answers in flight when storage
fails are not cancelled (`cut`, I9 says all are).

Met while reading, where no property states them:

* A superseded child is never sent SIGKILL: the grace timer looks at the current
  child (`termination.ts` 35). After a failed append the queued writes are still attempted.
* Boot sends no renewals, so one of more than ten seconds can be reclaimed. The fold
  of the pid ledger keys records by pid alone, so that one host's record replaces another's
  (the exception of `OrphansReaped`).
* When the write of an attempt record fails behind its rename, the creation is refused and
  its record stays: every later boot keeps it quarantined. So does the record of one that rejected,
  with its directory, until a boot at which the host says `aborted`: `prepared` is not an end, and if the
  host never takes up the abort the claim and the directory are held for ever. Its adapter, where it
  had one, is not killed either. A storage failure during a
  creation releases the workspace while `create` goes on and publishes an ended session.
* A comment has a crash between claim and consumption leave the requisition spent
  (`records/index.ts` 182); it is claimable again after the restart.
* The line-length overflow of Codex lacks the guard every other line passes, and acts
  for a superseded child (`codex-cli` 500). The approval policy and the file change
  request are not those of 20-contract 3330.
* After a crash that loses queued lines, boot's notices take their seqs, which a client's
  `Last-Event-ID` may already name.
* A budget exhausted by refused envelopes and followed by no usage is never announced; the
  `has(itemId)` branch of the checklist cannot be reached in one life of the server.
* A `ckpt.git/index.lock` left by a git that was killed is never removed: every later
  checkpoint and restore of the session fails, with `locked` (`checkpoints/index.ts` 93).
* Console: a superseded burn clears the header (445), a failed review read keeps the badge,
  of two answers for one session the later to arrive wins, a second submission clears
  attachments added meanwhile.

## 7. Not modelled

* **Attachments.** Staging is synchronous bookkeeping under size limits and a sweep timer;
  `send` takes what is staged in the step that claims the slot, and the write that may
  fail behind it is in `SessionTurn`.
* **Of the checkpoints**, the repository's creation (a step of `CreateSession`), its removal (in
  `SessionTurn`'s) and the list, which reads; what git does inside a command is modelled
  from how the code uses it.
* **`admin.reassignPrincipal`** (`core` 765-781), which only the runtime RPC offers: it claims the
  session as an operation does, awaits `meta.json`, puts back the record it copied before that, and
  drops the subscribers. What a storage failure wrote to the record meanwhile is then undone; no
  model says so yet.
* **Rename, artifact reads, tool outputs.** One field written, files read: no protocol.
* **The mapping of the agents' records to events** (in the adapters' files, `diff.ts`, `summarise.ts`) and the
  matching of standing rules: pure functions of long records; the models take any outcome.
* **The dispatch of RPC calls** by name and the parsing of lines (`peer.ts`, `reader.ts`).
* **Validation, headers, cookies, static files, configuration, contract types**: no
  state beyond the request. **Rendering** (`render.js`), themes and the fold of the
  circles panel: presentation. **Harness, spike, prototypes**: beside the program.
