---- MODULE CreateSession ----
(***************************************************************************)
(* How a session comes to exist: SessionCore's create, from the workspace  *)
(* reservation over the attempt record, the host's prepare and commit and  *)
(* meta.json to the publication, every unwind, and boot's recovery of the  *)
(* attempts a crash left (core/index.ts, core/create-attempts.ts,          *)
(* store/create-attempts.ts, core/workspaces/).  The host is the session   *)
(* manager, which claims and consumes a requisition for the session.       *)
(*                                                                         *)
(* An inside host lives in the server's process and forgets its attempts   *)
(* when it dies; an outside one is reached over the runtime's RPC, takes   *)
(* and answers every call late or not at all, its abort too, and keeps its *)
(* records.  A create whose abort gets no answer rejects where it stands.  *)
(***************************************************************************)
EXTENDS Requisitions, SequencesExt

CONSTANTS
  Sessions,
  Inputs,      \* what is asked for: session -> [cwd, req], cwd a sequence of names
  MaxLive,     \* maxLiveSessionsPerWorkspace; the session manager passes 1
  MaxCrashes   \* bound

NoReq == "no requisition"

ASSUME CreateAssumption ==
  /\ IsFiniteSet(Sessions) /\ IsFiniteSet(Reqs)
  /\ NoSession \notin Sessions /\ NoReq \notin Reqs
  /\ Inputs \subseteq [Sessions -> [cwd : Seq(STRING), req : Reqs \cup {NoReq}]]

VARIABLES
  outside,   \* the host is another process
  up,        \* "up", "down", or "booting" between recoverPending and serving
  crashes,
  pc,        \* where each create is
  out,       \* what it returned
  input,     \* what each was asked for
  alloc,     \* the allocator's reservations: "none", "pending" or "live"
  attempts,  \* create-attempts/*.json
  meta,      \* meta.json of each session: "none", "live" or "ended"
  listed,    \* its registry entry: "absent", "creating" or "visible"
  state,     \* entry.record.state, once it has an entry
  host,      \* the host's attempt states
  claimed,   \* the sessions whose host holds a claim on their requisition
  asked,     \* the sessions whose commit was sent to the host
  preparing, \* the sessions whose prepare the host is working on
  todo,      \* the attempts boot has yet to ask the host about
  confirmed  \* the attempts it knows to be committed

hostVars == <<host, claimed, asked, preparing>>
diskVars == <<attempts, meta>>
entryVars == <<listed, state>>
bootVars == <<up, crashes, todo, confirmed, outside>>
vars == <<reqVars, hostVars, diskVars, entryVars, bootVars, input, pc, out, alloc>>

cwd == [s \in Sessions |-> input[s].cwd]
req == [s \in Sessions |-> input[s].req]

PathsOverlap(p, q) == IsPrefix(p, q) \/ IsPrefix(q, p)

\* Every requisition was raised and approved before; Records has that part.
ReqApproved ==
  /\ reqLog = [EmptyLog EXCEPT !.lines = SetToSeq({Requisition(r, "approved", NoSession) : r \in Reqs})]
  /\ reqs = [r \in Reqs |-> Requisition(r, "approved", NoSession)]
  /\ deciding = << >> /\ reserved = {} /\ reqAppends = {} /\ reqGlued = {}
  /\ verdict = [r \in Reqs |-> "approved"]

Init ==
  /\ ReqApproved
  /\ outside \in BOOLEAN
  /\ up = "up" /\ crashes = 0
  /\ pc = [s \in Sessions |-> "idle"]
  /\ out = [s \in Sessions |-> "none"]
  /\ input \in Inputs
  /\ alloc = [s \in Sessions |-> "none"]
  /\ attempts = {}
  /\ meta = [s \in Sessions |-> "none"]
  /\ listed = [s \in Sessions |-> "absent"]
  /\ state = [s \in Sessions |-> "none"]
  /\ host = [s \in Sessions |-> "new"]
  /\ claimed = {} /\ asked = {} /\ preparing = {}
  /\ todo = {} /\ confirmed = {}

Serving == up = "up"
At(s, step) == Serving /\ pc[s] = step
Goto(s, step) == pc' = [pc EXCEPT ![s] = step] /\ UNCHANGED out
Return(s, result) ==
  /\ pc' = [pc EXCEPT ![s] = "returned"]
  /\ out' = [out EXCEPT ![s] = result]

\* reserve: refused while MaxLive reservations overlap the new one.
FreeUnlessEqual(s) ==
  Cardinality({t \in Sessions : alloc[t] # "none" /\ cwd[s] = cwd[t]}) < MaxLive
Free(s) ==
  Cardinality({t \in Sessions : alloc[t] # "none" /\ PathsOverlap(cwd[s], cwd[t])}) < MaxLive
Reserve(s) ==
  /\ At(s, "idle")
  /\ Free(s)
  /\ alloc' = [alloc EXCEPT ![s] = "pending"]
  /\ Goto(s, "record")
  /\ UNCHANGED <<reqVars, hostVars, diskVars, entryVars, bootVars, input>>

\* createAttempts.write: temporary file, rename, directory sync.  An error
\* gives the workspace back, also when only the sync behind the rename failed.
RecordAttempt(s) ==
  /\ At(s, "record")
  /\ \/ /\ attempts' = attempts \cup {s}
        /\ Goto(s, "prepare")
        /\ UNCHANGED alloc
     \/ /\ attempts' \in {attempts, attempts \cup {s}}
        /\ alloc' = [alloc EXCEPT ![s] = "none"]
        /\ Return(s, "error")
  /\ UNCHANGED <<reqVars, hostVars, meta, entryVars, bootVars, input>>

\* The host's effects of prepare: a requisition is claimed, if one is named.
HostPrepares(s) ==
  IF req[s] = NoReq
  THEN /\ host' = [host EXCEPT ![s] = "prepared"] /\ UNCHANGED <<reqVars, claimed>>
  ELSE IF Claimable(req[s])
  THEN /\ ClaimReq(req[s])
       /\ claimed' = claimed \cup {s}
       /\ host' = [host EXCEPT ![s] = "prepared"]
  ELSE /\ host' = [host EXCEPT ![s] = "aborted"] /\ UNCHANGED <<reqVars, claimed>>

\* What the host does on an abort: nothing once committed.  An attempt that is
\* committing is never aborted: create aborts before it commits or after the end.
HostAborts(s) ==
  IF host[s] = "committed" THEN UNCHANGED <<reqVars, host, claimed>>
  ELSE /\ host' = [host EXCEPT ![s] = "aborted"]
       /\ claimed' = claimed \ {s}
       /\ IF s \in claimed THEN ReleaseReq(req[s]) ELSE UNCHANGED reqVars

\* create awaits its abort.  A call to an outside host ends in an error when it
\* is not answered in time, and nothing in create catches that; the host takes
\* the call later, or never does.
Aborts(s, step) ==
  \/ HostAborts(s) /\ Goto(s, step)
  \/ outside /\ Return(s, "rejected") /\ UNCHANGED <<reqVars, host, claimed>>
LateAbort(s) ==
  /\ out[s] = "rejected"
  /\ HostAborts(s)
  /\ UNCHANGED <<asked, preparing, diskVars, entryVars, bootVars, input, pc, out, alloc>>

\* hostCreate.prepare: an inside host claims in this tick.
Prepare(s) ==
  /\ At(s, "prepare")
  /\ IF outside
     THEN preparing' = preparing \cup {s} /\ UNCHANGED <<reqVars, host, claimed>>
     ELSE HostPrepares(s) /\ UNCHANGED preparing
  /\ Goto(s, "preparing")
  /\ UNCHANGED <<asked, diskVars, entryVars, bootVars, input, alloc>>

\* A slow prepare takes effect, at its time; one that was aborted meanwhile
\* undoes what it did.
NeverUndone(s) == FALSE
Undone(s) == host[s] = "aborted"
LatePrepare(s) ==
  /\ s \in preparing
  /\ preparing' = preparing \ {s}
  /\ IF Undone(s) THEN UNCHANGED <<reqVars, host, claimed>> ELSE HostPrepares(s)
  /\ UNCHANGED <<asked, diskVars, entryVars, bootVars, input, pc, out, alloc>>

\* Its answer; a refusal is aborted as well.
PrepareReturns(s) ==
  /\ At(s, "preparing")
  /\ s \notin preparing
  /\ \/ host[s] = "prepared" /\ Goto(s, "adapter") /\ UNCHANGED <<reqVars, host, claimed>>
     \/ host[s] = "aborted" /\ Aborts(s, "unwind")
  /\ UNCHANGED <<asked, preparing, diskVars, entryVars, bootVars, input, alloc>>
\* No answer in time, or an error: aborted here and again by create.
PrepareTimesOut(s) ==
  /\ At(s, "preparing")
  /\ outside
  /\ Aborts(s, "unwind")
  /\ UNCHANGED <<asked, preparing, diskVars, entryVars, bootVars, input, alloc>>

\* adapterFactory fails, or the server began to shut down meanwhile: unwound.
MakeAdapter(s) ==
  /\ At(s, "adapter")
  /\ \/ Goto(s, "store") /\ UNCHANGED <<reqVars, host, claimed>>
     \/ Aborts(s, "unwind")
  /\ UNCHANGED <<asked, preparing, diskVars, entryVars, bootVars, input, alloc>>

\* sessions.set and store.createSession; a failed one may leave files.
StoreSession(s) ==
  /\ At(s, "store")
  /\ \/ /\ meta' = [meta EXCEPT ![s] = "live"]
        /\ listed' = [listed EXCEPT ![s] = "creating"]
        /\ state' = [state EXCEPT ![s] = "live"]
        /\ Goto(s, "init")
        /\ UNCHANGED <<reqVars, host, claimed>>
     \/ /\ meta' \in {meta, [meta EXCEPT ![s] = "live"]}
        /\ Aborts(s, "cleanup")
        /\ UNCHANGED entryVars
  /\ UNCHANGED <<asked, preparing, attempts, bootVars, input, alloc>>

\* checkpoints.init; when it fails, the notice that says so may fail to be
\* appended, and the storage-failure branch of emit ends the session.
InitCheckpoints(s) ==
  /\ At(s, "init")
  /\ Goto(s, "commit")
  /\ \/ UNCHANGED <<meta, state, alloc>>
     \/ /\ state' = [state EXCEPT ![s] = "ended"]
        /\ meta' \in {meta, [meta EXCEPT ![s] = "ended"]}
        /\ alloc' = [alloc EXCEPT ![s] = "none"]
  /\ UNCHANGED <<reqVars, hostVars, attempts, listed, bootVars, input>>

\* The host starts to commit: once, however often it is asked.
HostStarts(s) ==
  /\ host' = [host EXCEPT ![s] = "committing"]
  /\ IF req[s] = NoReq THEN UNCHANGED reqVars ELSE AttachSession(req[s], s)
Commit(s) ==
  /\ At(s, "commit")
  /\ asked' = asked \cup {s}
  /\ IF outside THEN UNCHANGED <<reqVars, host>> ELSE HostStarts(s)
  /\ Goto(s, "committing")
  /\ UNCHANGED <<claimed, preparing, diskVars, entryVars, bootVars, input, alloc>>
LateCommit(s) ==
  /\ outside /\ s \in asked /\ host[s] = "prepared"
  /\ HostStarts(s)
  /\ UNCHANGED <<claimed, asked, preparing, diskVars, entryVars, bootVars, input, pc, out, alloc>>

\* attachSession returns to the host's commit.  A failed one aborts the
\* attempt, which releases the claim.
Settled(s, ok) ==
  /\ claimed' = claimed \ {s}
  /\ host' = [host EXCEPT ![s] = IF ok THEN "committed" ELSE "aborted"]
HostCommits(s) ==
  /\ up # "down" \/ outside
  /\ host[s] = "committing"
  /\ \/ /\ req[s] = NoReq
        /\ \E ok \in {TRUE} \cup {~outside} : Settled(s, ok)
        /\ UNCHANGED reqVars
     \/ \E a \in reqAppends : \E o \in Appends(reqLog, a.line, FALSE) :
          /\ a.op = "attach" /\ a.line.session = s
          /\ Settled(s, o.ok)
          /\ IF o.ok THEN ReqReturns(a, o)
             ELSE /\ reqAppends' = reqAppends \ {a}
                  /\ reqLog' = o.log
                  /\ reserved' = reserved \ {req[s]}
                  /\ UNCHANGED <<reqs, deciding, verdict, reqGlued>>
  /\ UNCHANGED <<asked, preparing, diskVars, entryVars, bootVars, input, pc, out, alloc>>

\* The coordinator reads the outcome, from a reply to commit or to status.
OutcomeAssumed(s) ==
  CASE host[s] \in {"committing", "committed"} -> "publish"
    [] host[s] = "aborted" -> "cleanup"
    [] OTHER -> "committing"
Outcome(s) ==
  CASE host[s] = "committed" -> "publish"
    [] host[s] = "aborted" -> "cleanup"
    [] OTHER -> "committing"
CommitReturns(s) ==
  /\ At(s, "committing")
  /\ \/ Outcome(s) = "publish" /\ Goto(s, "publish") /\ UNCHANGED <<reqVars, host, claimed, listed>>
     \/ /\ Outcome(s) = "cleanup"
        /\ Aborts(s, "cleanup")
        /\ listed' = IF out' = out THEN [listed EXCEPT ![s] = "absent"] ELSE listed
  /\ UNCHANGED <<asked, preparing, diskVars, state, bootVars, input, alloc>>
\* It waits three times, its question each time lost or unanswered, and then
\* does not know.
CommitTimesOutOnceStarted(s) ==
  /\ At(s, "committing")
  /\ host[s] = "committing"
  /\ Return(s, "unknown")
  /\ UNCHANGED <<reqVars, hostVars, diskVars, entryVars, bootVars, input, alloc>>
CommitTimesOut(s) ==
  /\ At(s, "committing")
  /\ outside \/ host[s] = "committing"
  /\ Return(s, "unknown")
  /\ UNCHANGED <<reqVars, hostVars, diskVars, entryVars, bootVars, input, alloc>>

\* destroySessionStorage: what cannot be deleted keeps the attempt.
Cleanup(s) ==
  /\ At(s, "cleanup")
  /\ \/ meta' = [meta EXCEPT ![s] = "none"] /\ Goto(s, "unwind")
     \/ meta' \in {meta, [meta EXCEPT ![s] = "none"]} /\ Return(s, "error")
  /\ UNCHANGED <<reqVars, hostVars, attempts, entryVars, bootVars, input, alloc>>

\* createAttempts.remove: rm and a directory sync, either of which may fail.
AttemptRemoved(s, ok) ==
  attempts' \in {attempts \ {s}} \cup (IF ok THEN {} ELSE {attempts})
\* releaseCreateAttempt: the workspace goes back with the record.
Unwind(s) ==
  /\ At(s, "unwind")
  /\ \E ok \in BOOLEAN :
       /\ AttemptRemoved(s, ok)
       /\ alloc' = IF ok THEN [alloc EXCEPT ![s] = "none"] ELSE alloc
  /\ Return(s, "error")
  /\ UNCHANGED <<reqVars, hostVars, meta, entryVars, bootVars, input>>

\* The record goes, and the session may be seen.
Publish(s) ==
  /\ At(s, "publish")
  /\ \E ok \in BOOLEAN :
       /\ AttemptRemoved(s, ok)
       /\ Return(s, IF ok THEN "ok" ELSE "error")
       /\ listed' = IF ok THEN [listed EXCEPT ![s] = "visible"] ELSE listed
       /\ alloc' = IF ok /\ alloc[s] # "none" THEN [alloc EXCEPT ![s] = "live"] ELSE alloc
  /\ UNCHANGED <<reqVars, hostVars, meta, state, bootVars, input>>

\* end: frees the workspace; its rewrite of meta.json is best-effort.
End(s) ==
  /\ Serving
  /\ listed[s] = "visible" /\ state[s] = "live"
  /\ state' = [state EXCEPT ![s] = "ended"]
  /\ alloc' = [alloc EXCEPT ![s] = "none"]
  /\ meta' \in {meta, [meta EXCEPT ![s] = "ended"]}
  /\ UNCHANGED <<reqVars, hostVars, attempts, listed, bootVars, input, pc, out>>

CreateStep(s) ==
  \/ Reserve(s) \/ RecordAttempt(s) \/ Prepare(s) \/ PrepareReturns(s)
  \/ PrepareTimesOut(s) \/ MakeAdapter(s) \/ StoreSession(s) \/ InitCheckpoints(s)
  \/ Commit(s) \/ CommitReturns(s) \/ CommitTimesOut(s) \/ Cleanup(s) \/ Unwind(s)
  \/ Publish(s)
HostStep(s) == LatePrepare(s) \/ LateAbort(s) \/ LateCommit(s) \/ HostCommits(s)

\* The process dies: memory goes, and with it an inside host's attempts.
Crash ==
  /\ up # "down" /\ crashes < MaxCrashes
  /\ up' = "down" /\ crashes' = crashes + 1
  /\ pc' = [s \in Sessions |-> IF pc[s] = "idle" THEN "idle" ELSE "returned"]
  /\ alloc' = [s \in Sessions |-> "none"]
  /\ listed' = [s \in Sessions |-> "absent"]
  /\ todo' = {} /\ confirmed' = {}
  /\ IF outside THEN UNCHANGED <<reqVars, hostVars>>
     ELSE /\ ReqCrash
          /\ host' = [s \in Sessions |-> "new"]
          /\ claimed' = {} /\ asked' = {} /\ preparing' = {}
  /\ UNCHANGED <<diskVars, state, outside, input, out>>

\* boot: every reservation comes back before the host is asked anything.
Recover ==
  /\ up = "down"
  /\ up' = "booting"
  /\ todo' = attempts
  /\ alloc' = [s \in Sessions |-> IF s \in attempts THEN "pending" ELSE "none"]
  /\ IF outside THEN UNCHANGED reqVars ELSE ReqBoot
  /\ UNCHANGED <<hostVars, diskVars, entryVars, crashes, confirmed, outside, input, pc, out>>

\* The host's status, or no answer.  An attempt it aborted is deleted, when its
\* storage can be; any answer but the two terminal ones decides nothing.
Refused(s) == host[s] = "aborted"
AskHost(s) ==
  /\ up = "booting" /\ s \in todo
  /\ todo' = todo \ {s}
  /\ confirmed' = IF host[s] = "committed" THEN confirmed \cup {s} ELSE confirmed
  /\ \/ ~Refused(s) /\ UNCHANGED <<meta, attempts, alloc>>
     \/ /\ Refused(s)
        /\ meta' = [meta EXCEPT ![s] = "none"]
        /\ attempts' = attempts \ {s}
        /\ alloc' = [alloc EXCEPT ![s] = "none"]
     \/ /\ Refused(s)
        /\ meta' \in {meta, [meta EXCEPT ![s] = "none"]}
        /\ UNCHANGED <<attempts, alloc>>
  /\ UNCHANGED <<reqVars, hostVars, entryVars, up, crashes, outside, input, pc, out>>
NoAnswer(s) ==
  /\ up = "booting" /\ outside /\ s \in todo
  /\ todo' = todo \ {s}
  /\ UNCHANGED <<reqVars, hostVars, diskVars, entryVars, up, crashes, confirmed, outside,
                 input, pc, out, alloc>>

\* Rehydration: an attempt that is not confirmed stays as it was and hidden;
\* every other session comes back ended, on disk too where meta.json can be
\* written.  A confirmed one is published once its own was, and its record is
\* removed.
Rehydrate ==
  /\ up = "booting" /\ todo = {}
  /\ up' = "up"
  /\ LET loaded == {s \in Sessions : meta[s] # "none"}
         quarantined == attempts \ confirmed
     IN \E unwritten \in SUBSET (loaded \ quarantined), stuck \in SUBSET (loaded \cap attempts) :
          LET hidden == quarantined \cup stuck \cup (unwritten \cap attempts)
          IN /\ listed' = [s \in Sessions |-> IF s \notin loaded THEN "absent"
                                              ELSE IF s \in hidden THEN "creating" ELSE "visible"]
             /\ state' = [s \in Sessions |-> IF s \in loaded \ quarantined THEN "ended" ELSE meta[s]]
             /\ meta' = [s \in Sessions |-> IF s \in loaded \ (quarantined \cup unwritten)
                                            THEN "ended" ELSE meta[s]]
             /\ attempts' = attempts \ (loaded \ hidden)
             /\ alloc' = [s \in Sessions |-> IF s \in loaded \ hidden THEN "none" ELSE alloc[s]]
  /\ UNCHANGED <<reqVars, hostVars, crashes, todo, confirmed, outside, input, pc, out>>

Next ==
  \/ \E s \in Sessions : CreateStep(s) \/ HostStep(s) \/ End(s) \/ AskHost(s) \/ NoAnswer(s)
  \/ Crash \/ Recover \/ Rehydrate

Spec == Init /\ [][Next]_vars

\* A create runs to its end unless the server dies: its disk writes and its
\* timers complete.  Nothing is asked of the host.
FairSpec == Spec /\ \A s \in Sessions : WF_vars(CreateStep(s))

Steps == {"idle", "record", "prepare", "preparing", "adapter", "store", "init", "commit",
          "committing", "publish", "cleanup", "unwind", "returned"}
Lines == [id : Reqs, state : {"approved", "consumed"}, session : Sessions \cup {NoSession}]
TypeOK ==
  /\ outside \in BOOLEAN /\ up \in {"up", "down", "booting"} /\ crashes \in Nat
  /\ input \in Inputs
  /\ pc \in [Sessions -> Steps]
  /\ out \in [Sessions -> {"none", "ok", "error", "unknown", "rejected"}]
  /\ alloc \in [Sessions -> {"none", "pending", "live"}]
  /\ meta \in [Sessions -> {"none", "live", "ended"}]
  /\ listed \in [Sessions -> {"absent", "creating", "visible"}]
  /\ state \in [Sessions -> {"none", "live", "ended"}]
  /\ host \in [Sessions -> {"new", "prepared", "committing", "committed", "aborted"}]
  /\ {attempts, claimed, asked, preparing, todo, confirmed} \subseteq SUBSET Sessions
  /\ reserved \subseteq Reqs
  /\ reqLog \in [lines : Seq(Lines), torn : BOOLEAN]
  /\ reqAppends \subseteq [op : {"attach"}, line : Lines]

\* I15 and D24: a session that can run a turn shares no directory, and nests
\* in none, with another that is live, be it published, still being created or
\* held undecided since before a restart (allocator.ts:32, core:640).
OneLivePerWorkspace ==
  \A s, t \in Sessions :
    s # t /\ listed[s] = "visible" /\ listed[t] # "absent"
      /\ state[s] = "live" /\ state[t] = "live"
    => ~PathsOverlap(cwd[s], cwd[t])

\* I33 and A5: creation is paid for exactly.  A session a caller can see has no
\* attempt record left, and the requisition it was created for names it and so
\* no other session; and no consumed requisition names a session whose files an
\* unwind deleted, whatever was lost, timed out or restarted on the way
\* (core:957-966, core:644-652, core:733-745, records/index.ts:159).
PublishedIsPaid ==
  /\ \A s \in Sessions :
       listed[s] = "visible" =>
         /\ s \notin attempts
         /\ (req[s] # NoReq /\ req[s] \notin reqGlued) =>
              /\ req[s] \in Ids(reqLog)
              /\ Latest(reqLog, req[s]).session = s
  /\ \A r \in Ids(reqLog) :
       LET s == Latest(reqLog, r).session IN s # NoSession => meta[s] # "none"

\* S13.9: a create that answered with an error, its prepare timed out or its
\* unwind cut short, holds no claim on its requisition (core:862,
\* create-attempts.ts:45, create-attempts.ts:100).  One that rejected, its abort
\* unanswered, may hold it still; then what boot asks the host with is kept, and
\* nobody gets the directory (core:879-895, core:931-935).
RefusedHoldsNoClaim ==
  \A s \in claimed :
    /\ out[s] # "error"
    /\ out[s] = "rejected" => s \in attempts /\ (up # "down" => alloc[s] # "none")

\* Refuted: a creation that fails has released its claim when the caller learns
\* of it (the comment at core:888).
FailureReleasesClaim == \A s \in claimed : out[s] \notin {"error", "rejected"}

\* A create that got as far as its record returns or rejects, also when the host
\* never answers, unless the server dies first, which returns nothing (core:851,
\* create-attempts.ts:107).
CreateReturns ==
  \A s \in Sessions : (pc[s] = "record") ~> (pc[s] = "returned")
====
