---- MODULE ServerLock ----
(***************************************************************************)
(* One storage root and the servers that start on it: claimLock, renewLock *)
(* and releaseLock over <storage>/server.lock (store/index.ts), the        *)
(* runtime lease claimed behind it (agent-console/store/lease.ts), and the *)
(* life of a server from boot to the last step of shutdown (server.ts).    *)
(*                                                                         *)
(* A server is one process and one instanceId.  Time is discrete: a wait   *)
(* counts down, and time does not pass while a process that is not held up *)
(* has something to do, so that I/O settles within the instant it is       *)
(* issued in, in any order.                                                *)
(***************************************************************************)
EXTENDS Integers

CONSTANTS
  Servers,
  Former,         \* a server that crashed before any of them started
  Hosts,          \* hostnames: containers of one machine have different ones
  Window,         \* LOCK_OBSERVATION_WINDOW_MS
  Interval,       \* LOCK_RENEWAL_INTERVAL_MS
  DrainTimeout,   \* DRAIN_TIMEOUT_MS
  KillTimeout,    \* KILL_TIMEOUT_MS
  BootTime,       \* the time boot takes behind the claim
  MayBeLate,      \* the servers that may be late
  Renewals        \* bound: renewals are counted up to this, and then from 1 again

ASSUME LockAssumption ==
  /\ Former \notin Servers
  /\ {Window, Interval, DrainTimeout, KillTimeout, BootTime} \subseteq Nat
  /\ MayBeLate \subseteq Servers
  /\ Interval > 0
  /\ Renewals \in Nat \ {0, 1}
  /\ Window < (Renewals - 2) * Interval

VARIABLES
  pc,       \* each server's step
  timer,    \* the time left of the wait it is in
  sample,   \* the lock as it last read it
  held,     \* heldLock is not null
  renewal,  \* the time left until the renewal timer fires
  renewing, \* a renewal in flight: "no", "reading" or "writing"
  unseen,   \* the leases of its enumeration it has not looked at
  lock,     \* <storage>/server.lock
  leases,   \* the servers whose runtime lease is on disk
  host,     \* the hostname each server runs under
  late,     \* the servers whose boot takes as long as it likes, and whose
            \* renewals may fail
  hasty     \* history: a server was told to stop before it had renewed its lock

procVars == <<pc, timer, sample, held, renewal, renewing, unseen>>
envVars == <<host, late, hasty>>
vars == <<procVars, lock, leases, envVars>>

Locks == [owner : Servers \cup {Former}, renewals : 0..(Renewals - 1)]
Absent == [renewals |-> -1]

Claiming == {"linking", "sampling", "observing", "overwriting", "confirming"}
Leasing == {"publishing", "listing", "checking"}
Stopping == {"draining", "killing", "releasing", "removing", "closing"}
PCs == {"down", "gone", "booting", "serving"} \cup Claiming
       \cup Leasing \cup Stopping

Bounds == 0..(Window + Interval + DrainTimeout + KillTimeout + BootTime)

TypeOK ==
  /\ pc \in [Servers -> PCs]
  /\ timer \in [Servers -> Bounds]
  /\ sample \in [Servers -> Locks \cup {Absent}]
  /\ held \in [Servers -> BOOLEAN]
  /\ renewal \in [Servers -> 0..Interval]
  /\ renewing \in [Servers -> {"no", "reading", "writing"}]
  /\ unseen \in [Servers -> SUBSET Servers]
  /\ lock \in Locks \cup {Absent}
  /\ leases \subseteq Servers
  /\ host \in [Servers -> Hosts]
  /\ late \subseteq MayBeLate
  /\ hasty \in BOOLEAN

Init ==
  /\ pc = [p \in Servers |-> "down"]
  /\ timer = [p \in Servers |-> 0]
  /\ sample = [p \in Servers |-> Absent]
  /\ held = [p \in Servers |-> FALSE]
  /\ renewal = [p \in Servers |-> Interval]
  /\ renewing = [p \in Servers |-> "no"]
  /\ unseen = [p \in Servers |-> {}]
  /\ lock \in {Absent, [owner |-> Former, renewals |-> 0]}
  /\ leases = {}
  /\ host \in [Servers -> Hosts]
  /\ late \in SUBSET MayBeLate
  /\ hasty = FALSE

Running(p) == pc[p] \notin {"down", "gone"}
Names(l, p) == l # Absent /\ l.owner = p

Goes(p, step, wait) ==
  /\ pc' = [pc EXCEPT ![p] = step]
  /\ timer' = [timer EXCEPT ![p] = wait]

\* The process ends, with whatever it had in flight.
Exits(p) ==
  /\ Goes(p, "gone", 0)
  /\ sample' = [sample EXCEPT ![p] = Absent]
  /\ held' = [held EXCEPT ![p] = FALSE]
  /\ renewal' = [renewal EXCEPT ![p] = Interval]
  /\ renewing' = [renewing EXCEPT ![p] = "no"]
  /\ unseen' = [unseen EXCEPT ![p] = {}]

otherVars == <<held, renewal, renewing, unseen>>

---------------------------------------------------------------------------
(* claimLock. *)

Start(p) ==
  /\ pc[p] = "down"
  /\ Goes(p, "linking", 0)
  /\ UNCHANGED <<sample, otherVars, lock, leases, envVars>>

\* The lock is this server's: it goes on to the runtime lease.
Claimed(p) ==
  /\ Goes(p, "publishing", 0)
  /\ held' = [held EXCEPT ![p] = TRUE]
  /\ sample' = [sample EXCEPT ![p] = Absent]
  /\ UNCHANGED <<renewal, renewing, unseen, leases, envVars>>

\* tryClaimExclusive: an exclusive create that never overwrites.
Link(p) ==
  /\ pc[p] = "linking"
  /\ IF lock = Absent
     THEN lock' = [owner |-> p, renewals |-> 0] /\ Claimed(p)
     ELSE /\ Goes(p, "sampling", 0)
          /\ UNCHANGED <<sample, otherVars, lock, leases, envVars>>

Retries(p) ==
  /\ Goes(p, "linking", 0)
  /\ sample' = [sample EXCEPT ![p] = Absent]
  /\ UNCHANGED <<otherVars, lock, leases, envVars>>

Refused(p) == Exits(p) /\ UNCHANGED <<lock, leases, envVars>>

FirstSample(p) ==
  /\ pc[p] = "sampling"
  /\ IF lock = Absent THEN Retries(p)
     ELSE /\ Goes(p, "observing", Window)
          /\ sample' = [sample EXCEPT ![p] = lock]
          /\ UNCHANGED <<otherVars, lock, leases, envVars>>

\* A wrong comparison: it looks at the instance alone.
UnchangedVariant(p) == Names(lock, sample[p].owner)

\* The comparison of the two samples: instanceId and renewals.
Unchanged(p) == lock = sample[p]

SecondSample(p) ==
  /\ pc[p] = "observing"
  /\ timer[p] = 0
  /\ CASE lock = Absent -> Retries(p)
       [] lock # Absent /\ Unchanged(p) ->
            Goes(p, "overwriting", 0) /\ UNCHANGED <<sample, otherVars, lock, leases, envVars>>
       [] OTHER -> Refused(p)

\* A reclaim renames over whatever is there by now.
Overwrite(p) ==
  /\ pc[p] = "overwriting"
  /\ lock' = [owner |-> p, renewals |-> 0]
  /\ sample' = [sample EXCEPT ![p] = Absent]
  /\ Goes(p, "confirming", Interval)
  /\ UNCHANGED <<otherVars, leases, envVars>>

Confirm(p) ==
  /\ pc[p] = "confirming"
  /\ timer[p] = 0
  /\ CASE lock = Absent -> Retries(p)
       [] Names(lock, p) -> Claimed(p) /\ UNCHANGED lock
       [] OTHER -> Refused(p)

---------------------------------------------------------------------------
(* The runtime lease: publish, enumerate, look at each. *)

Publish(p) ==
  /\ pc[p] = "publishing"
  /\ leases' = leases \cup {p}
  /\ Goes(p, "listing", 0)
  /\ UNCHANGED <<sample, otherVars, lock, envVars>>

List(p) ==
  /\ pc[p] = "listing"
  /\ unseen' = [unseen EXCEPT ![p] = leases \ {p}]
  /\ Goes(p, "checking", 0)
  /\ UNCHANGED <<sample, held, renewal, renewing, lock, leases, envVars>>

\* A wrong alive: it trusts the lock.
AliveVariant(p, q) == FALSE

\* alive: on this host the process decides; elsewhere the holder's lock
\* generation, which is its own and never the claimant's.
Alive(p, q) == host[q] = host[p] /\ Running(q)

Check(p) ==
  /\ pc[p] = "checking"
  /\ \E q \in unseen[p] :
       IF q \in leases /\ Alive(p, q)
       THEN Exits(p) /\ leases' = leases \ {p} /\ UNCHANGED <<lock, envVars>>
       ELSE /\ unseen' = [unseen EXCEPT ![p] = @ \ {q}]
            /\ UNCHANGED <<pc, timer, sample, held, renewal, renewing, lock, leases, envVars>>

Leased(p) ==
  /\ pc[p] = "checking"
  /\ unseen[p] = {}
  /\ Goes(p, "booting", IF p \in late THEN 0 ELSE BootTime)
  /\ UNCHANGED <<sample, otherVars, lock, leases, envVars>>

---------------------------------------------------------------------------
(* The rest of boot, renewal, and displacement. *)

\* The renewal timer starts here, behind manager.boot and records.boot.  A
\* bind that fails cancels it and releases the lock, and that is all.
Booted(p) ==
  /\ pc[p] = "booting"
  /\ renewal' = [renewal EXCEPT ![p] = Interval]
  /\ \E step \in {"serving", "releasing"} : Goes(p, step, 0)
  /\ UNCHANGED <<sample, held, renewing, unseen, lock, leases, envVars>>

\* The interval fires until step 4, and does nothing once shutdown has begun.
RenewalFires(p) ==
  /\ pc[p] \in {"serving", "draining", "killing"}
  /\ renewal[p] = 0
  /\ renewal' = [renewal EXCEPT ![p] = Interval]
  /\ renewing' = IF pc[p] = "serving" THEN [renewing EXCEPT ![p] = "reading"]
                 ELSE renewing
  /\ UNCHANGED <<pc, timer, sample, held, unseen, lock, leases, envVars>>

Shutdown(p) == Goes(p, "draining", DrainTimeout)

\* renewLock's ownership check.
StillOurs(p) == held[p] /\ Names(lock, p)

\* A wrong renewal: it takes a displacement for a failure, and goes on.
RenewReadsVariant(p) ==
  /\ renewing[p] = "reading"
  /\ renewing' = [renewing EXCEPT ![p] = IF StillOurs(p) THEN "writing" ELSE "no"]
  /\ sample' = IF StillOurs(p) THEN [sample EXCEPT ![p] = lock] ELSE sample
  /\ UNCHANGED <<pc, timer, held, renewal, unseen, lock, leases, envVars>>

\* A displaced server shuts down; one that is shutting down exits at once.
RenewReads(p) ==
  /\ renewing[p] = "reading"
  /\ IF StillOurs(p)
     THEN /\ renewing' = [renewing EXCEPT ![p] = "writing"]
          /\ sample' = [sample EXCEPT ![p] = lock]
          /\ UNCHANGED <<pc, timer, held, renewal, unseen>>
     ELSE IF pc[p] \in Stopping THEN Exits(p)
     ELSE /\ renewing' = [renewing EXCEPT ![p] = "no"]
          /\ held' = [held EXCEPT ![p] = FALSE]
          /\ Shutdown(p)
          /\ UNCHANGED <<sample, renewal, unseen>>
  /\ UNCHANGED <<lock, leases, envVars>>

Renewed(l) == IF l.renewals = Renewals - 1 THEN 1 ELSE l.renewals + 1

RenewWrites(p) ==
  /\ renewing[p] = "writing"
  /\ renewing' = [renewing EXCEPT ![p] = "no"]
  /\ \/ /\ lock' = [owner |-> p, renewals |-> Renewed(sample[p])]
        /\ held' = [held EXCEPT ![p] = TRUE]
     \/ p \in late /\ UNCHANGED <<lock, held>>      \* StoreError.io: it will retry
  /\ sample' = [sample EXCEPT ![p] = Absent]
  /\ UNCHANGED <<pc, timer, renewal, unseen, leases, envVars>>

---------------------------------------------------------------------------
(* Shutdown. *)

Signal(p) ==
  /\ pc[p] = "serving"
  /\ Shutdown(p)
  /\ hasty' = (hasty \/ (Names(lock, p) /\ lock.renewals = 0))
  /\ UNCHANGED <<sample, otherVars, lock, leases, host, late>>

Drained(p) ==
  /\ pc[p] = "draining"
  /\ Goes(p, "killing", KillTimeout)
  /\ UNCHANGED <<sample, otherVars, lock, leases, envVars>>

Killed(p) ==
  /\ pc[p] = "killing"
  /\ Goes(p, "releasing", 0)
  /\ UNCHANGED <<sample, otherVars, lock, leases, envVars>>

ReleaseReads(p) ==
  /\ pc[p] = "releasing"
  /\ Goes(p, IF held[p] /\ Names(lock, p) THEN "removing" ELSE "closing", 0)
  /\ held' = [held EXCEPT ![p] = @ /\ Names(lock, p)]
  /\ UNCHANGED <<sample, renewal, renewing, unseen, lock, leases, envVars>>

ReleaseRemoves(p) ==
  /\ pc[p] = "removing"
  /\ lock' = Absent
  /\ held' = [held EXCEPT ![p] = FALSE]
  /\ Goes(p, "closing", 0)
  /\ UNCHANGED <<sample, renewal, renewing, unseen, leases, envVars>>

\* The release failed, or did not settle within its bound.
ReleaseGivenUp(p) ==
  /\ pc[p] \in {"releasing", "removing"}
  /\ Goes(p, "closing", 0)
  /\ UNCHANGED <<sample, otherVars, lock, leases, envVars>>

\* store.close removes the runtime lease, or fails to, or is not reached.
Close(p) ==
  /\ pc[p] = "closing"
  /\ leases' \in {leases, leases \ {p}}
  /\ Exits(p)
  /\ UNCHANGED <<lock, envVars>>

\* A crash, a second signal, or a start that fails on an error.
Crash(p) ==
  /\ Running(p)
  /\ Exits(p)
  /\ UNCHANGED <<lock, leases, envVars>>

---------------------------------------------------------------------------
(* Time. *)

\* A server that has something to do now.
Due(p) ==
  \/ pc[p] \in {"linking", "sampling", "overwriting", "releasing", "removing",
                "closing"} \cup Leasing
  \/ pc[p] \in {"observing", "confirming", "draining", "killing"} /\ timer[p] = 0
  \/ pc[p] = "booting" /\ timer[p] = 0 /\ p \notin late
  \/ pc[p] \in {"serving", "draining", "killing"} /\ renewal[p] = 0
  \/ renewing[p] # "no"

Less(n) == IF n = 0 THEN 0 ELSE n - 1

Tick ==
  /\ \A p \in Servers : ~Due(p)
  /\ timer' = [p \in Servers |-> Less(timer[p])]
  /\ renewal' = [p \in Servers |->
       IF pc[p] \in {"serving", "draining", "killing"} THEN Less(renewal[p])
       ELSE renewal[p]]
  /\ UNCHANGED <<pc, sample, held, renewing, unseen, lock, leases, envVars>>

Claim(p) == Link(p) \/ FirstSample(p) \/ SecondSample(p) \/ Overwrite(p) \/ Confirm(p)
Lease(p) == Publish(p) \/ List(p) \/ Check(p) \/ Leased(p)
Renew(p) == RenewalFires(p) \/ RenewReads(p) \/ RenewWrites(p)
Stop(p) == Drained(p) \/ Killed(p) \/ ReleaseReads(p) \/ ReleaseRemoves(p)
           \/ ReleaseGivenUp(p) \/ Close(p)

Next ==
  \/ \E p \in Servers : Start(p) \/ Claim(p) \/ Lease(p) \/ Booted(p) \/ Renew(p)
                        \/ Signal(p) \/ Stop(p) \/ Crash(p)
  \/ Tick

Spec == Init /\ [][Next]_vars

\* Time passes, a server does what it has to do, and a boot ends unless it
\* takes as long as it likes.
Fairness ==
  /\ WF_vars(Tick)
  /\ \A p \in Servers :
       /\ WF_vars(Claim(p)) /\ WF_vars(Lease(p)) /\ WF_vars(Renew(p)) /\ WF_vars(Stop(p))
       /\ WF_vars(p \notin late /\ Booted(p))

FairSpec == Spec /\ Fairness

---------------------------------------------------------------------------
(* Properties. *)

\* The server works on the root: it reaps, boots, serves, or still kills.
Holds(p) == pc[p] \in {"booting", "serving", "draining", "killing"}

\* I50, D216: while none is late and none is told to stop before its first
\* renewal, no two servers work on the root together, although the lock may be
\* reclaimed, lost or overwritten under them.
RootExclusive ==
  late = {} /\ ~hasty => \A p, q \in Servers : Holds(p) /\ Holds(q) => p = q

\* I50, D262: on one host the leases alone keep two servers apart, however
\* late a server is and whatever became of the lock.
HostExclusive ==
  \A p, q \in Servers : Holds(p) /\ Holds(q) /\ host[p] = host[q] => p = q

\* I56, I54: a server that serves without its lock finds out, and ends: unless
\* a renewal it had in flight has put its name back.
DisplacedStops ==
  \A p \in Servers :
    (pc[p] = "serving" /\ ~Names(lock, p)) ~> (pc[p] = "gone" \/ Names(lock, p))

\* Refuted: a live holder is never taken for dead, in its boot or while it
\* drains and kills (I50, I56, I62).
OneHolder == \A p, q \in Servers : Holds(p) /\ Holds(q) => p = q

\* Refuted: the lock is written only by the instance that holds it (I56), so
\* that it names the server that works on the root until that server lets go.
HolderNamed == \A p \in Servers : Holds(p) /\ held[p] => Names(lock, p)
====
