---- MODULE ServerLock_proofs ----
(***************************************************************************)
(* Two arguments that have nothing in common.  The runtime lease alone     *)
(* keeps two servers of one host apart, whatever the lock says, however    *)
(* long anything takes and however many servers start: no lemma of the     *)
(* first part looks at a timer, at the lock or at a sample of it.  The     *)
(* lock keeps any two servers of one root apart by time alone, and no      *)
(* lemma of the second part looks at a lease.                              *)
(***************************************************************************)
EXTENDS ServerLock, TLAPS

Holding == {"booting", "serving", "draining", "killing"}
OnDisk == {"listing", "checking", "serving", "booting"} \cup Stopping

LeaseTypes ==
  /\ pc \in [Servers -> PCs]
  /\ renewing \in [Servers -> {"no", "reading", "writing"}]
  /\ unseen \in [Servers -> SUBSET Servers]
  /\ leases \subseteq Servers

\* A renewal is in flight only behind boot.
RenewsServing ==
  \A p \in Servers : renewing[p] # "no" => pc[p] \in {"serving"} \cup Stopping

\* A server that has published is on disk until it closes or exits.
Published == \A p \in Servers : pc[p] \in OnDisk => p \in leases

\* p will not be refused for the lease of q any more.
Cleared(p, q) == pc[p] \in Holding \/ (pc[p] = "checking" /\ q \notin unseen[p])

\* Of two servers one published second, and its enumeration found the first.
Apart ==
  \A p, q \in Servers :
    p # q /\ host[p] = host[q] => ~(Cleared(p, q) /\ Cleared(q, p))

LeaseInv == LeaseTypes /\ RenewsServing /\ Published /\ Apart

---------------------------------------------------------------------------
(* The kinds of step. *)

\* Initially nobody has published.
LEMMA LeaseInit == Init => LeaseInv
BY DEF Init, LeaseInv, LeaseTypes, RenewsServing, Published, Apart, Cleared,
       Holding, OnDisk, Stopping, PCs

\* A step that moves nobody, and begins no renewal behind the service.
LEMMA StaysKeeps ==
  ASSUME LeaseInv, UNCHANGED <<pc, unseen, leases, host>>,
         renewing' \in [Servers -> {"no", "reading", "writing"}],
         \A p \in Servers : renewing'[p] # "no" => renewing[p] # "no" \/ pc[p] = "serving"
  PROVE  LeaseInv'
<1>1. LeaseTypes' /\ RenewsServing' /\ Published'
  BY DEF LeaseInv, LeaseTypes, RenewsServing, Published
<1>2. Apart'
  BY DEF LeaseInv, Apart, Cleared
<1> QED
  BY <1>1, <1>2 DEF LeaseInv

\* A server moves to where it holds nothing, and at most its own lease changes.
LEMMA MovesKeeps ==
  ASSUME LeaseInv, NEW p \in Servers, NEW step \in PCs \ (Holding \cup {"checking"}),
         pc' = [pc EXCEPT ![p] = step], host' = host,
         unseen' \in [Servers -> SUBSET Servers],
         \A q \in Servers \ {p} : unseen'[q] = unseen[q] /\ renewing'[q] = renewing[q],
         renewing' \in [Servers -> {"no", "reading", "writing"}],
         renewing'[p] # "no" => step \in Stopping,
         leases' \subseteq Servers,
         leases \ {p} \subseteq leases',
         step \in OnDisk => p \in leases'
  PROVE  LeaseInv'
<1>1. pc'[p] = step /\ \A q \in Servers \ {p} : pc'[q] = pc[q]
  BY DEF LeaseInv, LeaseTypes
<1>2. LeaseTypes'
  BY DEF LeaseInv, LeaseTypes
<1>3. RenewsServing'
  BY <1>1 DEF LeaseInv, RenewsServing
<1>4. Published'
  BY <1>1 DEF LeaseInv, Published
<1>5. \A q \in Servers : ~Cleared(p, q)'
  BY <1>1 DEF Cleared
<1>6. \A r \in Servers \ {p}, q \in Servers : Cleared(r, q)' <=> Cleared(r, q)
  BY <1>1 DEF Cleared
<1>7. Apart'
  BY <1>5, <1>6 DEF LeaseInv, Apart
<1> QED
  BY <1>2, <1>3, <1>4, <1>7 DEF LeaseInv

\* A server holds the root and goes on to, when it held it already or has
\* nothing left to look at.
LEMMA HoldsKeeps ==
  ASSUME LeaseInv, NEW p \in Servers, NEW step \in Holding,
         pc' = [pc EXCEPT ![p] = step], UNCHANGED <<unseen, leases, host>>,
         pc[p] \in Holding \/ (pc[p] = "checking" /\ unseen[p] = {}),
         renewing' \in [Servers -> {"no", "reading", "writing"}],
         \A q \in Servers \ {p} : renewing'[q] = renewing[q],
         renewing'[p] # "no" => step \in Stopping \cup {"serving"}
  PROVE  LeaseInv'
<1>1. pc'[p] = step /\ \A q \in Servers \ {p} : pc'[q] = pc[q]
  BY DEF LeaseInv, LeaseTypes
<1>2. LeaseTypes'
  BY DEF LeaseInv, LeaseTypes, Holding, PCs, Stopping
<1>3. RenewsServing'
  BY <1>1 DEF LeaseInv, RenewsServing
<1>4. Published'
  BY <1>1 DEF LeaseInv, Published, Holding, OnDisk, Stopping
<1>5. \A r, q \in Servers : Cleared(r, q)' => Cleared(r, q)
  BY <1>1 DEF Cleared
<1>6. Apart'
  BY <1>5 DEF LeaseInv, Apart
<1> QED
  BY <1>2, <1>3, <1>4, <1>6 DEF LeaseInv

\* A process that ends is none of these any more.
LEMMA ExitsKeeps ==
  ASSUME LeaseInv, NEW p \in Servers, Exits(p), host' = host,
         leases' \in {leases, leases \ {p}}
  PROVE  LeaseInv'
<1>1. /\ pc' = [pc EXCEPT ![p] = "gone"]
      /\ renewing' = [renewing EXCEPT ![p] = "no"]
      /\ unseen' = [unseen EXCEPT ![p] = {}]
  BY DEF Exits, Goes
<1>2. /\ unseen' \in [Servers -> SUBSET Servers]
      /\ renewing' \in [Servers -> {"no", "reading", "writing"}]
      /\ \A q \in Servers \ {p} : unseen'[q] = unseen[q] /\ renewing'[q] = renewing[q]
      /\ renewing'[p] = "no"
      /\ leases' \subseteq Servers
  BY <1>1 DEF LeaseInv, LeaseTypes
<1>3. "gone" \in PCs \ (Holding \cup {"checking"}) /\ "gone" \notin OnDisk
  BY DEF PCs, Holding, OnDisk, Stopping
<1> QED
  BY <1>1, <1>2, <1>3, MovesKeeps

---------------------------------------------------------------------------
(* The lease. *)

\* The enumeration finds every lease published before it.
LEMMA ListKeeps ==
  ASSUME LeaseInv, NEW p \in Servers, List(p)
  PROVE  LeaseInv'
<1>1. /\ pc[p] = "listing" /\ pc' = [pc EXCEPT ![p] = "checking"]
      /\ unseen' = [unseen EXCEPT ![p] = leases \ {p}]
      /\ leases' = leases /\ host' = host /\ renewing' = renewing
  BY DEF List, Goes, envVars
<1>2. /\ pc'[p] = "checking" /\ unseen'[p] = leases \ {p}
      /\ \A q \in Servers \ {p} : pc'[q] = pc[q] /\ unseen'[q] = unseen[q]
  BY <1>1 DEF LeaseInv, LeaseTypes
<1>3. LeaseTypes'
  BY <1>1 DEF LeaseInv, LeaseTypes, PCs, Leasing
<1>4. RenewsServing'
  BY <1>1, <1>2 DEF LeaseInv, RenewsServing, Stopping
<1>5. Published'
  BY <1>1, <1>2 DEF LeaseInv, Published, OnDisk
<1>6. Apart'
  <2> SUFFICES ASSUME NEW r \in Servers, NEW q \in Servers, r # q, host[r] = host[q],
                      Cleared(r, q)', Cleared(q, r)'
               PROVE  FALSE
    BY <1>1 DEF Apart
  <2>1. \A s, t \in Servers : s # p => (Cleared(s, t)' => Cleared(s, t))
    BY <1>2 DEF Cleared
  <2>2. \A t \in Servers : t # p /\ Cleared(p, t)' => t \notin leases
    BY <1>2 DEF Cleared, Holding
  <2>3. \A s, t \in Servers : Cleared(s, t) => s \in leases
    BY DEF LeaseInv, Published, Cleared, Holding, OnDisk, Stopping
  <2>4. CASE r # p /\ q # p
    BY <2>1, <2>4 DEF LeaseInv, Apart
  <2>5. CASE r = p \/ q = p
    BY <2>1, <2>2, <2>3, <2>5
  <2> QED
    BY <2>4, <2>5
<1> QED
  BY <1>3, <1>4, <1>5, <1>6 DEF LeaseInv

\* A lease is passed over when it is gone or its process is not alive: on one
\* host such a server holds nothing, and never will without a new enumeration.
LEMMA CheckKeeps ==
  ASSUME LeaseInv, NEW p \in Servers, Check(p)
  PROVE  LeaseInv'
<1>1. CASE Exits(p) /\ leases' = leases \ {p} /\ host' = host
  BY <1>1, ExitsKeeps
<1>2. ASSUME NEW q \in unseen[p], ~(q \in leases /\ Alive(p, q)),
             unseen' = [unseen EXCEPT ![p] = @ \ {q}],
             UNCHANGED <<pc, renewing, leases, host>>
      PROVE  LeaseInv'
  <2>1. /\ pc[p] = "checking" /\ q \in Servers
        /\ unseen'[p] = unseen[p] \ {q}
        /\ \A r \in Servers \ {p} : unseen'[r] = unseen[r]
    BY <1>2 DEF Check, LeaseInv, LeaseTypes
  <2>2. LeaseTypes' /\ RenewsServing' /\ Published'
    BY <1>2 DEF LeaseInv, LeaseTypes, RenewsServing, Published
  <2>3. host[q] = host[p] => \A r \in Servers : ~Cleared(q, r)
    BY <1>2, <2>1 DEF LeaseInv, Published, Cleared, Holding, OnDisk, Stopping, Alive, Running
  <2>4. \A r, s \in Servers : Cleared(r, s)' => Cleared(r, s) \/ (r = p /\ s = q)
    BY <1>2, <2>1 DEF Cleared
  <2>5. \A r, s \in Servers : r # p => (Cleared(r, s)' <=> Cleared(r, s))
    BY <1>2, <2>1 DEF Cleared
  <2>6. Apart'
    BY <1>2, <2>1, <2>3, <2>4, <2>5 DEF LeaseInv, Apart
  <2> QED
    BY <2>2, <2>6 DEF LeaseInv
<1> QED
  BY <1>1, <1>2 DEF Check, envVars

\* The lease: it is published, enumerated, looked through, and held.
LEMMA LeaseKeeps ==
  ASSUME LeaseInv, NEW p \in Servers, Lease(p)
  PROVE  LeaseInv'
<1>1. CASE Publish(p)
  <2>1. /\ pc' = [pc EXCEPT ![p] = "listing"] /\ leases' = leases \cup {p}
        /\ UNCHANGED <<unseen, renewing, host>> /\ pc[p] = "publishing"
    BY <1>1 DEF Publish, Goes, otherVars, envVars
  <2>2. "listing" \in PCs \ (Holding \cup {"checking"})
    BY DEF PCs, Holding, Leasing
  <2>3. renewing[p] = "no"
    BY <2>1 DEF LeaseInv, RenewsServing, Stopping
  <2> QED
    BY <2>1, <2>2, <2>3, MovesKeeps DEF LeaseInv, LeaseTypes
<1>2. CASE Leased(p)
  <2>1. /\ pc' = [pc EXCEPT ![p] = "booting"] /\ pc[p] = "checking" /\ unseen[p] = {}
        /\ UNCHANGED <<unseen, leases, renewing, host>>
    BY <1>2 DEF Leased, Goes, otherVars, envVars
  <2>2. renewing[p] = "no" /\ "booting" \in Holding
    BY <2>1 DEF LeaseInv, RenewsServing, Stopping, Holding
  <2> QED
    BY <2>1, <2>2, HoldsKeeps DEF LeaseInv, LeaseTypes
<1> QED
  BY <1>1, <1>2, ListKeeps, CheckKeeps DEF Lease

---------------------------------------------------------------------------
(* The rest of a server's life. *)

\* Before the lease, and when it starts, a server holds nothing.
LEMMA ClaimKeeps ==
  ASSUME LeaseInv, NEW p \in Servers, Start(p) \/ Claim(p)
  PROVE  LeaseInv'
<1>1. CASE Refused(p)
  BY <1>1, ExitsKeeps DEF Refused, envVars
<1>2. ASSUME NEW step \in {"linking", "sampling", "observing", "overwriting",
                          "confirming", "publishing"},
             pc' = [pc EXCEPT ![p] = step],
             UNCHANGED <<unseen, renewing, leases, host>>,
             pc[p] \in {"down"} \cup Claiming
      PROVE  LeaseInv'
  <2>1. step \in PCs \ (Holding \cup {"checking"}) /\ step \notin OnDisk
    BY DEF PCs, Holding, Claiming, Leasing, OnDisk, Stopping
  <2>2. renewing[p] = "no"
    BY <1>2 DEF LeaseInv, RenewsServing, Stopping, Claiming
  <2> QED
    BY <1>2, <2>1, <2>2, MovesKeeps DEF LeaseInv, LeaseTypes
<1>3. CASE Start(p)
  BY <1>2, <1>3 DEF Start, Goes, otherVars, envVars
<1>4. CASE Link(p)
  BY <1>2, <1>4 DEF Link, Claimed, Goes, otherVars, envVars, Claiming
<1>5. CASE FirstSample(p)
  BY <1>2, <1>5 DEF FirstSample, Retries, Goes, otherVars, envVars, Claiming
<1>6. CASE SecondSample(p)
  BY <1>1, <1>2, <1>6 DEF SecondSample, Retries, Goes, otherVars, envVars, Claiming
<1>7. CASE Overwrite(p)
  BY <1>2, <1>7 DEF Overwrite, Goes, otherVars, envVars, Claiming
<1>8. CASE Confirm(p)
  BY <1>1, <1>2, <1>8 DEF Confirm, Retries, Claimed, Goes, otherVars, envVars, Claiming
<1> QED
  BY <1>3, <1>4, <1>5, <1>6, <1>7, <1>8 DEF Claim

\* Boot ends in service, or in the release behind a failed bind.
LEMMA BootedKeeps ==
  ASSUME LeaseInv, NEW p \in Servers, Booted(p)
  PROVE  LeaseInv'
<1>1. PICK step \in {"serving", "releasing"} : pc' = [pc EXCEPT ![p] = step]
  BY DEF Booted, Goes
<1>2. pc[p] = "booting" /\ UNCHANGED <<unseen, renewing, leases, host>>
  BY DEF Booted, envVars
<1>3. renewing[p] = "no" /\ p \in leases
  BY <1>2 DEF LeaseInv, RenewsServing, Stopping, Published, OnDisk
<1>4. CASE step = "serving"
  BY <1>1, <1>2, <1>3, <1>4, HoldsKeeps DEF LeaseInv, LeaseTypes, Holding
<1>5. CASE step = "releasing"
  <2>1. step \in PCs \ (Holding \cup {"checking"})
    BY <1>5 DEF PCs, Holding, Stopping
  <2> QED
    BY <1>1, <1>2, <1>3, <2>1, MovesKeeps DEF LeaseInv, LeaseTypes
<1> QED
  BY <1>1, <1>4, <1>5

\* A renewal moves a server at most from service to its shutdown, or out.
LEMMA RenewKeeps ==
  ASSUME LeaseInv, NEW p \in Servers, Renew(p)
  PROVE  LeaseInv'
<1>1. CASE RenewalFires(p)
  <2>1. UNCHANGED <<pc, unseen, leases, host>>
    BY <1>1 DEF RenewalFires, envVars
  <2>2. /\ renewing' \in [Servers -> {"no", "reading", "writing"}]
        /\ \A q \in Servers : renewing'[q] # "no" => renewing[q] # "no" \/ pc[q] = "serving"
    BY <1>1 DEF RenewalFires, LeaseInv, LeaseTypes
  <2> QED
    BY <2>1, <2>2, StaysKeeps
<1>2. CASE RenewWrites(p)
  <2>1. UNCHANGED <<pc, unseen, leases, host>>
    BY <1>2 DEF RenewWrites, envVars
  <2>2. /\ renewing' \in [Servers -> {"no", "reading", "writing"}]
        /\ \A q \in Servers : renewing'[q] # "no" => renewing[q] # "no"
    BY <1>2 DEF RenewWrites, LeaseInv, LeaseTypes
  <2> QED
    BY <2>1, <2>2, StaysKeeps
<1>3. CASE RenewReads(p)
  <2>1. renewing[p] = "reading" /\ leases' = leases /\ host' = host
    BY <1>3 DEF RenewReads, envVars
  <2>2. pc[p] \in {"serving"} \cup Stopping
    BY <2>1 DEF LeaseInv, RenewsServing
  <2>3. CASE StillOurs(p)
    <3>1. UNCHANGED <<pc, unseen>> /\ renewing' = [renewing EXCEPT ![p] = "writing"]
      BY <1>3, <2>3 DEF RenewReads
    <3>2. /\ renewing' \in [Servers -> {"no", "reading", "writing"}]
          /\ \A q \in Servers : renewing'[q] # "no" => renewing[q] # "no"
      BY <2>1, <3>1 DEF LeaseInv, LeaseTypes
    <3> QED
      BY <2>1, <3>1, <3>2, StaysKeeps
  <2>4. CASE ~StillOurs(p) /\ pc[p] \in Stopping
    BY <1>3, <2>1, <2>4, ExitsKeeps DEF RenewReads
  <2>5. CASE ~StillOurs(p) /\ pc[p] \notin Stopping
    <3>1. /\ pc' = [pc EXCEPT ![p] = "draining"] /\ unseen' = unseen
          /\ renewing' = [renewing EXCEPT ![p] = "no"]
      BY <1>3, <2>5 DEF RenewReads, Shutdown, Goes
    <3>2. /\ renewing' \in [Servers -> {"no", "reading", "writing"}]
          /\ renewing'[p] = "no"
          /\ \A q \in Servers \ {p} : renewing'[q] = renewing[q]
      BY <3>1 DEF LeaseInv, LeaseTypes
    <3>3. pc[p] \in Holding /\ "draining" \in Holding
      BY <2>2, <2>5 DEF Holding
    <3> QED
      BY <2>1, <3>1, <3>2, <3>3, HoldsKeeps
  <2> QED
    BY <2>3, <2>4, <2>5
<1> QED
  BY <1>1, <1>2, <1>3 DEF Renew

\* Shutdown, step by step: the lease goes only when the server does.
LEMMA StopKeeps ==
  ASSUME LeaseInv, NEW p \in Servers, Signal(p) \/ Stop(p)
  PROVE  LeaseInv'
<1>1. ASSUME NEW step \in {"draining", "killing"}, pc[p] \in {"serving", "draining"},
             pc' = [pc EXCEPT ![p] = step],
             UNCHANGED <<unseen, renewing, leases, host>>
      PROVE  LeaseInv'
  <2>1. pc[p] \in Holding /\ step \in Holding /\ step \in Stopping
    BY <1>1 DEF Holding, Stopping
  <2> QED
    BY <1>1, <2>1, HoldsKeeps DEF LeaseInv, LeaseTypes
<1>2. ASSUME NEW step \in {"releasing", "removing", "closing"}, pc[p] \in Stopping,
             pc' = [pc EXCEPT ![p] = step],
             UNCHANGED <<unseen, renewing, leases, host>>
      PROVE  LeaseInv'
  <2>1. step \in PCs \ (Holding \cup {"checking"}) /\ step \in Stopping
    BY DEF PCs, Holding, Stopping
  <2>2. p \in leases
    BY <1>2 DEF LeaseInv, Published, OnDisk
  <2> QED
    BY <1>2, <2>1, <2>2, MovesKeeps DEF LeaseInv, LeaseTypes
<1>3. CASE Signal(p) \/ Drained(p)
  BY <1>1, <1>3 DEF Signal, Shutdown, Drained, Goes, otherVars, envVars
<1>4. CASE Killed(p) \/ ReleaseGivenUp(p)
  BY <1>2, <1>4 DEF Killed, ReleaseGivenUp, Goes, otherVars, envVars, Stopping
<1>5. CASE ReleaseReads(p) \/ ReleaseRemoves(p)
  BY <1>2, <1>5 DEF ReleaseReads, ReleaseRemoves, Goes, envVars, Stopping
<1>6. CASE Close(p)
  BY <1>6, ExitsKeeps DEF Close, envVars
<1> QED
  BY <1>3, <1>4, <1>5, <1>6 DEF Stop

---------------------------------------------------------------------------
(* The theorems. *)

\* LeaseInv is inductive.
THEOREM LeaseInvariant == Spec => []LeaseInv
<1>1. LeaseInv /\ [Next]_vars => LeaseInv'
  <2> SUFFICES ASSUME LeaseInv, [Next]_vars PROVE LeaseInv'
    OBVIOUS
  <2>1. ASSUME NEW p \in Servers,
               Start(p) \/ Claim(p) \/ Lease(p) \/ Booted(p) \/ Renew(p)
                 \/ Signal(p) \/ Stop(p)
        PROVE  LeaseInv'
    BY <2>1, ClaimKeeps, LeaseKeeps, BootedKeeps, RenewKeeps, StopKeeps
  <2>2. ASSUME NEW p \in Servers, Crash(p) PROVE LeaseInv'
    BY <2>2, ExitsKeeps DEF Crash, envVars
  <2>3. CASE Tick \/ UNCHANGED vars
    <3>1. UNCHANGED <<pc, unseen, leases, host, renewing>>
      BY <2>3 DEF Tick, vars, procVars, envVars
    <3> QED
      BY <3>1, StaysKeeps DEF LeaseInv, LeaseTypes
  <2> QED
    BY <2>1, <2>2, <2>3 DEF Next
<1> QED
  BY <1>1, LeaseInit, PTL DEF Spec

\* I50, D262: two servers of one host never work on one root together, for
\* every number of servers and every timing, also when the lock was lost,
\* reclaimed under a living holder or overwritten by a late renewal.
THEOREM OneServerPerHost == Spec => []HostExclusive
<1>1. LeaseInv => HostExclusive
  BY DEF LeaseInv, Apart, Cleared, HostExclusive, Holds, Holding
<1> QED
  BY <1>1, LeaseInvariant, PTL
---------------------------------------------------------------------------
(* Types. *)

\* What the assumptions say of the times.
LEMMA Times ==
  /\ Window \in Nat /\ Interval \in Nat /\ DrainTimeout \in Nat /\ KillTimeout \in Nat
  /\ BootTime \in Nat /\ Renewals \in Nat /\ Renewals > 1 /\ Interval > 0
  /\ Window < (Renewals - 2) * Interval
BY LockAssumption

\* No lock is on disk as a lock that is absent.
LEMMA AbsentIsNone == Absent \notin Locks
BY Times DEF Absent, Locks

\* A renewal in flight behind its reading has the lock it read, its own.
WritesOwn ==
  \A p \in Servers : renewing[p] = "writing" => sample[p] \in Locks /\ sample[p].owner = p

TypeInv == TypeOK /\ RenewsServing /\ WritesOwn

\* A lock that a server makes or renews is a lock.
LEMMA NewLocks ==
  ASSUME NEW p \in Servers
  PROVE  /\ [owner |-> p, renewals |-> 0] \in Locks
         /\ \A l \in Locks : [owner |-> p, renewals |-> Renewed(l)] \in Locks
BY Times DEF Locks, Renewed

\* A process that ends keeps the types.
LEMMA ExitsType ==
  ASSUME TypeInv, NEW p \in Servers, Exits(p), lock' = lock, leases' \subseteq Servers,
         UNCHANGED <<host, late>>, hasty' \in BOOLEAN
  PROVE  TypeInv'
<1>1. TypeOK'
  BY Times DEF TypeInv, TypeOK, Exits, Goes, PCs, Bounds
<1>2. RenewsServing' /\ WritesOwn'
  BY DEF TypeInv, TypeOK, RenewsServing, WritesOwn, Exits, Goes
<1> QED
  BY <1>1, <1>2 DEF TypeInv

\* A step of a server that no renewal is in flight in, and that begins none.
LEMMA MovesType ==
  ASSUME TypeInv, NEW p \in Servers, NEW step \in PCs, NEW wait \in Bounds,
         Goes(p, step, wait), renewing[p] = "no", renewing' = renewing,
         NEW x \in Locks \cup {Absent}, sample' = [sample EXCEPT ![p] = x],
         held' \in [Servers -> BOOLEAN], renewal' \in [Servers -> 0..Interval],
         unseen' \in [Servers -> SUBSET Servers], lock' \in Locks \cup {Absent},
         leases' \subseteq Servers, UNCHANGED <<host, late>>, hasty' \in BOOLEAN
  PROVE  TypeInv'
<1>1. TypeOK'
  BY DEF TypeInv, TypeOK, Goes
<1>2. RenewsServing' /\ WritesOwn'
  BY DEF TypeInv, TypeOK, RenewsServing, WritesOwn, Goes
<1> QED
  BY <1>1, <1>2 DEF TypeInv

\* A step that leaves the samples and the renewals alone, from shutdown on or
\* from service.
LEMMA StopsType ==
  ASSUME TypeInv, NEW p \in Servers, NEW step \in Stopping, NEW wait \in Bounds,
         Goes(p, step, wait), UNCHANGED <<renewing, sample, renewal, unseen, leases, host, late>>,
         held' \in [Servers -> BOOLEAN], lock' \in Locks \cup {Absent}, hasty' \in BOOLEAN
  PROVE  TypeInv'
<1>1. TypeOK'
  BY DEF TypeInv, TypeOK, Goes, PCs
<1>2. RenewsServing' /\ WritesOwn'
  BY DEF TypeInv, TypeOK, RenewsServing, WritesOwn, Goes
<1> QED
  BY <1>1, <1>2 DEF TypeInv

\* The waits are within their bounds.
LEMMA Waits == {0, Window, Interval, BootTime, DrainTimeout, KillTimeout} \subseteq Bounds
BY Times DEF Bounds

\* claimLock keeps the types.
LEMMA ClaimType ==
  ASSUME TypeInv, NEW p \in Servers, Start(p) \/ Claim(p)
  PROVE  TypeInv'
<1>1. CASE Refused(p)
  BY <1>1, ExitsType DEF Refused, envVars, TypeInv, TypeOK
<1>2. CASE ~Refused(p)
  <2>1. pc[p] \in {"down"} \cup Claiming
    BY DEF Start, Claim, Link, FirstSample, SecondSample, Overwrite, Confirm, Claiming
  <2>2. renewing[p] = "no"
    BY <2>1 DEF TypeInv, TypeOK, RenewsServing, Claiming, Stopping
  <2>3. PICK step \in Claiming \cup {"publishing"}, wait \in Bounds : Goes(p, step, wait)
    BY <1>2, Waits DEF Start, Claim, Link, FirstSample, SecondSample, Overwrite, Confirm,
       Claimed, Retries, Claiming
  <2>4. step \in PCs
    BY DEF PCs, Claiming, Leasing
  <2>5. /\ renewing' = renewing /\ renewal' = renewal /\ unseen' = unseen
        /\ leases' = leases /\ UNCHANGED <<host, late, hasty>>
    BY <1>2 DEF Start, Claim, Link, FirstSample, SecondSample, Overwrite, Confirm,
       Claimed, Retries, otherVars, envVars
  <2>6. held' \in {held, [held EXCEPT ![p] = TRUE]}
    BY <1>2 DEF Start, Claim, Link, FirstSample, SecondSample, Overwrite, Confirm,
       Claimed, Retries, otherVars, envVars
  <2>7. sample' \in {sample, [sample EXCEPT ![p] = lock], [sample EXCEPT ![p] = Absent]}
    BY <1>2 DEF Start, Claim, Link, FirstSample, SecondSample, Overwrite, Confirm,
       Claimed, Retries, otherVars, envVars
  <2>8. PICK x \in Locks \cup {Absent} : sample' = [sample EXCEPT ![p] = x]
    <3>1. sample = [sample EXCEPT ![p] = sample[p]] /\ sample[p] \in Locks \cup {Absent}
      BY DEF TypeInv, TypeOK
    <3> QED
      BY <2>7, <3>1 DEF TypeInv, TypeOK
  <2>9. lock' \in {lock, [owner |-> p, renewals |-> 0]}
    BY <1>2 DEF Start, Claim, Link, FirstSample, SecondSample, Overwrite, Confirm,
       Claimed, Retries, envVars
  <2>10. lock' \in Locks \cup {Absent} /\ held' \in [Servers -> BOOLEAN]
    BY <2>6, <2>9, NewLocks DEF TypeInv, TypeOK
  <2> QED
    BY <2>2, <2>3, <2>4, <2>5, <2>8, <2>10, MovesType DEF TypeInv, TypeOK
<1> QED
  BY <1>1, <1>2

\* The runtime lease, and the end of boot.
LEMMA LeaseType ==
  ASSUME TypeInv, NEW p \in Servers, Lease(p) \/ Booted(p)
  PROVE  TypeInv'
<1>1. CASE Exits(p)
  BY <1>1, ExitsType DEF Lease, Publish, List, Check, Leased, Booted, envVars, TypeInv, TypeOK
<1>2. CASE ~Exits(p)
  <2>1. pc[p] \in Leasing \cup {"booting"}
    BY DEF Lease, Publish, List, Check, Leased, Booted, Leasing
  <2>2. renewing[p] = "no" /\ renewing' = renewing
    BY <1>2, <2>1 DEF TypeInv, TypeOK, RenewsServing, Leasing, Stopping, Lease, Publish, List,
       Check, Leased, Booted, otherVars
  <2>3. /\ sample' = sample /\ held' = held /\ lock' = lock
        /\ UNCHANGED <<host, late, hasty>> /\ leases' \subseteq Servers
    BY <1>2 DEF Lease, Publish, List, Check, Leased, Booted, otherVars, envVars,
       TypeInv, TypeOK
  <2>4. /\ renewal' \in [Servers -> 0..Interval]
        /\ unseen' \in [Servers -> SUBSET Servers]
    BY <1>2, Times DEF Lease, Publish, List, Check, Leased, Booted, otherVars, TypeInv, TypeOK
  <2>5. \E step \in PCs, wait \in Bounds : Goes(p, step, wait)
    <3>1. CASE Check(p)
      <4>1. pc' = pc /\ timer' = timer
        BY <1>2, <3>1 DEF Check
      <4>2. Goes(p, pc[p], timer[p]) /\ pc[p] \in PCs /\ timer[p] \in Bounds
        BY <4>1 DEF Goes, TypeInv, TypeOK
      <4> QED
        BY <4>2
    <3>2. CASE ~Check(p)
      <4>1. \E step \in {"listing", "checking", "booting", "serving", "releasing"},
              wait \in Bounds : Goes(p, step, wait)
        BY <3>2, Waits DEF Lease, Publish, List, Leased, Booted
      <4> QED
        BY <4>1 DEF PCs, Leasing, Stopping
    <3> QED
      BY <3>1, <3>2
  <2>6. sample' = [sample EXCEPT ![p] = sample[p]] /\ sample[p] \in Locks \cup {Absent}
    BY <2>3 DEF TypeInv, TypeOK
  <2> QED
    BY <2>2, <2>3, <2>4, <2>5, <2>6, MovesType DEF TypeInv, TypeOK
<1> QED
  BY <1>1, <1>2

\* Renewals.
LEMMA RenewType ==
  ASSUME TypeInv, NEW p \in Servers, Renew(p)
  PROVE  TypeInv'
<1>1. CASE RenewalFires(p)
  <2>1. TypeOK'
    BY <1>1, Times DEF RenewalFires, TypeInv, TypeOK, envVars
  <2>2. RenewsServing' /\ WritesOwn'
    BY <1>1 DEF RenewalFires, TypeInv, TypeOK, RenewsServing, WritesOwn
  <2> QED
    BY <2>1, <2>2 DEF TypeInv
<1>2. CASE RenewReads(p)
  <2>1. CASE StillOurs(p)
    <3>1. lock \in Locks /\ lock.owner = p
      BY <2>1 DEF StillOurs, Names, TypeInv, TypeOK
    <3>2. /\ renewing' = [renewing EXCEPT ![p] = "writing"]
          /\ sample' = [sample EXCEPT ![p] = lock]
          /\ UNCHANGED <<pc, timer, held, renewal, unseen, lock, leases, host, late, hasty>>
          /\ renewing[p] = "reading"
      BY <1>2, <2>1 DEF RenewReads, envVars
    <3>3. TypeOK'
      BY <3>1, <3>2 DEF TypeInv, TypeOK
    <3>4. RenewsServing' /\ WritesOwn'
      BY <3>1, <3>2 DEF TypeInv, TypeOK, RenewsServing, WritesOwn
    <3> QED
      BY <3>3, <3>4 DEF TypeInv
  <2>2. CASE ~StillOurs(p) /\ pc[p] \in Stopping
    BY <1>2, <2>2, ExitsType DEF RenewReads, envVars, TypeInv, TypeOK
  <2>3. CASE ~StillOurs(p) /\ pc[p] \notin Stopping
    <3>1. /\ renewing' = [renewing EXCEPT ![p] = "no"]
          /\ held' = [held EXCEPT ![p] = FALSE]
          /\ pc' = [pc EXCEPT ![p] = "draining"] /\ timer' = [timer EXCEPT ![p] = DrainTimeout]
          /\ UNCHANGED <<sample, renewal, unseen, lock, leases, host, late, hasty>>
      BY <1>2, <2>3 DEF RenewReads, Shutdown, Goes, envVars
    <3>2. TypeOK'
      BY <3>1, Waits DEF TypeInv, TypeOK, PCs, Stopping
    <3>3. RenewsServing' /\ WritesOwn'
      BY <3>1 DEF TypeInv, TypeOK, RenewsServing, WritesOwn
    <3> QED
      BY <3>2, <3>3 DEF TypeInv
  <2> QED
    BY <2>1, <2>2, <2>3
<1>3. CASE RenewWrites(p)
  <2>1. sample[p] \in Locks
    BY <1>3 DEF RenewWrites, TypeInv, WritesOwn
  <2>2. lock' \in Locks \cup {Absent} /\ held' \in [Servers -> BOOLEAN]
    <3>1. lock' \in {lock, [owner |-> p, renewals |-> Renewed(sample[p])]}
      BY <1>3 DEF RenewWrites
    <3>2. [owner |-> p, renewals |-> Renewed(sample[p])] \in Locks
      BY <2>1, NewLocks
    <3>3. held' \in {held, [held EXCEPT ![p] = TRUE]}
      BY <1>3 DEF RenewWrites
    <3> QED
      BY <3>1, <3>2, <3>3 DEF TypeInv, TypeOK
  <2>3. TypeOK'
    BY <1>3, <2>2 DEF RenewWrites, TypeInv, TypeOK, envVars
  <2>4. RenewsServing' /\ WritesOwn'
    BY <1>3 DEF RenewWrites, TypeInv, TypeOK, RenewsServing, WritesOwn
  <2> QED
    BY <2>3, <2>4 DEF TypeInv
<1> QED
  BY <1>1, <1>2, <1>3 DEF Renew

\* Shutdown.
LEMMA StopType ==
  ASSUME TypeInv, NEW p \in Servers, Signal(p) \/ Stop(p)
  PROVE  TypeInv'
<1>1. CASE Close(p)
  BY <1>1, ExitsType DEF Close, envVars, TypeInv, TypeOK
<1>2. CASE ~Close(p)
  <2>1. PICK step \in Stopping, wait \in Bounds : Goes(p, step, wait)
    BY <1>2, Waits DEF Signal, Shutdown, Stop, Drained, Killed, ReleaseReads, ReleaseRemoves,
       ReleaseGivenUp, Stopping
  <2>2. UNCHANGED <<renewing, sample, renewal, unseen, leases, host, late>>
    BY <1>2 DEF Signal, Stop, Drained, Killed, ReleaseReads, ReleaseRemoves,
       ReleaseGivenUp, otherVars, envVars
  <2>3. held' \in [Servers -> BOOLEAN] /\ hasty' \in BOOLEAN /\ lock' \in Locks \cup {Absent}
    <3>1. held' \in {held, [held EXCEPT ![p] = FALSE], [held EXCEPT ![p] = @ /\ Names(lock, p)]}
      BY <1>2 DEF Signal, Stop, Drained, Killed, ReleaseReads, ReleaseRemoves,
         ReleaseGivenUp, otherVars
    <3>2. held' \in [Servers -> BOOLEAN]
      BY <3>1 DEF TypeInv, TypeOK
    <3>3. hasty' \in {hasty, hasty \/ (Names(lock, p) /\ lock.renewals = 0)}
      BY <1>2 DEF Signal, Stop, Drained, Killed, ReleaseReads, ReleaseRemoves,
         ReleaseGivenUp, envVars
    <3>4. lock' \in {lock, Absent}
      BY <1>2 DEF Signal, Stop, Drained, Killed, ReleaseReads, ReleaseRemoves, ReleaseGivenUp
    <3> QED
      BY <3>2, <3>3, <3>4 DEF TypeInv, TypeOK
  <2> QED
    BY <2>1, <2>2, <2>3, StopsType
<1> QED
  BY <1>1, <1>2

\* Time.
LEMMA TickType ==
  ASSUME TypeInv, Tick
  PROVE  TypeInv'
<1>1. timer' \in [Servers -> Bounds] /\ renewal' \in [Servers -> 0..Interval]
  BY Times DEF Tick, Less, TypeInv, TypeOK, Bounds
<1>2. TypeOK'
  BY <1>1 DEF Tick, TypeInv, TypeOK, envVars
<1>3. RenewsServing' /\ WritesOwn'
  BY DEF Tick, TypeInv, RenewsServing, WritesOwn
<1> QED
  BY <1>2, <1>3 DEF TypeInv

\* Every step keeps the types.
LEMMA NextTypeInv == TypeInv /\ [Next]_vars => TypeInv'
<1> SUFFICES ASSUME TypeInv, [Next]_vars PROVE TypeInv'
  OBVIOUS
<1>1. ASSUME NEW p \in Servers, Crash(p) PROVE TypeInv'
  BY <1>1, ExitsType DEF Crash, envVars, TypeInv, TypeOK
<1>2. CASE UNCHANGED vars
  <2>1. TypeOK' /\ RenewsServing' /\ WritesOwn'
    BY <1>2 DEF vars, procVars, envVars, TypeInv, TypeOK, RenewsServing, WritesOwn
  <2> QED
    BY <2>1 DEF TypeInv
<1> QED
  BY <1>1, <1>2, ClaimType, LeaseType, RenewType, StopType, TickType DEF Next

\* The types hold initially.
LEMMA InitTypeInv == Init => TypeInv
<1> SUFFICES ASSUME Init PROVE TypeInv
  OBVIOUS
<1>1. [owner |-> Former, renewals |-> 0] \in Locks
  BY Times DEF Locks
<1>2. TypeOK
  <2>1. /\ pc \in [Servers -> PCs] /\ lock \in Locks \cup {Absent}
        /\ sample \in [Servers -> Locks \cup {Absent}]
    BY <1>1 DEF Init, PCs
  <2>2. /\ timer \in [Servers -> Bounds] /\ renewal \in [Servers -> 0..Interval]
    BY Times DEF Init, Bounds
  <2>3. /\ held \in [Servers -> BOOLEAN] /\ hasty \in BOOLEAN
        /\ renewing \in [Servers -> {"no", "reading", "writing"}]
        /\ unseen \in [Servers -> SUBSET Servers] /\ leases \subseteq Servers
        /\ host \in [Servers -> Hosts] /\ late \subseteq MayBeLate
    BY DEF Init
  <2> QED
    BY <2>1, <2>2, <2>3 DEF TypeOK
<1>3. RenewsServing /\ WritesOwn
  BY DEF Init, RenewsServing, WritesOwn
<1> QED
  BY <1>2, <1>3 DEF TypeInv

\* Every variable keeps its type, whatever the constants.
THEOREM TypeCorrect == Spec => []TypeOK
<1>1. TypeInv => TypeOK
  BY DEF TypeInv
<1> QED
  BY <1>1, InitTypeInv, NextTypeInv, PTL DEF Spec
---------------------------------------------------------------------------
(* The lock.  While none is late and none was told to stop before its first *)
(* renewal, whoever watches a lock for the whole window without seeing it   *)
(* change is right to think that nobody works behind it: a server that       *)
(* works has less time left, without renewing, than any claimant has still   *)
(* to watch.                                                                 *)

\* Boot, one interval, the drain and the kill fit into the window, and so do
\* boot and two intervals.  The code's numbers allow for a boot below a second.
Timely ==
  /\ BootTime + Interval + DrainTimeout + KillTimeout < Window
  /\ BootTime + 2 * Interval < Window

\* From its claim to the end of its release.
Works(s) ==
  pc[s] \in Leasing \cup {"booting", "serving", "draining", "killing", "releasing", "removing"}
InFlight(s) == renewing[s] # "no"
Busy(s) == Works(s) \/ InFlight(s)

\* A claimant that has a sample to compare with, or compared it in this instant.
Watching(r) == pc[r] \in {"observing", "overwriting"}

\* The time until its next renewal, while it serves.
Slack(s) == IF InFlight(s) THEN 0 ELSE renewal[s]

\* What a shutdown from service takes: none begins before the first renewal.
Ending(s) == IF Names(lock, s) /\ lock.renewals = 0 THEN 0 ELSE DrainTimeout + KillTimeout

\* How long a server may go on without writing the lock.
Remaining(s) ==
  CASE pc[s] \in Leasing   -> BootTime + Interval + Ending(s)
    [] pc[s] = "booting"  -> timer[s] + Interval + Ending(s)
    [] pc[s] = "serving"  -> Slack(s) + Ending(s)
    [] pc[s] = "draining" -> timer[s] + KillTimeout
    [] pc[s] = "killing"  -> timer[s]
    [] OTHER              -> 0

\* The waits of one server, its renewal and what it has read.
Local(p) ==
  /\ pc[p] = "observing" => timer[p] <= Window
  /\ pc[p] = "overwriting" => timer[p] = 0
  /\ pc[p] = "confirming" => timer[p] <= Interval
  /\ pc[p] = "booting" => timer[p] <= BootTime
  /\ pc[p] = "draining" => timer[p] <= DrainTimeout
  /\ pc[p] = "killing" => timer[p] <= KillTimeout
  /\ InFlight(p) /\ pc[p] \in {"serving", "draining", "killing"} => renewal[p] = Interval
  /\ renewing[p] = "writing" /\ Names(lock, p) => sample[p] = lock
  /\ Watching(p) => sample[p] \in Locks /\ sample[p].owner # p
  /\ pc[p] \in Leasing \cup {"booting", "serving"} => held[p]

\* At most one server works.
Solo == \A p, q \in Servers : Works(p) /\ Works(q) => p = q

\* Behind the lock of a server that works there is its own name, or that of one
\* that finished and whose last renewal came late.
Named ==
  /\ \A s \in Servers : Works(s) =>
       /\ lock # Absent
       /\ \/ lock.owner = s
          \/ lock.owner \in Servers /\ pc[lock.owner] \in {"closing", "gone"}
  /\ \A s \in Servers : Names(lock, s) =>
       Works(s) \/ pc[s] \in {"confirming", "closing", "gone"}

\* Nobody works while a reclaimed lock is being confirmed, ...
Confirming ==
  \A r \in Servers : pc[r] = "confirming" /\ Names(lock, r) => \A s \in Servers : ~Busy(s)

\* ... or is about to be written, by however many at once.
Overwriting ==
  \A r \in Servers : pc[r] = "overwriting" =>
    /\ lock # Absent
    /\ \A s \in Servers : ~Busy(s)
    /\ \A s \in Servers : Names(lock, s) /\ pc[s] = "confirming" => timer[s] = Interval

\* r has a sample of p's lock.  When p lost that lock to another that wrote in
\* the same instant, and starts over, r is done before p can be.
EchoOf(p, r) ==
  /\ pc[p] \notin {"down", "overwriting"}
  /\ pc[p] = "confirming" => Window - timer[r] <= Interval - timer[p]
  /\ pc[p] = "confirming" /\ ~Names(lock, p) => Window - timer[r] = Interval - timer[p]
  /\ pc[p] \in {"linking", "sampling"} => timer[r] = Window - Interval
  /\ pc[p] = "observing" => timer[r] = timer[p] - Interval
  /\ pc[p] \in Claiming \cup Leasing \cup {"booting"} => sample[r].renewals = 0
Echo == \A p, r \in Servers : Watching(r) /\ sample[r].owner = p => EchoOf(p, r)

\* Who works has less time left than a claimant has to watch.
OutlastsOf(r, s) ==
  pc[r] = "observing" /\ sample[r] = lock /\ Busy(s) => Remaining(s) < timer[r]
Outlasts == \A r, s \in Servers : OutlastsOf(r, s)

\* A lock is renewed from service only.
Unrenewed ==
  \A s \in Servers :
    Names(lock, s) /\ pc[s] \in {"confirming", "booting"} \cup Leasing => lock.renewals = 0

\* The renewals that lie between two counts, 1 following Renewals - 1.
Between(a, b) == IF b >= a THEN b - a ELSE b - a + (Renewals - 1)
Latest(s) == IF renewing[s] = "writing" THEN sample[s].renewals ELSE lock.renewals
Renews(s) ==
  \/ pc[s] = "serving" /\ Names(lock, s)
  \/ InFlight(s) /\ (Names(lock, s) \/ renewing[s] = "writing")

\* A count does not come round while a claimant that read it still watches.
CountOf(r, s) ==
  Watching(r) /\ sample[r].owner = s /\ sample[r].renewals # 0 /\ Renews(s) =>
    /\ Latest(s) # 0
    /\ Between(sample[r].renewals, Latest(s)) * Interval <= (Window - timer[r]) + Slack(s)
Counts == \A r, s \in Servers : CountOf(r, s)

Timed ==
  /\ \A p \in Servers : Local(p)
  /\ Solo /\ Named /\ Confirming /\ Overwriting /\ Echo /\ Outlasts /\ Unrenewed /\ Counts

LockInv == TypeInv /\ (late = {} /\ ~hasty => Timed)

\* The step is one server's.
Others(p) ==
  \A q \in Servers \ {p} :
    /\ pc'[q] = pc[q] /\ timer'[q] = timer[q] /\ sample'[q] = sample[q]
    /\ held'[q] = held[q] /\ renewal'[q] = renewal[q] /\ renewing'[q] = renewing[q]

\* Such a step leaves the others as they were, ...
LEMMA OthersStay ==
  ASSUME NEW p \in Servers, Others(p), NEW q \in Servers \ {p}
  PROVE  /\ Works(q)' <=> Works(q)
         /\ InFlight(q)' <=> InFlight(q)
         /\ Busy(q)' <=> Busy(q)
         /\ Watching(q)' <=> Watching(q)
         /\ Slack(q)' = Slack(q)
BY DEF Others, Works, InFlight, Busy, Watching, Slack

\* ... also in what they are to the lock, when it stays.
LEMMA OthersSame ==
  ASSUME NEW p \in Servers, Others(p), lock' = lock, NEW q \in Servers \ {p}
  PROVE  /\ Remaining(q)' = Remaining(q)
         /\ Latest(q)' = Latest(q)
         /\ Renews(q)' <=> Renews(q)
         /\ Local(q) => Local(q)'
<1>1. /\ pc'[q] = pc[q] /\ timer'[q] = timer[q] /\ sample'[q] = sample[q]
      /\ held'[q] = held[q] /\ renewal'[q] = renewal[q] /\ renewing'[q] = renewing[q]
  BY DEF Others
<1>2. Remaining(q)' = Remaining(q)
  BY <1>1 DEF Remaining, Slack, InFlight, Ending, Names
<1>3. Latest(q)' = Latest(q) /\ (Renews(q)' <=> Renews(q))
  BY <1>1 DEF Latest, Renews, InFlight, Names
<1>4. Local(q) => Local(q)'
  BY <1>1 DEF Local, InFlight, Watching, Names
<1> QED
  BY <1>2, <1>3, <1>4

\* A server outside the claim that becomes no busier than it was keeps it all.
LEMMA CalmKeeps ==
  ASSUME TypeInv, TypeInv', Timed, NEW p \in Servers, Others(p), lock' = lock,
         pc'[p] \notin Claiming \cup {"down"},
         Works(p)' => Works(p), Busy(p)' => Busy(p),
         pc[p] \in {"closing", "gone"} => pc'[p] \in {"closing", "gone"},
         pc'[p] \in Leasing \cup {"booting"} => pc[p] \in Leasing \cup {"booting"},
         Busy(p)' => Remaining(p)' <= Remaining(p),
         Renews(p)' => \/ Renews(p) /\ Latest(p)' = Latest(p) /\ Slack(p) <= Slack(p)'
                       \/ pc[p] = "booting",
         Local(p)'
  PROVE  Timed'
<1>1. \A q \in Servers : Local(q)'
  BY OthersSame DEF Timed
<1>2. \A q \in Servers : (Works(q)' => Works(q)) /\ (Busy(q)' => Busy(q))
  BY OthersStay
<1>3. ~Watching(p)' /\ pc'[p] # "confirming"
  BY DEF Watching, Claiming
<1>4. Solo'
  BY <1>2 DEF Timed, Solo
<1>5. Named'
  <2>1. \A q \in Servers : pc[q] \in {"closing", "gone"} => pc'[q] \in {"closing", "gone"}
    BY DEF Others
  <2>2. Works(p)' \/ pc'[p] \in {"closing", "gone"}
    BY DEF Works, TypeInv, TypeOK, PCs, Leasing, Stopping
  <2>3. \A s \in Servers \ {p} : Names(lock, s) => Works(s)' \/ pc'[s] \in {"confirming", "closing", "gone"}
    BY OthersStay DEF Timed, Named, Others
  <2> QED
    BY <1>2, <2>1, <2>2, <2>3 DEF Timed, Named, Names
<1>6. Confirming'
  BY <1>2, <1>3 DEF Timed, Confirming, Others, Names
<1>7. Overwriting'
  <2> SUFFICES ASSUME NEW r \in Servers, pc'[r] = "overwriting"
               PROVE  /\ lock # Absent
                      /\ \A s \in Servers : ~Busy(s)'
                      /\ \A s \in Servers : Names(lock, s) /\ pc'[s] = "confirming" => timer'[s] = Interval
    BY DEF Overwriting, Names
  <2>1. r # p /\ pc[r] = "overwriting"
    BY <1>3 DEF Watching, Others
  <2> QED
    BY <1>2, <1>3, <2>1 DEF Timed, Overwriting, Others
<1>8. Echo'
  <2> SUFFICES ASSUME NEW q \in Servers, NEW r \in Servers, Watching(r)', sample'[r].owner = q
               PROVE  EchoOf(q, r)'
    BY DEF Echo
  <2>1. r # p /\ Watching(r) /\ sample'[r] = sample[r] /\ timer'[r] = timer[r]
    BY <1>3, OthersStay DEF Others
  <2>2. EchoOf(q, r)
    BY <2>1 DEF Timed, Echo
  <2>3. CASE q = p
    BY <2>1, <2>2, <2>3, <1>3 DEF EchoOf, Claiming
  <2>4. CASE q # p
    BY <2>1, <2>2, <2>4 DEF EchoOf, Others, Names
  <2> QED
    BY <2>3, <2>4
<1>9. Outlasts'
  <2> SUFFICES ASSUME NEW r \in Servers, NEW s \in Servers,
                      pc'[r] = "observing", sample'[r] = lock, Busy(s)'
               PROVE  Remaining(s)' < timer'[r]
    BY DEF Outlasts, OutlastsOf
  <2>1. r # p /\ pc[r] = "observing" /\ sample[r] = lock /\ timer'[r] = timer[r]
    BY <1>3 DEF Watching, Others
  <2>2. Remaining(s) < timer[r]
    BY <1>2, <2>1 DEF Timed, Outlasts, OutlastsOf
  <2>3. timer[r] \in Nat /\ Remaining(s) \in Int /\ Remaining(s)' \in Int
    BY Times DEF Remaining, Slack, Ending, TypeInv, TypeOK, Bounds
  <2>4. Remaining(s)' <= Remaining(s)
    BY <2>3, OthersSame
  <2> QED
    BY <2>1, <2>2, <2>3, <2>4
<1>10. Unrenewed'
  BY <1>3 DEF Timed, Unrenewed, Others, Names
<1>11. Counts'
  <2> SUFFICES ASSUME NEW r \in Servers, NEW s \in Servers, Watching(r)', sample'[r].owner = s,
                      sample'[r].renewals # 0, Renews(s)'
               PROVE  /\ Latest(s)' # 0
                      /\ Between(sample'[r].renewals, Latest(s)') * Interval
                           <= (Window - timer'[r]) + Slack(s)'
    BY DEF Counts, CountOf, Between
  <2>1. r # p /\ Watching(r) /\ sample'[r] = sample[r] /\ timer'[r] = timer[r]
    BY <1>3, OthersStay DEF Others
  <2>2. ~(s = p /\ pc[p] = "booting")
    BY <2>1 DEF Timed, Echo, EchoOf
  <2>3. Renews(s) /\ Latest(s)' = Latest(s) /\ Slack(s) <= Slack(s)'
    <3>1. CASE s = p
      BY <2>2, <3>1
    <3>2. CASE s # p
      <4>1. Slack(s) \in Int
        BY Times DEF Slack, TypeInv, TypeOK
      <4> QED
        BY <3>2, <4>1, OthersSame, OthersStay
    <3> QED
      BY <3>1, <3>2
  <2>4. /\ Latest(s) # 0
        /\ Between(sample[r].renewals, Latest(s)) * Interval <= (Window - timer[r]) + Slack(s)
    BY <2>1, <2>3 DEF Timed, Counts, CountOf
  <2>5. /\ timer[r] \in Nat /\ Slack(s) \in Int /\ Slack(s)' \in Int
    BY Times DEF Slack, TypeInv, TypeOK, Bounds
  <2>6. Between(sample[r].renewals, Latest(s)) * Interval \in Int
    <3>1. sample[r].renewals \in Int
      BY <2>1 DEF Timed, Local, Locks
    <3>2. Latest(s) \in Int
      <4>1. renewing[s] # "writing" => lock \in Locks
        BY <2>3, AbsentIsNone DEF Renews, Names, TypeInv, TypeOK
      <4> QED
        BY <4>1 DEF Latest, TypeInv, WritesOwn, Locks
    <3> QED
      BY <3>1, <3>2, Times DEF Between
  <2> QED
    BY <2>1, <2>3, <2>4, <2>5, <2>6, Times
<1> QED
  BY <1>1, <1>4, <1>5, <1>6, <1>7, <1>8, <1>9, <1>10, <1>11 DEF Timed
---------------------------------------------------------------------------
(* The steps that take no lock.                                             *)

\* Times are numbers.
LEMMA Numbers ==
  ASSUME TypeInv, NEW p \in Servers
  PROVE  /\ timer[p] \in Nat /\ renewal[p] \in Nat /\ renewal[p] <= Interval
         /\ Slack(p) \in Nat /\ Ending(p) \in Nat /\ Remaining(p) \in Nat
<1>1. timer[p] \in Nat /\ renewal[p] \in Nat /\ renewal[p] <= Interval
  BY Times DEF TypeInv, TypeOK, Bounds
<1>2. Slack(p) \in Nat /\ Ending(p) \in Nat
  BY <1>1, Times DEF Slack, Ending
<1> QED
  BY <1>1, <1>2, Times DEF Remaining

\* A renewal is in flight from service, or behind it.
LEMMA FlightPlace ==
  ASSUME TypeInv, NEW p \in Servers
  PROVE  /\ InFlight(p) => pc[p] \in {"serving"} \cup Stopping
         /\ pc[p] \in {"down", "gone", "booting"} \cup Claiming \cup Leasing => renewing[p] = "no"
BY DEF TypeInv, RenewsServing, InFlight, Stopping, Claiming, Leasing

\* A process ends.
LEMMA ExitsCalm ==
  ASSUME TypeInv, TypeInv', Timed, NEW p \in Servers, Exits(p), lock' = lock
  PROVE  Timed'
<1>1. pc'[p] = "gone" /\ renewing'[p] = "no" /\ Others(p)
  BY DEF Exits, Goes, Others, TypeInv, TypeOK
<1>2. ~Works(p)' /\ ~Busy(p)' /\ ~Renews(p)' /\ Local(p)'
  BY <1>1 DEF Works, Busy, InFlight, Renews, Local, Leasing, Watching
<1> QED
  BY <1>1, <1>2, CalmKeeps DEF Claiming, Leasing

\* The runtime lease.
LEMMA LeaseCalm ==
  ASSUME TypeInv, TypeInv', Timed, NEW p \in Servers, Lease(p)
  PROVE  Timed'
<1>1. CASE Exits(p)
  BY <1>1, ExitsCalm DEF Lease, Publish, List, Check, Leased, envVars
<1>2. CASE ~Exits(p)
  <2>1. /\ pc[p] \in Leasing /\ UNCHANGED <<sample, held, renewal, renewing, lock>>
    BY <1>2 DEF Lease, Publish, List, Check, Leased, Leasing, otherVars
  <2>2. \/ \E step \in Leasing : \E wait : Goes(p, step, wait)
        \/ Goes(p, "booting", IF p \in late THEN 0 ELSE BootTime)
        \/ UNCHANGED <<pc, timer>>
    BY <1>2 DEF Lease, Publish, List, Check, Leased, Leasing
  <2>3. Others(p)
    BY <2>1, <2>2 DEF Others, Goes, TypeInv, TypeOK
  <2>4. pc'[p] \in Leasing \cup {"booting"} /\ (pc'[p] = "booting" => timer'[p] <= BootTime)
    BY <2>1, <2>2, Times DEF Goes, TypeInv, TypeOK, Leasing
  <2>5. renewing[p] = "no"
    BY <2>1, FlightPlace
  <2>6. Works(p) /\ Busy(p) /\ ~Renews(p)'
    BY <2>1, <2>4, <2>5 DEF Works, Busy, Renews, InFlight, Leasing
  <2>7. Ending(p)' = Ending(p)
    BY <2>1 DEF Ending, Names
  <2>8. Remaining(p)' <= Remaining(p)
    <3>1. timer'[p] \in Nat /\ Ending(p) \in Nat
      BY Numbers DEF TypeInv, TypeOK, Bounds
    <3>2. Remaining(p) = BootTime + Interval + Ending(p)
      BY <2>1 DEF Remaining, Leasing
    <3>3. CASE pc'[p] \in Leasing
      BY <2>7, <3>1, <3>2, <3>3, Times DEF Remaining, Leasing
    <3>4. CASE pc'[p] = "booting"
      BY <2>4, <2>7, <3>1, <3>2, <3>4, Times DEF Remaining, Leasing
    <3> QED
      BY <2>4, <3>3, <3>4
  <2>9. Local(p)'
    BY <2>1, <2>4, <2>5 DEF Local, Timed, InFlight, Watching, Leasing
  <2>10. pc'[p] \notin Claiming \cup {"down"} /\ pc[p] \notin {"closing", "gone"}
    BY <2>1, <2>4 DEF Claiming, Leasing
  <2> QED
    BY <2>1, <2>3, <2>4, <2>6, <2>8, <2>9, <2>10, CalmKeeps
<1> QED
  BY <1>1, <1>2

\* The end of boot: the renewal timer starts, one interval behind.
LEMMA BootedCalm ==
  ASSUME TypeInv, TypeInv', Timed, NEW p \in Servers, Booted(p)
  PROVE  Timed'
<1>1. PICK step \in {"serving", "releasing"} : Goes(p, step, 0)
  BY DEF Booted
<1>2. /\ pc[p] = "booting" /\ renewal' = [renewal EXCEPT ![p] = Interval]
      /\ UNCHANGED <<sample, held, renewing, lock>>
  BY DEF Booted
<1>3. /\ pc'[p] = step /\ renewal'[p] = Interval /\ Others(p)
  BY <1>1, <1>2 DEF Goes, Others, TypeInv, TypeOK
<1>4. renewing[p] = "no" /\ renewing'[p] = "no"
  BY <1>2, FlightPlace
<1>5. Works(p) /\ Busy(p)
  BY <1>2 DEF Works, Busy
<1>6. Ending(p)' = Ending(p)
  BY <1>2 DEF Ending, Names
<1>7. Remaining(p)' <= Remaining(p)
  BY <1>2, <1>3, <1>4, <1>6, Numbers, Times DEF Remaining, Leasing, Slack, InFlight
<1>8. Local(p)'
  BY <1>2, <1>3, <1>4 DEF Local, Timed, InFlight, Watching, Leasing
<1>9. pc'[p] \notin Claiming \cup {"down"} \cup Leasing \cup {"booting"}
  BY <1>3 DEF Claiming, Leasing
<1> QED
  BY <1>2, <1>3, <1>5, <1>7, <1>8, <1>9, CalmKeeps

\* The timer fires, in service to renew and in shutdown for nothing.
LEMMA FiresCalm ==
  ASSUME TypeInv, TypeInv', Timed, NEW p \in Servers, RenewalFires(p)
  PROVE  Timed'
<1>1. /\ pc[p] \in {"serving", "draining", "killing"} /\ renewal[p] = 0
      /\ renewal' = [renewal EXCEPT ![p] = Interval]
      /\ renewing' = IF pc[p] = "serving" THEN [renewing EXCEPT ![p] = "reading"] ELSE renewing
      /\ UNCHANGED <<pc, timer, sample, held, lock>>
  BY DEF RenewalFires
<1>2. ~InFlight(p)
  BY <1>1, Times DEF Timed, Local
<1>3. /\ Others(p) /\ renewal'[p] = Interval
      /\ renewing'[p] = IF pc[p] = "serving" THEN "reading" ELSE "no"
  BY <1>1, <1>2 DEF Others, TypeInv, TypeOK, InFlight
<1>4. Works(p) /\ Busy(p)
  BY <1>1 DEF Works, Busy
<1>5. Ending(p)' = Ending(p)
  BY <1>1 DEF Ending, Names
<1>6. Remaining(p)' <= Remaining(p)
  BY <1>1, <1>2, <1>3, <1>5, Numbers DEF Remaining, Leasing, Slack, InFlight
<1>7. Renews(p)' => Renews(p) /\ Latest(p)' = Latest(p) /\ Slack(p) <= Slack(p)'
  BY <1>1, <1>2, <1>3, Numbers DEF Renews, Latest, Slack, InFlight, Names
<1>8. Local(p)'
  BY <1>1, <1>2, <1>3 DEF Local, Timed, InFlight, Watching, Leasing
<1>9. pc'[p] \notin Claiming \cup {"down"} \cup Leasing \cup {"booting", "closing", "gone"}
  BY <1>1 DEF Claiming, Leasing
<1> QED
  BY <1>1, <1>3, <1>4, <1>6, <1>7, <1>8, <1>9, CalmKeeps

\* A renewal reads the lock: its own, or it lost it.
LEMMA ReadsCalm ==
  ASSUME TypeInv, TypeInv', Timed, NEW p \in Servers, RenewReads(p)
  PROVE  Timed'
<1>1. renewing[p] = "reading" /\ InFlight(p) /\ lock' = lock
  BY DEF RenewReads, InFlight
<1>2. pc[p] \in {"serving"} \cup Stopping /\ Busy(p)
  BY <1>1, FlightPlace DEF Busy
<1>3. CASE StillOurs(p)
  <2>1. /\ renewing' = [renewing EXCEPT ![p] = "writing"]
        /\ sample' = [sample EXCEPT ![p] = lock]
        /\ UNCHANGED <<pc, timer, held, renewal>>
    BY <1>3 DEF RenewReads
  <2>2. Others(p) /\ renewing'[p] = "writing" /\ sample'[p] = lock
    BY <2>1 DEF Others, TypeInv, TypeOK
  <2>3. /\ Works(p)' <=> Works(p)
        /\ Remaining(p)' = Remaining(p)
    BY <1>1, <2>1, <2>2 DEF Works, Remaining, Slack, InFlight, Ending, Names
  <2>4. Renews(p) /\ Latest(p)' = Latest(p) /\ Slack(p)' = Slack(p)
    BY <1>1, <1>3, <2>2 DEF Renews, Latest, Slack, InFlight, StillOurs
  <2>5. Local(p)'
    BY <1>1, <1>2, <2>1, <2>2 DEF Local, Timed, InFlight, Watching, Leasing, Stopping, Names
  <2>6. pc'[p] \notin Claiming \cup {"down"} \cup Leasing \cup {"booting"}
    BY <1>2, <2>1 DEF Claiming, Leasing, Stopping
  <2>7. Remaining(p)' <= Remaining(p) /\ Slack(p) <= Slack(p)'
    BY <2>3, <2>4, Numbers
  <2> QED
    BY <1>1, <1>2, <2>1, <2>2, <2>3, <2>4, <2>5, <2>6, <2>7, CalmKeeps
<1>4. CASE ~StillOurs(p) /\ pc[p] \in Stopping
  BY <1>1, <1>4, ExitsCalm DEF RenewReads
<1>5. CASE ~StillOurs(p) /\ pc[p] \notin Stopping
  <2>1. /\ renewing' = [renewing EXCEPT ![p] = "no"]
        /\ held' = [held EXCEPT ![p] = FALSE]
        /\ Goes(p, "draining", DrainTimeout)
        /\ UNCHANGED <<sample, renewal>>
    BY <1>5 DEF RenewReads, Shutdown
  <2>2. /\ Others(p) /\ renewing'[p] = "no" /\ pc'[p] = "draining" /\ timer'[p] = DrainTimeout
    BY <2>1 DEF Others, Goes, TypeInv, TypeOK
  <2>3. pc[p] = "serving" /\ ~Names(lock, p)
    BY <1>2, <1>5 DEF Timed, Local, StillOurs
  <2>4. Remaining(p)' <= Remaining(p)
    BY <2>2, <2>3, Numbers, Times DEF Remaining, Ending, Leasing
  <2>5. Works(p) /\ ~Renews(p)'
    BY <2>2, <2>3 DEF Works, Renews, InFlight
  <2>6. Local(p)'
    BY <2>2, Times DEF Local, InFlight, Watching, Leasing
  <2>7. pc'[p] \notin Claiming \cup {"down"} \cup Leasing \cup {"booting"}
    BY <2>2 DEF Claiming, Leasing
  <2> QED
    BY <1>1, <1>2, <2>2, <2>3, <2>4, <2>5, <2>6, <2>7, CalmKeeps
<1> QED
  BY <1>3, <1>4, <1>5

\* Shutdown up to the removal of the lock.  None is told to stop before its
\* first renewal, so that what the drain and the kill take was accounted for.
LEMMA StopCalm ==
  ASSUME TypeInv, TypeInv', Timed, ~hasty', NEW p \in Servers,
         \/ Signal(p) \/ Drained(p) \/ Killed(p) \/ ReleaseReads(p) \/ ReleaseGivenUp(p)
  PROVE  Timed'
<1>1. UNCHANGED <<sample, renewal, renewing, lock>>
  BY DEF Signal, Drained, Killed, ReleaseReads, ReleaseGivenUp, otherVars
<1>2. PICK step, wait :
        /\ step \in Stopping
        /\ Goes(p, step, wait)
        /\ pc[p] \in {"serving", "draining", "killing", "releasing", "removing"}
        /\ \/ pc[p] = "serving" /\ step = "draining" /\ wait = DrainTimeout /\ Signal(p)
           \/ pc[p] = "draining" /\ step = "killing" /\ wait = KillTimeout
           \/ step \in {"releasing", "removing", "closing"}
  BY DEF Signal, Shutdown, Drained, Killed, ReleaseReads, ReleaseGivenUp, Stopping
<1>3. pc'[p] = step /\ timer'[p] = wait
  BY <1>2 DEF Goes, TypeInv, TypeOK
<1>4. \A q \in Servers \ {p} : held'[q] = held[q]
  <2>1. held' \in {held, [held EXCEPT ![p] = @ /\ Names(lock, p)]}
    BY DEF Signal, Drained, Killed, ReleaseReads, ReleaseGivenUp, otherVars
  <2> QED
    BY <2>1 DEF TypeInv, TypeOK
<1>5. Others(p)
  BY <1>1, <1>2, <1>4 DEF Others, Goes, TypeInv, TypeOK
<1>6. Works(p) /\ Busy(p)
  BY <1>2 DEF Works, Busy
<1>7. pc[p] = "serving" /\ step = "draining" => Ending(p) = DrainTimeout + KillTimeout
  BY <1>2 DEF Signal, Ending
<1>8. Remaining(p)' <= Remaining(p)
  <2>1. CASE pc[p] = "serving" /\ step = "draining"
    BY <1>2, <1>3, <1>7, <2>1, Numbers, Times DEF Remaining, Leasing
  <2>2. CASE pc[p] = "draining" /\ step = "killing"
    BY <1>2, <1>3, <2>2, Numbers, Times DEF Remaining, Leasing
  <2>3. CASE step \in {"releasing", "removing", "closing"}
    BY <1>3, <2>3, Numbers DEF Remaining, Leasing
  <2> QED
    BY <1>2, <2>1, <2>2, <2>3
<1>9. Renews(p)' => Renews(p) /\ Latest(p)' = Latest(p) /\ Slack(p)' = Slack(p)
  BY <1>1, <1>3, <1>2 DEF Renews, Latest, Slack, InFlight, Names, Stopping
<1>10. Local(p)'
  BY <1>1, <1>2, <1>3, Times DEF Local, Timed, InFlight, Watching, Leasing, Stopping, Names
<1>11. pc'[p] \notin Claiming \cup {"down"} \cup Leasing \cup {"booting"}
  BY <1>2, <1>3 DEF Claiming, Leasing, Stopping
<1>12. Renews(p)' => Slack(p) <= Slack(p)'
  BY <1>9, Numbers
<1> QED
  BY <1>1, <1>2, <1>5, <1>6, <1>8, <1>9, <1>10, <1>11, <1>12, CalmKeeps
---------------------------------------------------------------------------
(* The claim.                                                               *)

\* A claimant goes on to look, to look again or to start over.
LEMMA ClaimantKeeps ==
  ASSUME TypeInv, TypeInv', Timed, NEW p \in Servers, Others(p), lock' = lock,
         pc[p] \in {"down"} \cup Claiming, ~Names(lock, p),
         pc'[p] \in {"linking", "sampling", "observing", "overwriting"},
         renewing'[p] = renewing[p],
         \A r \in Servers \ {p} : Watching(r) /\ sample[r].owner = p => EchoOf(p, r)',
         \A q \in Servers \ {p} : Watching(p)' /\ sample'[p].owner = q => EchoOf(q, p)',
         \A s \in Servers \ {p} :
            pc'[p] = "observing" /\ sample'[p] = lock /\ Busy(s) => Remaining(s) < timer'[p],
         \A s \in Servers \ {p} : CountOf(p, s)',
         pc'[p] = "overwriting" =>
           /\ lock # Absent
           /\ \A s \in Servers : ~Busy(s)
           /\ \A s \in Servers : Names(lock, s) => pc[s] # "confirming",
         Local(p)'
  PROVE  Timed'
<1>1. \A q \in Servers : Local(q)'
  BY OthersSame DEF Timed
<1>2. /\ ~Works(p)' /\ ~Works(p) /\ ~Busy(p)' /\ ~Busy(p) /\ ~Renews(p)'
      /\ pc'[p] # "confirming"
  BY FlightPlace DEF Works, Busy, InFlight, Renews, Claiming, Leasing
<1>3. \A q \in Servers : (Works(q)' <=> Works(q)) /\ (Busy(q)' <=> Busy(q))
  BY <1>2, OthersStay
<1>4. Solo'
  BY <1>3 DEF Timed, Solo
<1>5. Named'
  BY <1>3 DEF Timed, Named, Others, Names, Claiming
<1>6. Confirming'
  BY <1>2, <1>3 DEF Timed, Confirming, Others, Names
<1>7. Overwriting'
  BY <1>2, <1>3 DEF Timed, Overwriting, Others, Names
<1>8. Echo'
  <2> SUFFICES ASSUME NEW q \in Servers, NEW r \in Servers, Watching(r)', sample'[r].owner = q
               PROVE  EchoOf(q, r)'
    BY DEF Echo
  <2>1. CASE r = p
    BY <1>1, <2>1 DEF Local
  <2>2. CASE r # p
    <3>1. Watching(r) /\ sample'[r] = sample[r] /\ timer'[r] = timer[r]
      BY <2>2, OthersStay DEF Others
    <3>2. CASE q = p
      BY <2>2, <3>1, <3>2
    <3>3. CASE q # p
      BY <3>1, <3>3 DEF Timed, Echo, EchoOf, Others, Names
    <3> QED
      BY <3>2, <3>3
  <2> QED
    BY <2>1, <2>2
<1>9. Outlasts'
  <2> SUFFICES ASSUME NEW r \in Servers, NEW s \in Servers,
                      pc'[r] = "observing", sample'[r] = lock, Busy(s)'
               PROVE  Remaining(s)' < timer'[r]
    BY DEF Outlasts, OutlastsOf
  <2>1. s # p /\ Busy(s) /\ Remaining(s)' = Remaining(s)
    BY <1>2, OthersStay, OthersSame
  <2>2. CASE r = p
    BY <2>1, <2>2
  <2>3. CASE r # p
    <3>1. pc[r] = "observing" /\ sample[r] = lock /\ timer'[r] = timer[r]
      BY <2>3 DEF Others
    <3> QED
      BY <2>1, <3>1 DEF Timed, Outlasts, OutlastsOf
  <2> QED
    BY <2>2, <2>3
<1>10. Unrenewed'
  BY <1>2 DEF Timed, Unrenewed, Others, Names, Leasing
<1>11. Counts'
  <2> SUFFICES ASSUME NEW r \in Servers, NEW s \in Servers PROVE CountOf(r, s)'
    BY DEF Counts
  <2>1. CASE s = p
    BY <1>2, <2>1 DEF CountOf
  <2>2. CASE s # p /\ r = p
    BY <2>2
  <2>3. CASE s # p /\ r # p
    <3>1. /\ Watching(r)' <=> Watching(r)
          /\ sample'[r] = sample[r] /\ timer'[r] = timer[r]
      BY <2>3, OthersStay DEF Others
    <3>2. (Renews(s)' <=> Renews(s)) /\ Latest(s)' = Latest(s) /\ Slack(s)' = Slack(s)
      BY <2>3, OthersStay, OthersSame
    <3> QED
      BY <3>1, <3>2 DEF Timed, Counts, CountOf, Between
  <2> QED
    BY <2>1, <2>2, <2>3
<1> QED
  BY <1>1, <1>4, <1>5, <1>6, <1>7, <1>8, <1>9, <1>10, <1>11 DEF Timed

\* It starts, or starts over, with nothing in its hands: whoever has a sample of
\* the lock it once wrote took it one interval ago.
LEMMA LinkingKeeps ==
  ASSUME TypeInv, TypeInv', Timed, NEW p \in Servers, NEW step \in {"linking", "sampling"},
         Goes(p, step, 0), sample' \in {sample, [sample EXCEPT ![p] = Absent]},
         UNCHANGED <<held, renewal, renewing, lock>>,
         pc[p] \in {"down"} \cup Claiming, ~Names(lock, p),
         \A r \in Servers \ {p} : Watching(r) /\ sample[r].owner = p =>
            timer[r] = Window - Interval /\ sample[r].renewals = 0
  PROVE  Timed'
<1>1. pc'[p] = step /\ Others(p)
  BY DEF Goes, Others, TypeInv, TypeOK
<1>2. ~Watching(p)' /\ renewing[p] = "no"
  BY <1>1, FlightPlace DEF Watching
<1>3. \A r \in Servers \ {p} : Watching(r) /\ sample[r].owner = p => EchoOf(p, r)'
  BY <1>1 DEF EchoOf, Others
<1>4. Local(p)'
  BY <1>1, <1>2 DEF Local, InFlight, Leasing
<1>5. \A s \in Servers : CountOf(p, s)'
  BY <1>2 DEF CountOf
<1> QED
  BY <1>1, <1>2, <1>3, <1>4, <1>5, ClaimantKeeps

\* The start, a link that finds a lock, and the three ways to start over.
LEMMA StartsKeep ==
  ASSUME Timely, TypeInv, TypeInv', Timed, NEW p \in Servers,
         \/ Start(p)
         \/ Link(p) /\ lock # Absent
         \/ lock = Absent /\ (FirstSample(p) \/ SecondSample(p) \/ Confirm(p))
  PROVE  Timed'
<1>1. CASE Start(p)
  <2>1. ~Names(lock, p)
    BY <1>1 DEF Start, Timed, Named, Works, Leasing
  <2>2. \A r \in Servers : Watching(r) => sample[r].owner # p
    BY <1>1 DEF Start, Timed, Echo, EchoOf
  <2> QED
    BY <1>1, <2>1, <2>2, LinkingKeeps DEF Start, otherVars
<1>2. CASE Link(p) /\ lock # Absent
  <2>1. ~Names(lock, p)
    BY <1>2 DEF Link, Timed, Named, Works, Leasing
  <2>2. \A r \in Servers : Watching(r) /\ sample[r].owner = p =>
          timer[r] = Window - Interval /\ sample[r].renewals = 0
    BY <1>2 DEF Link, Timed, Echo, EchoOf, Claiming
  <2> QED
    BY <1>2, <2>1, <2>2, LinkingKeeps DEF Link, otherVars, Claiming
<1>3. ASSUME lock = Absent, Retries(p), pc[p] \in {"sampling", "observing", "confirming"},
             pc[p] # "sampling" => timer[p] = 0
      PROVE  Timed'
  <2>1. ~Names(lock, p)
    BY <1>3 DEF Names
  <2>2. \A r \in Servers : Watching(r) /\ sample[r].owner = p =>
          timer[r] = Window - Interval /\ sample[r].renewals = 0
    <3> SUFFICES ASSUME NEW r \in Servers, Watching(r), sample[r].owner = p
                 PROVE  timer[r] = Window - Interval /\ sample[r].renewals = 0
      OBVIOUS
    <3>1. EchoOf(p, r) /\ timer[r] \in Nat
      BY Numbers DEF Timed, Echo
    <3> QED
      BY <1>3, <2>1, <3>1, Times DEF EchoOf, Claiming
  <2> QED
    BY <1>3, <2>1, <2>2, LinkingKeeps DEF Retries, otherVars, Claiming
<1>4. ASSUME lock = Absent, FirstSample(p) PROVE Timed'
  BY <1>3, <1>4 DEF FirstSample
<1>5. ASSUME lock = Absent, SecondSample(p) PROVE Timed'
  <2>1. Retries(p) /\ pc[p] = "observing" /\ timer[p] = 0
    BY <1>5 DEF SecondSample
  <2> QED
    BY <1>3, <1>5, <2>1
<1>6. ASSUME lock = Absent, Confirm(p) PROVE Timed'
  <2>1. Retries(p) /\ pc[p] = "confirming" /\ timer[p] = 0
    BY <1>6 DEF Confirm, Names
  <2> QED
    BY <1>3, <1>6, <2>1
<1> QED
  BY <1>1, <1>2, <1>4, <1>5, <1>6

\* The first sample: the window is longer than any server goes on for.
LEMMA SampleKeeps ==
  ASSUME Timely, TypeInv, TypeInv', Timed, NEW p \in Servers, FirstSample(p), lock # Absent
  PROVE  Timed'
<1>1. /\ pc[p] = "sampling" /\ Goes(p, "observing", Window)
      /\ sample' = [sample EXCEPT ![p] = lock]
      /\ UNCHANGED <<held, renewal, renewing, lock>>
  BY DEF FirstSample, otherVars
<1>2. /\ pc'[p] = "observing" /\ timer'[p] = Window /\ sample'[p] = lock /\ Others(p)
  BY <1>1 DEF Goes, Others, TypeInv, TypeOK
<1>3. lock \in Locks /\ ~Names(lock, p) /\ renewing[p] = "no"
  BY <1>1, FlightPlace DEF TypeInv, TypeOK, Timed, Named, Works, Leasing, Claiming
<1>4. Local(p)'
  BY <1>1, <1>2, <1>3, Times DEF Local, InFlight, Leasing, Names, Watching
<1>5. ASSUME NEW r \in Servers \ {p}, Watching(r), sample[r].owner = p PROVE EchoOf(p, r)'
  <2>1. timer[r] = Window - Interval /\ sample[r].renewals = 0
    BY <1>1, <1>5 DEF Timed, Echo, EchoOf, Claiming
  <2>2. timer'[r] = timer[r] /\ sample'[r] = sample[r]
    BY <1>2 DEF Others
  <2> QED
    BY <1>2, <2>1, <2>2, Times DEF EchoOf
<1>6. ASSUME NEW q \in Servers \ {p}, sample'[p].owner = q PROVE EchoOf(q, p)'
  <2>1. Names(lock, q) /\ pc'[q] = pc[q] /\ timer'[q] = timer[q]
    BY <1>2, <1>6 DEF Names, Others
  <2>2. Works(q) \/ pc[q] \in {"confirming", "closing", "gone"}
    BY <2>1 DEF Timed, Named
  <2>3. pc[q] = "confirming" => timer[q] <= Interval /\ timer[q] \in Nat
    BY Numbers DEF Timed, Local
  <2>4. pc[q] \in {"confirming", "booting"} \cup Leasing => lock.renewals = 0
    BY <2>1 DEF Timed, Unrenewed
  <2>5. pc[q] \notin {"down", "overwriting", "linking", "sampling", "observing"}
    BY <2>2 DEF Works, Leasing
  <2> QED
    BY <1>1, <1>2, <2>1, <2>3, <2>4, <2>5, Times DEF EchoOf, Names, Claiming
<1>7. ASSUME NEW s \in Servers PROVE Remaining(s) < Window
  <2>1. Local(s)
    BY DEF Timed
  <2>2. Ending(s) <= DrainTimeout + KillTimeout
    BY Times DEF Ending
  <2> QED
    BY <2>1, <2>2, Numbers, Times DEF Timely, Local, Remaining, Slack, Leasing
<1>8. ASSUME NEW s \in Servers \ {p} PROVE CountOf(p, s)'
  <2> SUFFICES ASSUME sample'[p].owner = s, sample'[p].renewals # 0, Renews(s)'
               PROVE  /\ Latest(s)' # 0
                      /\ Between(sample'[p].renewals, Latest(s)') * Interval
                           <= (Window - timer'[p]) + Slack(s)'
    BY DEF CountOf, Between
  <2>1. Names(lock, s) /\ Latest(s)' = Latest(s) /\ Slack(s)' = Slack(s)
    BY <1>1, <1>2, OthersSame, OthersStay DEF Names
  <2>2. Latest(s) = lock.renewals
    BY <2>1 DEF Latest, Timed, Local
  <2>3. lock.renewals \in Int /\ Between(lock.renewals, lock.renewals) = 0
    BY <1>3 DEF Locks, Between
  <2>4. Slack(s) \in Nat
    BY Numbers
  <2> QED
    BY <1>2, <2>1, <2>2, <2>3, <2>4, Times
<1> QED
  BY <1>1, <1>2, <1>3, <1>4, <1>5, <1>6, <1>7, <1>8, ClaimantKeeps DEF Claiming

\* The second sample, equal to the first: nobody works, and no reclaim is being
\* confirmed, or it would have been a matter of one interval.
LEMMA UnchangedKeeps ==
  ASSUME Timely, TypeInv, TypeInv', Timed, NEW p \in Servers, SecondSample(p),
         lock # Absent, Unchanged(p)
  PROVE  Timed'
<1>1. /\ pc[p] = "observing" /\ timer[p] = 0 /\ lock = sample[p]
      /\ Goes(p, "overwriting", 0) /\ UNCHANGED <<sample, held, renewal, renewing, lock>>
  BY DEF SecondSample, Unchanged, otherVars
<1>2. /\ pc'[p] = "overwriting" /\ timer'[p] = 0 /\ sample'[p] = sample[p] /\ Others(p)
  BY <1>1 DEF Goes, Others, TypeInv, TypeOK
<1>3. /\ Watching(p) /\ sample[p] \in Locks /\ sample[p].owner # p
      /\ ~Names(lock, p) /\ renewing[p] = "no"
  BY <1>1, FlightPlace DEF Watching, Timed, Local, Names, Claiming
<1>4. Local(p)'
  BY <1>1, <1>2, <1>3 DEF Local, InFlight, Leasing, Names, Watching
<1>5. \A r \in Servers : ~(Watching(r) /\ sample[r].owner = p)
  BY <1>1, Numbers, Times DEF Timed, Echo, EchoOf
<1>6. ASSUME NEW q \in Servers \ {p}, sample'[p].owner = q PROVE EchoOf(q, p)'
  <2>1. EchoOf(q, p)
    BY <1>2, <1>3, <1>6 DEF Timed, Echo
  <2> QED
    BY <1>1, <1>2, <2>1 DEF EchoOf, Others, Names
<1>7. \A s \in Servers : ~Busy(s)
  BY <1>1, Numbers DEF Timed, Outlasts, OutlastsOf
<1>8. ASSUME NEW s \in Servers, Names(lock, s) PROVE pc[s] # "confirming"
  <2>1. EchoOf(s, p)
    BY <1>1, <1>3, <1>8 DEF Timed, Echo, Names
  <2> QED
    BY <1>1, <2>1, Numbers, Times DEF EchoOf, Timely
<1>9. \A s \in Servers \ {p} : CountOf(p, s)'
  <2> SUFFICES ASSUME NEW s \in Servers \ {p} PROVE ~Renews(s)'
    BY DEF CountOf
  <2> QED
    BY <1>1, <1>2, <1>7, OthersSame DEF Renews, Busy, Works
<1> QED
  BY <1>1, <1>2, <1>3, <1>4, <1>5, <1>6, <1>7, <1>8, <1>9, ClaimantKeeps DEF Claiming
\* The claim itself, in the state l of the lock: by a link, or confirmed.  Who
\* has a sample of it took it one interval ago at the most.
LEMMA ClaimedKeeps ==
  ASSUME Timely, TypeInv, TypeInv', Timed, NEW p \in Servers, Claimed(p),
         pc[p] \in Claiming, lock' = [owner |-> p, renewals |-> 0],
         \A s \in Servers : ~Works(s),
         \A s \in Servers : InFlight(s) => lock # lock',
         \A r \in Servers : pc[r] # "overwriting",
         \A q \in Servers : pc[q] = "confirming" /\ Names(lock, q) => q = p,
         \A r \in Servers : pc[r] = "observing" /\ sample[r].owner = p =>
            /\ timer[r] >= Window - Interval
            /\ sample[r].renewals = 0
  PROVE  Timed'
<1>1. /\ pc'[p] = "publishing" /\ held'[p] = TRUE /\ sample'[p] = Absent
      /\ renewing' = renewing /\ Others(p) /\ Names(lock', p)
  <2>1. Others(p) /\ pc'[p] = "publishing" /\ held'[p] = TRUE /\ sample'[p] = Absent
    BY DEF Claimed, Goes, Others, TypeInv, TypeOK
  <2>2. lock' # Absent /\ lock'.owner = p
    BY NewLocks, AbsentIsNone
  <2> QED
    BY <2>1, <2>2 DEF Claimed, Names
<1>2. /\ renewing[p] = "no" /\ Works(p)' /\ ~Watching(p)' /\ ~Renews(p)'
      /\ lock'.owner = p /\ lock'.renewals = 0 /\ lock' # Absent
  BY <1>1, FlightPlace DEF Works, Leasing, Watching, Renews, InFlight, Names
<1>3. \A q \in Servers \ {p} : ~Works(q)' /\ ~Names(lock', q)
  BY <1>1, <1>2, OthersStay DEF Names
<1>4. \A q \in Servers : Local(q)'
  <2>1. Local(p)'
    BY <1>1, <1>2 DEF Local, InFlight, Watching, Leasing
  <2>2. ASSUME NEW q \in Servers \ {p} PROVE Local(q)'
    BY <1>1, <1>3 DEF Local, Timed, Others, InFlight, Watching, Names
  <2> QED
    BY <2>1, <2>2
<1>5. Solo' /\ Named'
  BY <1>2, <1>3 DEF Solo, Named, Names
<1>6. Confirming' /\ Overwriting'
  BY <1>1, <1>3 DEF Confirming, Overwriting, Others
<1>7. Echo'
  <2> SUFFICES ASSUME NEW q \in Servers, NEW r \in Servers, Watching(r)', sample'[r].owner = q
               PROVE  EchoOf(q, r)'
    BY DEF Echo
  <2>1. r # p /\ Watching(r) /\ sample'[r] = sample[r] /\ timer'[r] = timer[r]
    BY <1>1, <1>2, OthersStay DEF Others
  <2>2. EchoOf(q, r) /\ pc[r] = "observing"
    BY <2>1 DEF Timed, Echo, Watching
  <2>3. CASE q = p
    BY <1>1, <2>1, <2>2, <2>3 DEF EchoOf
  <2>4. CASE q # p
    BY <1>1, <1>3, <2>1, <2>2, <2>4 DEF EchoOf, Others
  <2> QED
    BY <2>3, <2>4
<1>8. Outlasts'
  <2> SUFFICES ASSUME NEW r \in Servers, NEW s \in Servers,
                      pc'[r] = "observing", sample'[r] = lock', Busy(s)'
               PROVE  Remaining(s)' < timer'[r]
    BY DEF Outlasts, OutlastsOf
  <2>1. /\ r # p /\ pc[r] = "observing" /\ sample[r].owner = p
        /\ timer'[r] = timer[r] /\ timer[r] >= Window - Interval /\ timer[r] \in Nat
    BY <1>1, <1>2, Numbers DEF Others
  <2>2. CASE s = p
    <3>1. Remaining(s)' = BootTime + Interval + 0
      BY <1>1, <1>2, <2>2, Times DEF Remaining, Ending, Leasing
    <3> QED
      BY <2>1, <3>1, Times DEF Timely
  <2>3. CASE s # p
    <3>1. InFlight(s) /\ ~Works(s) /\ pc'[s] = pc[s]
      BY <1>1, <1>3, <2>3, OthersStay DEF Busy, Others
    <3>2. pc[s] = "closing"
      BY <3>1, FlightPlace DEF Works, Stopping
    <3>3. Remaining(s)' = 0
      BY <3>1, <3>2 DEF Remaining, Leasing
    <3> QED
      BY <2>1, <3>3, Times DEF Timely
  <2> QED
    BY <2>2, <2>3
<1>9. Unrenewed'
  BY <1>2, <1>3 DEF Unrenewed
<1>10. Counts'
  <2> SUFFICES ASSUME NEW r \in Servers, NEW s \in Servers, Watching(r)', sample'[r].owner = s,
                      sample'[r].renewals # 0, Renews(s)'
               PROVE  /\ Latest(s)' # 0
                      /\ Between(sample'[r].renewals, Latest(s)') * Interval
                           <= (Window - timer'[r]) + Slack(s)'
    BY DEF Counts, CountOf, Between
  <2>1. r # p /\ Watching(r) /\ sample'[r] = sample[r] /\ timer'[r] = timer[r]
    BY <1>1, <1>2, OthersStay DEF Others
  <2>2. s # p /\ renewing[s] = "writing" /\ renewing'[s] = "writing" /\ sample'[s] = sample[s]
    BY <1>1, <1>2, <1>3 DEF Renews, Others, TypeInv, TypeOK, InFlight
  <2>3. Renews(s) /\ Latest(s)' = Latest(s) /\ Slack(s)' = Slack(s)
    BY <2>2 DEF Renews, Latest, Slack, InFlight
  <2>4. CountOf(r, s)
    BY DEF Timed, Counts
  <2> QED
    BY <2>1, <2>3, <2>4 DEF CountOf
<1> QED
  BY <1>4, <1>5, <1>6, <1>7, <1>8, <1>9, <1>10 DEF Timed

\* By a link: nobody works behind a lock that is absent.
LEMMA LinkKeeps ==
  ASSUME Timely, TypeInv, TypeInv', Timed, NEW p \in Servers, Link(p), lock = Absent
  PROVE  Timed'
<1>1. pc[p] = "linking" /\ Claimed(p) /\ lock' = [owner |-> p, renewals |-> 0]
  BY DEF Link
<1>2. lock # lock'
  BY <1>1, NewLocks, AbsentIsNone
<1>3. \A s \in Servers : ~Works(s) /\ ~Names(lock, s) /\ pc[s] # "overwriting"
  BY DEF Timed, Named, Overwriting, Names
<1>4. \A r \in Servers : pc[r] = "observing" /\ sample[r].owner = p =>
         timer[r] >= Window - Interval /\ sample[r].renewals = 0
  BY <1>1, Numbers, Times DEF Timed, Echo, EchoOf, Watching, Claiming
<1> QED
  BY <1>1, <1>2, <1>3, <1>4, ClaimedKeeps DEF Claiming

\* A reclaim that survived one interval: nobody worked meanwhile.
LEMMA ConfirmKeeps ==
  ASSUME Timely, TypeInv, TypeInv', Timed, NEW p \in Servers, Confirm(p), Names(lock, p)
  PROVE  Timed'
<1>1. pc[p] = "confirming" /\ timer[p] = 0 /\ Claimed(p) /\ lock' = lock
  BY DEF Confirm, Names
<1>2. lock = [owner |-> p, renewals |-> 0]
  BY <1>1 DEF Timed, Unrenewed, Names, TypeInv, TypeOK, Locks
<1>3. \A s \in Servers : ~Works(s) /\ ~InFlight(s)
  BY <1>1 DEF Timed, Confirming, Busy
<1>4. \A r \in Servers : pc[r] # "overwriting"
  BY <1>1, Times DEF Timed, Overwriting
<1>5. \A r \in Servers : pc[r] = "observing" /\ sample[r].owner = p =>
         timer[r] >= Window - Interval /\ sample[r].renewals = 0
  BY <1>1, Numbers, Times DEF Timed, Echo, EchoOf, Watching, Claiming
<1>6. \A q \in Servers : Names(lock, q) => q = p
  BY DEF Names
<1> QED
  BY <1>1, <1>2, <1>3, <1>4, <1>5, <1>6, ClaimedKeeps DEF Claiming

\* A reclaim writes over whatever is there, which nobody works behind.
LEMMA OverwriteKeeps ==
  ASSUME Timely, TypeInv, TypeInv', Timed, NEW p \in Servers, Overwrite(p)
  PROVE  Timed'
<1>1. /\ pc[p] = "overwriting" /\ lock' = [owner |-> p, renewals |-> 0]
      /\ sample' = [sample EXCEPT ![p] = Absent] /\ Goes(p, "confirming", Interval)
      /\ UNCHANGED <<held, renewal, renewing>>
  BY DEF Overwrite, otherVars
<1>2. /\ pc'[p] = "confirming" /\ timer'[p] = Interval /\ Others(p)
      /\ lock'.owner = p /\ lock'.renewals = 0 /\ lock' # Absent
  <2>1. pc'[p] = "confirming" /\ timer'[p] = Interval /\ Others(p)
    BY <1>1 DEF Goes, Others, TypeInv, TypeOK
  <2>2. lock' # Absent
    BY <1>1, NewLocks, AbsentIsNone
  <2> QED
    BY <1>1, <2>1, <2>2
<1>3. \A s \in Servers : ~Busy(s)
  BY <1>1 DEF Timed, Overwriting
<1>4. /\ \A s \in Servers : ~Busy(s)' /\ ~Works(s)' /\ ~Renews(s)' /\ ~InFlight(s)'
      /\ ~Watching(p)'
  <2>1. ~Busy(p)' /\ ~Watching(p)'
    BY <1>1, <1>2, <1>3 DEF Busy, Works, InFlight, Watching, Leasing
  <2>2. \A s \in Servers : ~Busy(s)'
    BY <1>2, <1>3, <2>1, OthersStay
  <2> QED
    BY <2>1, <2>2 DEF Busy, Renews, Works
<1>5. \A q \in Servers \ {p} : ~Names(lock', q)
  BY <1>2 DEF Names
<1>6. \A q \in Servers : Local(q)'
  <2>1. Local(p)'
    BY <1>2, <1>4, Times DEF Local, InFlight, Watching, Leasing
  <2>2. ASSUME NEW q \in Servers \ {p} PROVE Local(q)'
    BY <1>2, <1>5 DEF Local, Timed, Others, InFlight, Watching, Names
  <2> QED
    BY <2>1, <2>2
<1>7. Solo' /\ Named' /\ Confirming' /\ Outlasts' /\ Counts'
  BY <1>2, <1>4, <1>5 DEF Solo, Named, Confirming, Outlasts, OutlastsOf, Counts, CountOf
<1>8. Overwriting' /\ Unrenewed'
  BY <1>2, <1>4, <1>5 DEF Overwriting, Unrenewed
<1>9. Echo'
  <2> SUFFICES ASSUME NEW q \in Servers, NEW r \in Servers, Watching(r)', sample'[r].owner = q
               PROVE  EchoOf(q, r)'
    BY DEF Echo
  <2>1. r # p /\ Watching(r) /\ sample'[r] = sample[r] /\ timer'[r] = timer[r]
    BY <1>2, <1>4, OthersStay DEF Others
  <2>2. EchoOf(q, r)
    BY <2>1 DEF Timed, Echo
  <2>3. q # p /\ pc'[q] = pc[q] /\ timer'[q] = timer[q]
    BY <1>1, <1>2, <2>2 DEF EchoOf, Others
  <2>4. pc[q] = "confirming" => Window - timer[r] = Interval - timer[q]
    <3>1. CASE Names(lock, q) /\ pc[q] = "confirming"
      <4>1. timer[q] = Interval
        BY <1>1, <3>1 DEF Timed, Overwriting
      <4>2. timer[r] <= Window
        BY <2>1, Times DEF Timed, Local, Watching
      <4> QED
        BY <2>2, <3>1, <4>1, <4>2, Numbers, Times DEF EchoOf
    <3> QED
      BY <2>2, <3>1 DEF EchoOf
  <2> QED
    BY <2>1, <2>2, <2>3, <2>4 DEF EchoOf
<1> QED
  BY <1>6, <1>7, <1>8, <1>9 DEF Timed
---------------------------------------------------------------------------
(* Renewal, release and time.                                               *)

\* The count of a renewal is nobody's sample: for it to come round a claimant
\* would have to watch longer than the window.
LEMMA CountIsNew ==
  ASSUME TypeInv, Timed, NEW p \in Servers, renewing[p] = "writing",
         NEW r \in Servers, Watching(r), sample[r].owner = p
  PROVE  /\ sample[r].renewals # Renewed(sample[p])
         /\ sample[r].renewals # 0 =>
              Between(sample[r].renewals, Renewed(sample[p]))
                = Between(sample[r].renewals, sample[p].renewals) + 1
<1> DEFINE a == sample[r].renewals
           k == sample[p].renewals
<1>1. /\ a \in 0..(Renewals - 1) /\ k \in 0..(Renewals - 1)
  BY DEF Timed, Local, TypeInv, WritesOwn, Locks
<1>2. Renewed(sample[p]) = IF k = Renewals - 1 THEN 1 ELSE k + 1
  BY DEF Renewed
<1>3. CASE a = 0
  BY <1>1, <1>2, <1>3, Times
<1>4. CASE a # 0
  <2>1. k # 0 /\ Between(a, k) * Interval <= Window - timer[r]
    <3>1. CountOf(r, p) /\ Renews(p) /\ Latest(p) = k /\ Slack(p) = 0
      BY DEF Timed, Counts, Renews, InFlight, Latest, Slack
    <3> QED
      BY <1>4, <3>1, Numbers, Times DEF CountOf
  <2>2. Between(a, k) \in Nat
    BY <1>1, Times DEF Between
  <2>3. Between(a, k) # Renewals - 2
    BY <2>1, <2>2, Numbers, Times
  <2>4. a # Renewed(sample[p])
    BY <1>1, <1>2, <1>4, <2>1, <2>3, Times DEF Between
  <2>5. Between(a, Renewed(sample[p])) = Between(a, k) + 1
    BY <1>1, <1>2, <1>4, <2>1, <2>4, Times DEF Between
  <2> QED
    BY <2>4, <2>5
<1> QED
  BY <1>3, <1>4

\* A renewal is written: of the server that works, or of one that has finished
\* since, and then perhaps over the lock of the next.
LEMMA WriteKeeps ==
  ASSUME Timely, TypeInv, TypeInv', Timed, NEW p \in Servers, RenewWrites(p), p \notin late
  PROVE  Timed'
<1> DEFINE n == Renewed(sample[p])
<1>1. /\ renewing[p] = "writing" /\ renewing' = [renewing EXCEPT ![p] = "no"]
      /\ lock' = [owner |-> p, renewals |-> n]
      /\ held' = [held EXCEPT ![p] = TRUE] /\ sample' = [sample EXCEPT ![p] = Absent]
      /\ UNCHANGED <<pc, timer, renewal>>
  BY DEF RenewWrites
<1>2. /\ renewing'[p] = "no" /\ held'[p] = TRUE /\ Others(p)
      /\ pc[p] \in {"serving"} \cup Stopping /\ Busy(p) /\ InFlight(p)
  BY <1>1, FlightPlace DEF Others, TypeInv, TypeOK, Busy, InFlight
<1>3. sample[p] \in Locks /\ n \in 1..(Renewals - 1)
  BY <1>1, Times DEF TypeInv, WritesOwn, Locks, Renewed
<1>4. lock'.owner = p /\ lock'.renewals = n /\ lock' # Absent /\ Names(lock', p)
  <2>1. lock' \in Locks
    BY <1>1, <1>3, NewLocks
  <2> QED
    BY <1>1, <2>1, AbsentIsNone DEF Names
<1>5. \A q \in Servers \ {p} : ~Names(lock', q)
  BY <1>4 DEF Names
<1>6. /\ \A q \in Servers : Works(q)' <=> Works(q)
      /\ \A q \in Servers : Busy(q)' => Busy(q)
      /\ ~Watching(p)'
  BY <1>1, <1>2, OthersStay DEF Works, Busy, Watching, Stopping
<1>7. \A r \in Servers : pc[r] # "overwriting" /\ ~(pc[r] = "confirming" /\ Names(lock, r))
  BY <1>2 DEF Timed, Overwriting, Confirming
<1>8. \A q \in Servers : Local(q)'
  <2>1. Local(p)'
    BY <1>1, <1>2, Times DEF Timed, Local, InFlight, Watching, Leasing, Stopping
  <2>2. ASSUME NEW q \in Servers \ {p} PROVE Local(q)'
    BY <1>2, <1>5 DEF Local, Timed, Others, InFlight, Watching, Names
  <2> QED
    BY <2>1, <2>2
<1>9. Solo'
  BY <1>6 DEF Timed, Solo
<1>10. Named'
  <2>1. ASSUME NEW s \in Servers, Works(s)', s # p PROVE pc'[p] \in {"closing", "gone"}
    BY <1>1, <1>2, <1>6, <2>1 DEF Timed, Solo, Works, Stopping
  <2>2. Works(p)' \/ pc'[p] \in {"closing", "gone"}
    BY <1>1, <1>2 DEF Works, Stopping
  <2> QED
    BY <1>4, <1>5, <2>1, <2>2 DEF Named
<1>11. Confirming' /\ Overwriting'
  BY <1>1, <1>2, <1>5, <1>7 DEF Confirming, Overwriting, Stopping
<1>12. Echo'
  <2> SUFFICES ASSUME NEW q \in Servers, NEW r \in Servers, Watching(r)', sample'[r].owner = q
               PROVE  EchoOf(q, r)'
    BY DEF Echo
  <2>1. r # p /\ Watching(r) /\ sample'[r] = sample[r] /\ timer'[r] = timer[r]
    BY <1>2, <1>6, OthersStay DEF Others
  <2>2. EchoOf(q, r)
    BY <2>1 DEF Timed, Echo
  <2> QED
    BY <1>1, <1>7, <2>1, <2>2 DEF EchoOf
<1>13. Outlasts'
  <2> SUFFICES ASSUME NEW r \in Servers, pc'[r] = "observing", sample'[r] = lock' PROVE FALSE
    BY DEF Outlasts, OutlastsOf
  <2>1. r # p /\ Watching(r) /\ sample'[r] = sample[r]
    BY <1>1, <1>2 DEF Others, Watching, Stopping
  <2> QED
    BY <1>1, <1>4, <2>1, CountIsNew
<1>14. Unrenewed'
  BY <1>1, <1>2, <1>5 DEF Unrenewed, Stopping, Leasing
<1>15. Counts'
  <2> SUFFICES ASSUME NEW r \in Servers, NEW s \in Servers, Watching(r)', sample'[r].owner = s,
                      sample'[r].renewals # 0, Renews(s)'
               PROVE  /\ Latest(s)' # 0
                      /\ Between(sample'[r].renewals, Latest(s)') * Interval
                           <= (Window - timer'[r]) + Slack(s)'
    BY DEF Counts, CountOf, Between
  <2>1. r # p /\ Watching(r) /\ sample'[r] = sample[r] /\ timer'[r] = timer[r]
    BY <1>2, <1>6, OthersStay DEF Others
  <2>2. CASE s = p
    <3>1. pc[p] = "serving" /\ Latest(p)' = n /\ Slack(p)' = Interval
      BY <1>1, <1>2, <1>4, <2>2 DEF Renews, InFlight, Latest, Slack, Timed, Local
    <3>2. /\ Between(sample[r].renewals, n) = Between(sample[r].renewals, sample[p].renewals) + 1
      BY <1>1, <2>1, <2>2, CountIsNew
    <3>3. Between(sample[r].renewals, sample[p].renewals) * Interval <= Window - timer[r]
      <4>1. CountOf(r, p) /\ Renews(p) /\ Latest(p) = sample[p].renewals /\ Slack(p) = 0
        BY <1>1 DEF Timed, Counts, Renews, InFlight, Latest, Slack
      <4> QED
        BY <2>1, <2>2, <4>1, Numbers, Times DEF CountOf
    <3>4. Between(sample[r].renewals, sample[p].renewals) \in Int
      BY <1>3, <2>1, Times DEF Timed, Local, Locks, Between
    <3>5. (Between(sample[r].renewals, sample[p].renewals) + 1) * Interval
            = Between(sample[r].renewals, sample[p].renewals) * Interval + Interval
      BY <3>4, Times
    <3>6. Between(sample[r].renewals, sample[p].renewals) * Interval \in Int
      BY <3>4, Times
    <3>7. /\ Between(sample'[r].renewals, Latest(s)')
              = Between(sample[r].renewals, sample[p].renewals) + 1
          /\ Latest(s)' # 0 /\ timer'[r] = timer[r] /\ Slack(s)' = Interval
      BY <1>3, <2>1, <2>2, <3>1, <3>2
    <3>8. timer[r] \in Nat
      BY Numbers
    <3> QED
      BY <3>3, <3>5, <3>6, <3>7, <3>8, Times
  <2>3. CASE s # p
    <3>1. renewing[s] = "writing" /\ renewing'[s] = "writing" /\ sample'[s] = sample[s]
      BY <1>2, <1>5, <2>3 DEF Renews, Others, InFlight
    <3>2. Renews(s) /\ Latest(s)' = Latest(s) /\ Slack(s)' = Slack(s)
      BY <3>1 DEF Renews, Latest, Slack, InFlight
    <3>3. CountOf(r, s)
      BY DEF Timed, Counts
    <3> QED
      BY <2>1, <3>2, <3>3 DEF CountOf
  <2> QED
    BY <2>2, <2>3
<1> QED
  BY <1>8, <1>9, <1>10, <1>11, <1>12, <1>13, <1>14, <1>15 DEF Timed

\* The release: nobody else works, and nobody is about to write the lock.
LEMMA RemoveKeeps ==
  ASSUME Timely, TypeInv, TypeInv', Timed, NEW p \in Servers, ReleaseRemoves(p)
  PROVE  Timed'
<1>1. /\ pc[p] = "removing" /\ lock' = Absent /\ Goes(p, "closing", 0)
      /\ held' = [held EXCEPT ![p] = FALSE] /\ UNCHANGED <<sample, renewal, renewing>>
  BY DEF ReleaseRemoves
<1>2. /\ pc'[p] = "closing" /\ Others(p) /\ Works(p) /\ Busy(p)
  BY <1>1 DEF Goes, Others, TypeInv, TypeOK, Works, Busy
<1>3. \A q \in Servers : ~Works(q)' /\ ~Names(lock', q)
  <2>1. ~Works(p)'
    BY <1>2 DEF Works, Leasing
  <2>2. \A q \in Servers \ {p} : ~Works(q)'
    BY <1>2, OthersStay DEF Timed, Solo
  <2> QED
    BY <1>1, <2>1, <2>2 DEF Names
<1>4. \A r \in Servers : pc[r] # "overwriting" /\ ~(pc[r] = "confirming" /\ Names(lock, r))
  BY <1>2 DEF Timed, Overwriting, Confirming
<1>5. /\ pc[p] \notin Claiming /\ pc'[p] \notin Claiming /\ ~Watching(p)'
  BY <1>1, <1>2 DEF Claiming, Watching
<1>6. \A q \in Servers : Local(q)'
  <2>1. Local(p)'
    BY <1>2, <1>3, <1>5 DEF Local, InFlight, Leasing
  <2>2. ASSUME NEW q \in Servers \ {p} PROVE Local(q)'
    BY <1>2, <1>3 DEF Local, Timed, Others, InFlight, Watching, Names
  <2> QED
    BY <2>1, <2>2
<1>7. Solo' /\ Named' /\ Confirming' /\ Unrenewed'
  BY <1>3 DEF Solo, Named, Confirming, Unrenewed
<1>8. Overwriting'
  BY <1>2, <1>4 DEF Overwriting, Others
<1>9. ASSUME NEW r \in Servers, Watching(r)'
      PROVE  r # p /\ Watching(r) /\ sample'[r] = sample[r] /\ timer'[r] = timer[r]
  BY <1>2, <1>5, <1>9, OthersStay DEF Others
<1>10. Echo'
  <2> SUFFICES ASSUME NEW q \in Servers, NEW r \in Servers, Watching(r)', sample'[r].owner = q
               PROVE  EchoOf(q, r)'
    BY DEF Echo
  <2>1. EchoOf(q, r)
    BY <1>9 DEF Timed, Echo
  <2>2. CASE q = p
    BY <1>2, <2>2 DEF EchoOf, Claiming, Leasing
  <2>3. CASE q # p
    BY <1>2, <1>4, <1>9, <2>1, <2>3 DEF EchoOf, Others
  <2> QED
    BY <2>2, <2>3
<1>11. Outlasts'
  <2> SUFFICES ASSUME NEW r \in Servers, pc'[r] = "observing", sample'[r] = lock' PROVE FALSE
    BY DEF Outlasts, OutlastsOf
  <2>1. Watching(r)' /\ sample[r] \in Locks
    BY <1>9 DEF Watching, Timed, Local
  <2> QED
    BY <1>1, <1>9, <2>1, AbsentIsNone
<1>12. Counts'
  <2> SUFFICES ASSUME NEW r \in Servers, NEW s \in Servers, Watching(r)', sample'[r].owner = s,
                      sample'[r].renewals # 0, Renews(s)'
               PROVE  /\ Latest(s)' # 0
                      /\ Between(sample'[r].renewals, Latest(s)') * Interval
                           <= (Window - timer'[r]) + Slack(s)'
    BY DEF Counts, CountOf, Between
  <2>1. renewing[s] = "writing" /\ renewing'[s] = "writing"
    BY <1>1, <1>3 DEF Renews, InFlight
  <2>2. Renews(s) /\ Latest(s)' = Latest(s) /\ Slack(s)' = Slack(s)
    BY <1>1, <2>1 DEF Renews, Latest, Slack, InFlight
  <2>3. CountOf(r, s)
    BY DEF Timed, Counts
  <2> QED
    BY <1>9, <2>2, <2>3 DEF CountOf
<1> QED
  BY <1>6, <1>7, <1>8, <1>10, <1>11, <1>12 DEF Timed

\* Time passes for the claimants as for the server that works.
LEMMA TickKeeps ==
  ASSUME Timely, TypeInv, TypeInv', Timed, late = {}, Tick
  PROVE  Timed'
<1>1. /\ UNCHANGED <<pc, sample, held, renewing, lock>>
      /\ \A p \in Servers : ~Due(p) /\ timer'[p] = Less(timer[p])
      /\ \A p \in Servers : renewal'[p] =
           IF pc[p] \in {"serving", "draining", "killing"} THEN Less(renewal[p]) ELSE renewal[p]
  BY DEF Tick
<1>2. \A p \in Servers : ~InFlight(p) /\ ~InFlight(p)'
  BY <1>1 DEF Due, InFlight
<1>3. /\ \A p \in Servers : (Works(p)' <=> Works(p)) /\ (Busy(p)' <=> Busy(p))
      /\ \A p \in Servers : (Watching(p)' <=> Watching(p)) /\ (Renews(p)' <=> Renews(p))
      /\ \A p \in Servers : Latest(p)' = Latest(p) /\ Ending(p)' = Ending(p)
      /\ \A p, q \in Servers : Names(lock', p) <=> Names(lock, p)
  BY <1>1, <1>2 DEF Works, Busy, InFlight, Watching, Renews, Latest, Ending, Names
<1>4. \A p \in Servers : pc[p] \notin {"overwriting", "linking", "sampling", "releasing", "removing"} \cup Leasing
  BY <1>1 DEF Due
<1>5. ASSUME NEW p \in Servers
      PROVE  /\ pc[p] \in {"observing", "confirming", "draining", "killing", "booting"} =>
                  timer[p] > 0 /\ timer'[p] = timer[p] - 1
             /\ pc[p] = "serving" => renewal[p] > 0 /\ renewal'[p] = renewal[p] - 1
             /\ timer'[p] <= timer[p]
  <2>1. timer[p] \in Nat /\ renewal[p] \in Nat
    BY Numbers
  <2> QED
    BY <1>1, <2>1 DEF Due, Less
<1>6. \A q \in Servers : Local(q)'
  <2> SUFFICES ASSUME NEW q \in Servers PROVE Local(q)'
    OBVIOUS
  <2>1. renewing'[q] = "no"
    BY <1>2 DEF InFlight
  <2>2. timer[q] \in Nat /\ timer'[q] \in Nat /\ timer'[q] <= timer[q]
    BY <1>5, Numbers DEF TypeInv, TypeOK, Bounds
  <2>3. Local(q)
    BY DEF Timed
  <2> QED
    BY <1>1, <1>2, <1>4, <2>1, <2>2, <2>3, Times DEF Local, Watching
<1>7. Solo' /\ Named' /\ Unrenewed'
  BY <1>1, <1>3 DEF Timed, Solo, Named, Unrenewed
<1>8. Confirming' /\ Overwriting'
  BY <1>1, <1>3, <1>4 DEF Timed, Confirming, Overwriting
<1>9. Echo'
  <2> SUFFICES ASSUME NEW q \in Servers, NEW r \in Servers, Watching(r), sample[r].owner = q
               PROVE  EchoOf(q, r)'
    BY <1>1, <1>3 DEF Echo
  <2>1. EchoOf(q, r) /\ pc[r] = "observing" /\ timer'[r] = timer[r] - 1
    BY <1>4, <1>5 DEF Timed, Echo, Watching
  <2>2. pc[q] \notin {"linking", "sampling"}
    BY <1>4
  <2>3. pc[q] \in {"observing", "confirming"} => timer'[q] = timer[q] - 1
    BY <1>5
  <2>4. timer[q] \in Nat /\ timer[r] \in Nat
    BY Numbers
  <2> QED
    BY <1>1, <1>3, <2>1, <2>2, <2>3, <2>4, Times DEF EchoOf
<1>10. Outlasts'
  <2> SUFFICES ASSUME NEW r \in Servers, NEW s \in Servers,
                      pc[r] = "observing", sample[r] = lock, Busy(s)
               PROVE  Remaining(s)' < timer'[r]
    BY <1>1, <1>3 DEF Outlasts, OutlastsOf
  <2>1. Remaining(s) < timer[r] /\ timer'[r] = timer[r] - 1
    BY <1>5 DEF Timed, Outlasts, OutlastsOf
  <2>2. pc[s] \in {"booting", "serving", "draining", "killing"}
    BY <1>2, <1>4 DEF Busy, Works
  <2>3. Remaining(s)' = Remaining(s) - 1
    BY <1>1, <1>2, <1>3, <1>5, <2>2, Numbers, Times DEF Remaining, Slack, Leasing
  <2> QED
    BY <2>1, <2>3, Numbers
<1>11. Counts'
  <2> SUFFICES ASSUME NEW r \in Servers, NEW s \in Servers, Watching(r), sample[r].owner = s,
                      sample[r].renewals # 0, Renews(s)
               PROVE  /\ Latest(s) # 0
                      /\ Between(sample[r].renewals, Latest(s)) * Interval
                           <= (Window - timer'[r]) + Slack(s)'
    BY <1>1, <1>3 DEF Counts, CountOf, Between
  <2>1. pc[r] = "observing" /\ timer'[r] = timer[r] - 1
    BY <1>4, <1>5 DEF Watching
  <2>2. pc[s] = "serving" /\ Slack(s)' = Slack(s) - 1
    BY <1>1, <1>2, <1>5 DEF Renews, Slack
  <2>3. /\ Latest(s) # 0
        /\ Between(sample[r].renewals, Latest(s)) * Interval <= (Window - timer[r]) + Slack(s)
    BY DEF Timed, Counts, CountOf
  <2>4. (Window - timer'[r]) + Slack(s)' = (Window - timer[r]) + Slack(s)
    BY <2>1, <2>2, Numbers, Times
  <2> QED
    BY <2>3, <2>4
<1> QED
  BY <1>6, <1>7, <1>8, <1>9, <1>10, <1>11 DEF Timed

---------------------------------------------------------------------------
(* The theorem.                                                             *)

\* Every step keeps Timed, while none is late and none is hasty.
LEMMA NextTimed ==
  ASSUME Timely, TypeInv, TypeInv', Timed, late = {}, ~hasty', [Next]_vars
  PROVE  Timed'
<1>1. ASSUME NEW p \in Servers, Claim(p) \/ Start(p) PROVE Timed'
  <2>1. CASE Start(p) \/ Link(p)
    BY <2>1, StartsKeep, LinkKeeps
  <2>2. CASE FirstSample(p)
    BY <2>2, StartsKeep, SampleKeeps
  <2>3. CASE SecondSample(p)
    <3>1. CASE lock # Absent /\ ~Unchanged(p)
      BY <2>3, <3>1, ExitsCalm DEF SecondSample, Refused
    <3> QED
      BY <2>3, <3>1, StartsKeep, UnchangedKeeps
  <2>4. CASE Overwrite(p)
    BY <2>4, OverwriteKeeps
  <2>5. CASE Confirm(p)
    <3>1. CASE lock # Absent /\ ~Names(lock, p)
      BY <2>5, <3>1, ExitsCalm DEF Confirm, Refused
    <3> QED
      BY <2>5, <3>1, StartsKeep, ConfirmKeeps
  <2> QED
    BY <1>1, <2>1, <2>2, <2>3, <2>4, <2>5 DEF Claim
<1>2. ASSUME NEW p \in Servers, Lease(p) \/ Booted(p) \/ Renew(p) PROVE Timed'
  BY <1>2, LeaseCalm, BootedCalm, FiresCalm, ReadsCalm, WriteKeeps DEF Renew
<1>3. ASSUME NEW p \in Servers, Signal(p) \/ Stop(p) PROVE Timed'
  <2>1. CASE Close(p)
    BY <2>1, ExitsCalm DEF Close
  <2> QED
    BY <1>3, <2>1, StopCalm, RemoveKeeps DEF Stop
<1>4. ASSUME NEW p \in Servers, Crash(p) PROVE Timed'
  BY <1>4, ExitsCalm DEF Crash
<1>5. CASE UNCHANGED vars
  <2>1. UNCHANGED <<pc, timer, sample, held, renewal, renewing, lock>>
    BY <1>5 DEF vars, procVars
  <2>2. /\ \A p \in Servers : Local(p)'
        /\ Solo' /\ Named' /\ Confirming' /\ Overwriting' /\ Unrenewed'
    BY <2>1 DEF Timed, Local, Solo, Named, Confirming, Overwriting, Unrenewed, Works, InFlight,
       Busy, Watching, Names
  <2>3. Echo'
    BY <2>1 DEF Timed, Echo, EchoOf, Watching, Names
  <2>4. /\ \A p \in Servers : (Busy(p)' <=> Busy(p)) /\ Remaining(p)' = Remaining(p)
        /\ \A p \in Servers : (Watching(p)' <=> Watching(p)) /\ (Renews(p)' <=> Renews(p))
        /\ \A p \in Servers : Latest(p)' = Latest(p) /\ Slack(p)' = Slack(p)
    BY <2>1 DEF Busy, Works, InFlight, Remaining, Slack, Ending, Names, Watching, Renews, Latest
  <2>5. Outlasts' /\ Counts'
    BY <2>1, <2>4 DEF Timed, Outlasts, OutlastsOf, Counts, CountOf, Between
  <2> QED
    BY <2>2, <2>3, <2>5 DEF Timed
<1> QED
  BY <1>1, <1>2, <1>3, <1>4, <1>5, TickKeeps DEF Next

\* Who is late is decided before any server starts, and haste is remembered.
LEMMA Histories == [Next]_vars => late' = late /\ (hasty => hasty')
<1> SUFFICES ASSUME [Next]_vars PROVE late' = late /\ (hasty => hasty')
  OBVIOUS
<1>1. ASSUME NEW p \in Servers, Start(p) \/ Claim(p) PROVE late' = late /\ hasty' = hasty
  BY <1>1 DEF Start, Claim, Link, FirstSample, SecondSample, Overwrite, Confirm, Claimed,
     Retries, Refused, envVars
<1>2. ASSUME NEW p \in Servers, Lease(p) \/ Booted(p) \/ Renew(p) PROVE late' = late /\ hasty' = hasty
  BY <1>2 DEF Lease, Publish, List, Check, Leased, Booted, Renew, RenewalFires, RenewReads,
     RenewWrites, envVars
<1>3. ASSUME NEW p \in Servers, Stop(p) \/ Crash(p) PROVE late' = late /\ hasty' = hasty
  BY <1>3 DEF Stop, Drained, Killed, ReleaseReads, ReleaseRemoves, ReleaseGivenUp, Close, Crash,
     envVars
<1>4. ASSUME NEW p \in Servers, Signal(p) PROVE late' = late /\ (hasty => hasty')
  BY <1>4 DEF Signal
<1>5. CASE Tick \/ UNCHANGED vars
  BY <1>5 DEF Tick, vars, envVars
<1> QED
  BY <1>1, <1>2, <1>3, <1>4, <1>5 DEF Next

\* In the beginning there is at most the lock of a server that crashed.
LEMMA InitTimed == ASSUME Init PROVE Timed
<1>0. \A p \in Servers : ~Names(lock, p)
  <2>1. CASE lock = Absent
    BY <2>1 DEF Names
  <2>2. CASE lock = [owner |-> Former, renewals |-> 0]
    BY <2>2, LockAssumption DEF Names
  <2> QED
    BY <2>1, <2>2 DEF Init
<1>1. \A p \in Servers : pc[p] = "down" /\ renewing[p] = "no" /\ ~Names(lock, p)
  BY <1>0 DEF Init
<1>2. \A p \in Servers : ~Works(p) /\ ~InFlight(p) /\ ~Busy(p) /\ ~Watching(p) /\ ~Renews(p) /\ Local(p)
  BY <1>1 DEF Works, InFlight, Busy, Watching, Renews, Local, Leasing
<1>3. Solo /\ Named /\ Confirming /\ Overwriting /\ Unrenewed
  BY <1>1, <1>2 DEF Solo, Named, Confirming, Overwriting, Unrenewed
<1>4. Echo /\ Outlasts /\ Counts
  BY <1>2 DEF Echo, Outlasts, OutlastsOf, Counts, CountOf
<1> QED
  BY <1>2, <1>3, <1>4 DEF Timed

\* I50, D216: while none is late and none is told to stop before its first
\* renewal, at most one server works on a root, for any number of servers and of
\* hosts, any races for a lock and any crashes, when the times are as Timely says.
THEOREM OneServerPerRoot ==
  ASSUME Timely
  PROVE  Spec => []RootExclusive
<1>1. Init => LockInv
  <2> SUFFICES ASSUME Init PROVE LockInv
    OBVIOUS
  <2>1. TypeInv
    BY InitTypeInv
  <2> QED
    BY <2>1, InitTimed DEF LockInv
<1>2. LockInv /\ [Next]_vars => LockInv'
  <2> SUFFICES ASSUME LockInv, [Next]_vars PROVE LockInv'
    OBVIOUS
  <2>1. TypeInv /\ TypeInv'
    BY NextTypeInv DEF LockInv
  <2>2. ASSUME late' = {}, ~hasty' PROVE Timed'
    <3>1. late = {} /\ ~hasty
      BY <2>2, Histories
    <3>2. Timed
      BY <3>1 DEF LockInv
    <3> QED
      BY <2>1, <2>2, <3>1, <3>2, NextTimed
  <2> QED
    BY <2>1, <2>2 DEF LockInv
<1>3. LockInv => RootExclusive
  BY DEF LockInv, Timed, Solo, RootExclusive, Holds, Works
<1> QED
  BY <1>1, <1>2, <1>3, PTL DEF Spec
====
