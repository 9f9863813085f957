---- MODULE Records ----
(***************************************************************************)
(* The records component: requisitions and reviews side by side, over two  *)
(* files of one server that crashes and boots.  What a creation does with  *)
(* a requisition is here the calls it makes; CreateSession has the rest.   *)
(***************************************************************************)
EXTENDS Requisitions, Reviews

CONSTANTS
  Sessions,
  MaxCrashes   \* bound

VARIABLES up, crashes

vars == <<reqVars, revVars, up, crashes>>

Init == ReqInit /\ RevInit /\ up = TRUE /\ crashes = 0

\* A creation claims, and its unwind gives the claim back or its commit
\* consumes the requisition, never both at once.
Claims(r) == Claimable(r) /\ ClaimReq(r)
Holds(r) == r \in reserved /\ \A a \in reqAppends : a.line.id # r
GivesBack(r) == Holds(r) /\ ReleaseReq(r)
Consumes(r, s) == Holds(r) /\ AttachSession(r, s)

RequisitionStep ==
  \/ \E r \in Reqs : Raise(r) \/ \E v \in Verdicts : Decide(r, v)
  \/ \E r \in Reqs : Claims(r) \/ GivesBack(r) \/ \E s \in Sessions : Consumes(r, s)
  \/ \E a \in reqAppends : \E out \in Appends(reqLog, a.line, FALSE) : ReqReturns(a, out)
ReviewStep ==
  \/ \E r \in Revs : CreateReview(r) \/ AppendReview(r) \/ FinaliseReview(r)
  \/ \E line \in revAppends : \E out \in Appends(revLog, line, TRUE) : RevReturns(line, out)

\* A server-wide crash takes both registries.
Crash ==
  /\ up /\ crashes < MaxCrashes
  /\ up' = FALSE /\ crashes' = crashes + 1
  /\ ReqCrash /\ RevCrash
\* records.boot: reads both logs before anything is served.
Boot ==
  /\ ~up
  /\ up' = TRUE
  /\ ReqBoot /\ RevBoot
  /\ UNCHANGED crashes

Next ==
  \/ up /\ RequisitionStep /\ UNCHANGED <<revVars, up, crashes>>
  \/ up /\ ReviewStep /\ UNCHANGED <<reqVars, up, crashes>>
  \/ Crash
  \/ Boot

Spec == Init /\ [][Next]_vars

\* The lines of the two files, and the functions from some of a set.
ReqLines == [id : Reqs, state : Verdicts \cup {"open", "consumed"},
             session : Sessions \cup {NoSession}]
RevLines == [id : Revs, state : {"draft", "final"}, revision : Nat]
Some(ids, values) == UNION {[part -> values] : part \in SUBSET ids}

ReqTypeOK ==
  /\ reqLog \in [lines : Seq(ReqLines), torn : BOOLEAN]
  /\ reqs \in Some(Reqs, ReqLines)
  /\ deciding \in Some(Reqs, Verdicts)
  /\ reserved \subseteq Reqs
  /\ reqAppends \subseteq [op : {"raise", "decide", "attach"}, line : ReqLines]
  /\ verdict \in [Reqs -> Verdicts \cup {"none"}]
  /\ reqGlued \subseteq Reqs
RevTypeOK ==
  /\ revLog \in [lines : Seq(RevLines), torn : BOOLEAN]
  /\ revs \in Some(Revs, RevLines)
  /\ revAppends \subseteq RevLines
  /\ tried \in [Revs -> Nat]
  /\ finalised \in [Revs -> Nat]
  /\ revGlued \subseteq Revs
TypeOK == up \in BOOLEAN /\ crashes \in Nat /\ ReqTypeOK /\ RevTypeOK
====
