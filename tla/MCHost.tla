---- MODULE MCHost ----
(***************************************************************************)
(* Four parts of a server that share neither state nor files: the          *)
(* processes it finds when it boots, the requisitions, the reviews, and    *)
(* what the session manager appends to a session's log.  A behaviour runs  *)
(* one of them; the others stay as they begin.                             *)
(*                                                                         *)
(* For ProcessReap: two machines that are alike, and one pid they both     *)
(* hand out.                                                               *)
(***************************************************************************)
EXTENDS ProcessReap, Records, TLC

CONSTANTS
  Items, TokenBudget, WarnLine, Burns, MaxEvents, MaxRefusals

ASSUME EventsAssumption == TokenBudget \in Nat /\ WarnLine \in Nat /\ Burns \subseteq Nat

VARIABLES
  part,
  session, endedAt, log, durable, failed, turn, claims, told, checks, check, refusals

E == INSTANCE HostEvents

eventVars == <<
  session, endedAt, log, durable, failed, turn, claims, told, checks, check, refusals>>
allVars == <<reapVars, part, vars, eventVars>>

Alike == Permutations(Hosts) \cup Permutations(Reqs)

HostInit == part \in {"reap", "requisitions", "reviews", "events"} /\ ReapInit /\ Init /\ E!Init
HostNext ==
  /\ UNCHANGED part
  /\ \/ part = "reap" /\ ReapNext /\ UNCHANGED <<vars, eventVars>>
     \/ part = "requisitions" /\ Next /\ UNCHANGED <<revVars, reapVars, eventVars>>
     \/ part = "reviews" /\ Next /\ UNCHANGED <<reqVars, reapVars, eventVars>>
     \/ part = "events" /\ E!Next /\ UNCHANGED <<reapVars, vars>>

HostSpec == HostInit /\ [][HostNext]_allVars

\* The properties of HostEvents, by their own names.
ItemCompletedOnce == E!ItemCompletedOnce
NoticeFollowsCrossing == E!NoticeFollowsCrossing
IdleIsBetweenTurns == E!IdleIsBetweenTurns
====
