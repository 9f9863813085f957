---- MODULE Reviews ----
(***************************************************************************)
(* Reviews (records/index.ts): a draft its author edits and finalises.     *)
(* Every mutation is a line of reviews.ndjson that is synced before it     *)
(* returns, and `reviewMutating` admits one mutation of a review at a time.*)
(* A revision stands for a review's rating, badge and body.                *)
(***************************************************************************)
EXTENDS AppendLog

CONSTANTS
  Revs,         \* review ids
  MaxRevisions  \* bound: mutations attempted per review

VARIABLES
  revLog,       \* reviews.ndjson
  revs,         \* the registry: id -> record
  revAppends,   \* lines being appended; their ids are reviewMutating
  tried,        \* revisions attempted so far
  finalised,    \* history: id -> the revision its author was told is final
  revGlued      \* history: ids that lost a line to a fragment before it

revVars == <<revLog, revs, revAppends, tried, finalised, revGlued>>

Review(r, state, revision) == [id |-> r, state |-> state, revision |-> revision]

RevInit ==
  /\ revLog = EmptyLog
  /\ revs = << >>
  /\ revAppends = {}
  /\ tried = [r \in Revs |-> 0]
  /\ finalised = [r \in Revs |-> 0]
  /\ revGlued = {}

Mutating(r) == \E line \in revAppends : line.id = r

\* A mutation is tried: its line is on its way to the file.
Mutation(r, state) ==
  /\ tried[r] < MaxRevisions
  /\ tried' = [tried EXCEPT ![r] = @ + 1]
  /\ revAppends' = revAppends \cup {Review(r, state, tried'[r])}
  /\ UNCHANGED <<revLog, revs, finalised, revGlued>>

CreateReview(r) ==
  /\ r \notin DOMAIN revs
  /\ ~Mutating(r)
  /\ Mutation(r, "draft")

MutableWhenDraft(r) == revs[r].state = "draft"
Mutable(r) == revs[r].state = "draft" /\ ~Mutating(r)
AppendReview(r) ==
  /\ r \in DOMAIN revs
  /\ Mutable(r)
  /\ Mutation(r, "draft")
FinaliseReview(r) ==
  /\ r \in DOMAIN revs
  /\ Mutable(r)
  /\ Mutation(r, "final")

RevReturns(line, out) ==
  /\ revAppends' = revAppends \ {line}
  /\ revLog' = out.log
  /\ revs' = IF out.ok
             THEN [r \in DOMAIN revs \cup {line.id} |-> IF r = line.id THEN line ELSE revs[r]]
             ELSE revs
  /\ finalised' = IF out.ok /\ line.state = "final"
                  THEN [finalised EXCEPT ![line.id] = line.revision] ELSE finalised
  /\ revGlued' = IF out.ok /\ Glues(revLog) THEN revGlued \cup {line.id} ELSE revGlued
  /\ UNCHANGED tried

RevCrash ==
  /\ revLog' \in Interrupted(revLog, revAppends)
  /\ revs' = << >>
  /\ revAppends' = {}
  /\ UNCHANGED <<tried, finalised, revGlued>>
RevBoot ==
  /\ revs' = [r \in Ids(revLog) |-> Latest(revLog, r)]
  /\ UNCHANGED <<revLog, revAppends, tried, finalised, revGlued>>

\* I29: a review its author was told is final reads back as that revision for
\* ever: no edit races past it and no restart reverts it, as long as no line
\* of it was glued to a fragment (records/index.ts:236-281).
FinalStays ==
  \A r \in DOMAIN revs \ revGlued :
    finalised[r] # 0 => revs[r].state = "final" /\ revs[r].revision = finalised[r]

\* store/index.ts:122-123: "a torn tail must never revert an acknowledged
\* `final` review back to `draft` (I29)".
TornTailKeepsFinal ==
  \A r \in DOMAIN revs : finalised[r] # 0 => revs[r].state = "final"
====
