---- MODULE Checkpoints ----
(***************************************************************************)
(* The shadow-git checkpoints of a session                                 *)
(* (extensions/checkpoints/index.ts): a commit of the workspace before     *)
(* each turn, with the manifest of what it ignores, and the restore, with  *)
(* its protected set, its preflight, its safety commit, git's read-tree    *)
(* and the verification behind it.                                         *)
(*                                                                         *)
(* The session's slot keeps turns and restores apart (SessionTurn); nobody *)
(* else edits the workspace during a restore.  A file is a path and its    *)
(* content, the .gitignore is `rules`, and a content stands for a file's   *)
(* size and times too.  A directory of Repos is, as long as there is a     *)
(* file in it, a repository of its own, of which git stages no file but    *)
(* one gitlink, and a content of Dangling is a link to nothing.  Any git   *)
(* command may fail, and the server may die behind any.                    *)
(***************************************************************************)
EXTENDS Naturals, Sequences, SequencesExt, Functions

CONSTANTS
  Paths,       \* sequences of names
  Ignorable,   \* the paths a .gitignore may name
  Repos,       \* of Paths, the directories that are repositories of their own
  Contents,
  Dangling,    \* of them the links to nothing
  Gitlink,     \* what stands in a tree for a repository, at whatever commit
  MaxCommits   \* bound: checkpoints

ASSUME PathsAssumption == \A p \in Paths \cup Ignorable : p \in Seq(STRING)
ASSUME ReposAssumption == Repos \subseteq Paths /\ \A q, r \in Repos : IsPrefix(r, q) => q = r
ASSUME ContentsAssumption == Dangling \subseteq Contents /\ Gitlink \notin Contents

VARIABLES
  files,       \* the workspace: contents by path
  rules,       \* the paths its .gitignore names
  index,       \* what git tracks: contents by path
  commits,     \* oldest first
  step,        \* of a restore: its next command, or "idle"
  target, protectedSet,
  result,      \* what the last restore returned
  before       \* history: the workspace as it was when the restore began

workVars == <<files, rules>>
vars == <<workVars, index, commits, step, target, protectedSet, result, before>>

Beneath(p, entry) == IsPrefix(entry, p)
Ignored(p, named) == \E d \in named : Beneath(p, d)
Returned(code) == [code |-> code, exposed |-> {}, known |-> FALSE, unreached |-> {}]

\* A file and a directory cannot have one name.
IsWorkspace(fs) == \A p, q \in DOMAIN fs : Beneath(p, q) => p = q
Workspaces == UNION {[ps -> Contents] : ps \in SUBSET Paths}

\* What git sees of a path: the repository it lies in, or itself.
Within(p, r) == p # r /\ Beneath(p, r)
InRepo(p) == \E r \in Repos : Within(p, r)
Unit(p) == IF InRepo(p) THEN CHOOSE r \in Repos : Within(p, r) ELSE p
Units == {p \in Paths : ~InRepo(p)}
Trees == UNION {[us -> Contents \cup {Gitlink}] : us \in SUBSET Units}

Init ==
  /\ files \in Workspaces /\ IsWorkspace(files)
  /\ rules \in SUBSET Ignorable
  /\ index = << >> /\ commits = << >>
  /\ step = "idle" /\ target = 0 /\ protectedSet = {}
  /\ result = Returned("none")
  /\ before = [files |-> files, rules |-> rules]

Room == Len(commits) < MaxCommits
\* An edit or a commit is behind whatever was restored.
Afresh ==
  /\ before' = [files |-> files', rules |-> rules']
  /\ target' = 0 /\ protectedSet' = {} /\ result' = Returned("none")

(***************************************************************************)
(* git.  `status --ignored=matching` names the untracked paths the rules   *)
(* ignore; a directory they name is one entry, unless git tracks something *)
(* in it.  A path whose stat fails is left out.                            *)
(***************************************************************************)
Seen == {Unit(p) : p \in DOMAIN files}
Inside(d, ps) == {p \in ps : Within(p, d)}
StatFails(u) == u \in DOMAIN files /\ files[u] \in Dangling
\* A directory is compared by its mtime: by the names in it.
Entry(u) ==
  [path |-> u,
   holds |-> {SubSeq(p, 1, Len(u) + 1) : p \in Inside(u, DOMAIN files)},
   content |-> {files[p] : p \in {u} \cap DOMAIN files}]
listIgnoredEntries ==
  LET dirs == {d \in rules : Inside(d, Seen) # {} /\ Inside(d, DOMAIN index) = {}}
      alone == {u \in Seen \ DOMAIN index :
                  Ignored(u, rules) /\ ~StatFails(u) /\ ~\E d \in dirs : Beneath(u, d)}
  IN {Entry(u) : u \in dirs \cup alone}

\* add -A: what is tracked stays tracked, whatever the rules say now, and so
\* may the gitlink of a repository whose directory is there, but empty.
Emptied ==
  {r \in DOMAIN index : /\ index[r] = Gitlink
                        /\ \A u \in Seen : ~Beneath(u, r) /\ ~Beneath(r, u)}
Staged(empty) ==
  [u \in {v \in Seen : v \in DOMAIN index \/ ~Ignored(v, rules)} \cup empty |->
     IF u \in DOMAIN files THEN files[u] ELSE Gitlink]
Commit(tree, entries, captured) ==
  [tree |-> tree, rules |-> rules, captured |-> captured,
   ignored |-> IF captured THEN entries ELSE {}]

\* doCommit: it fails with nothing done, or with all staged, or it commits;
\* the manifest is captured or not.  What follows the commit may fail too.
Stages == \E empty \in SUBSET Emptied : index' = Staged(empty)
CommitFails == (Stages \/ UNCHANGED index) /\ UNCHANGED commits
Commits(entries) ==
  /\ Stages
  /\ \E captured \in BOOLEAN :
       commits' = Append(commits, Commit(index', entries, captured))

\* commit: the checkpoint before a turn.
Checkpoint ==
  /\ step = "idle" /\ Room
  /\ CommitFails \/ Commits(listIgnoredEntries)
  /\ UNCHANGED <<workVars, step>>
  /\ Afresh

\* The agent at work, between two checkpoints.
Write(p, c) ==
  /\ step = "idle" /\ Room
  /\ files' = [q \in DOMAIN files \cup {p} |-> IF q = p THEN c ELSE files[q]]
  /\ IsWorkspace(files')
  /\ UNCHANGED <<rules, index, commits, step>>
  /\ Afresh
Delete(p) ==
  /\ step = "idle" /\ Room
  /\ p \in DOMAIN files
  /\ files' = Restrict(files, DOMAIN files \ {p})
  /\ UNCHANGED <<rules, index, commits, step>>
  /\ Afresh
EditRules(named) ==
  /\ step = "idle" /\ Room
  /\ rules' = named
  /\ UNCHANGED <<files, index, commits, step>>
  /\ Afresh

(***************************************************************************)
(* restore.                                                                *)
(***************************************************************************)
Held(p) == \E e \in protectedSet : Beneath(p, e.path)
Fails(code) == step' = "idle" /\ result' = Returned(code)

\* The checkpoint exists, and the protected set is read, or the restore is
\* refused.
Restore(sha) ==
  /\ step = "idle" /\ Room
  /\ before' = [files |-> files, rules |-> rules]
  /\ \/ /\ sha \in DOMAIN commits
        /\ target' = sha /\ protectedSet' = listIgnoredEntries
        /\ step' = "preflight" /\ result' = Returned("none")
     \/ Fails("refused") /\ target' = 0 /\ protectedSet' = {}
  /\ UNCHANGED <<workVars, index, commits>>

\* Nothing in the target's tree is at, above or beneath a protected path.
EqualOnly(tree) == {e \in protectedSet : e.path \in DOMAIN tree}
Collisions(tree) ==
  {e \in protectedSet : \E p \in DOMAIN tree : Beneath(p, e.path) \/ Beneath(e.path, p)}
Preflight ==
  /\ step = "preflight"
  /\ \/ /\ Collisions(commits[target].tree) = {}
        /\ step' = "safety" /\ UNCHANGED result
     \/ /\ protectedSet # {}
        /\ Fails("refused")
  /\ UNCHANGED <<workVars, index, commits, target, protectedSet, before>>

\* The safety checkpoint: the workspace as it is, with the set just read.
SafetyCommit ==
  /\ step = "safety"
  /\ \/ Commits(protectedSet) /\ (Fails("commit_failed") \/ (step' = "reset" /\ UNCHANGED result))
     \/ CommitFails /\ Fails("commit_failed")
  /\ UNCHANGED <<workVars, target, protectedSet, before>>

\* read-tree --reset -u: makes index and workspace the target's, over whatever
\* is in the way, a repository too; what it does not track it leaves.  A gitlink
\* is written as a directory, which leaves the one that is there.  It may fail
\* on the way, or succeed and leave some of it undone, as in a directory it
\* cannot remove.
Overwrites(q, tree, p) == Beneath(q, p) \/ (Beneath(p, q) /\ tree[q] # Gitlink)
Written(done, tree) ==
  LET written == done \cap DOMAIN tree
      new == {q \in written : tree[q] # Gitlink}
      kept == {p \in DOMAIN files \ done : ~\E q \in written : Overwrites(q, tree, p)}
  IN [p \in new \cup kept |-> IF p \in new THEN tree[p] ELSE files[p]]
ReadTree ==
  LET tree == commits[target].tree
  IN /\ step = "reset"
     /\ \E done \in SUBSET (DOMAIN index \cup DOMAIN tree) : files' = Written(done, tree)
     /\ IsWorkspace(files')
     /\ rules' \in {rules, commits[target].rules}
     /\ \/ index' = tree /\ step' = "verify" /\ UNCHANGED result
        \/ UNCHANGED index /\ Fails("restore_incomplete")
     /\ UNCHANGED <<commits, target, protectedSet, before>>

\* diff --quiet, of a repository at most its commit, and ls-files --others under
\* the rules that are there now.
Differs(t) ==
  \/ rules # t.rules
  \/ \E u \in DOMAIN t.tree :
       IF t.tree[u] = Gitlink THEN u \in DOMAIN files
       ELSE u \notin DOMAIN files \/ files[u] # t.tree[u]
Others == {u \in Seen \ DOMAIN index : ~Ignored(u, rules)}
\* Variant: git's exit code is believed.
NothingLeft == {}
Leftover == {u \in Others : ~Held(u)}
Exposed == {e.path : e \in {h \in protectedSet : \E u \in Others : Beneath(u, h.path)}}

\* computeUnreached: the entries that differ from the target's manifest.
Unreached(t) ==
  LET now == listIgnoredEntries
  IN {e.path : e \in (now \ t.ignored) \cup (t.ignored \ now)}
Verify ==
  LET t == commits[target]
  IN /\ step = "verify"
     /\ \/ Fails("restore_incomplete")
        \/ /\ ~Differs(t) /\ Leftover = {}
           /\ step' = "idle"
           /\ \E known \in {FALSE, t.captured} :
                result' = [code |-> "restored", exposed |-> Exposed, known |-> known,
                           unreached |-> IF known THEN Unreached(t) ELSE {}]
     /\ UNCHANGED <<workVars, index, commits, target, protectedSet, before>>

\* The server dies; its next life knows nothing of the restore.
Crash ==
  /\ step # "idle"
  /\ Fails("none")
  /\ UNCHANGED <<workVars, index, commits, target, protectedSet, before>>

Next ==
  \/ Checkpoint
  \/ \E p \in Paths : Delete(p) \/ \E c \in Contents : Write(p, c)
  \/ \E named \in SUBSET Ignorable : EditRules(named)
  \/ \E sha \in 1..MaxCommits : Restore(sha)
  \/ Preflight \/ SafetyCommit \/ ReadTree \/ Verify \/ Crash

Spec == Init /\ [][Next]_vars

\* An entry of git's list of what it ignores, and a commit.
Entries == [path : {p \in Paths \cup Ignorable : ~InRepo(p)},
            holds : SUBSET Seq(STRING), content : SUBSET Contents]
Checkpointed == [tree : Trees, rules : SUBSET Ignorable, captured : BOOLEAN,
                 ignored : SUBSET Entries]

TypeOK ==
  /\ files \in Workspaces /\ IsWorkspace(files) /\ rules \in SUBSET Ignorable
  /\ index \in Trees
  /\ commits \in Seq(Checkpointed)
  /\ step \in {"idle", "preflight", "safety", "reset", "verify"}
  /\ target \in 0..Len(commits)
  /\ protectedSet \in SUBSET Entries
  /\ result \in [code : {"none", "refused", "commit_failed", "restore_incomplete", "restored"},
                  exposed : SUBSET (Paths \cup Ignorable), known : BOOLEAN,
                  unreached : SUBSET (Paths \cup Ignorable)]
  /\ before \in [files : Workspaces, rules : SUBSET Ignorable]

\* What no commit has and no entry protects: the files of a repository whose
\* gitlink is in the tree, and an ignored link to nothing.
Unkept(p, tree) ==
  \/ InRepo(p) /\ Unit(p) \in DOMAIN tree /\ tree[Unit(p)] = Gitlink
  \/ before.files[p] \in Dangling /\ Ignored(p, before.rules) /\ p \notin DOMAIN tree
Stands(p) == p \in DOMAIN files /\ files[p] = before.files[p]

\* I77 and D31: wherever a restore fails, is refused or is cut short, and if it
\* succeeds, every file the workspace's own rules protected is as it was, and
\* none appeared beside it; the rest is untouched, or is in the safety commit,
\* which has nothing else.  But for the files of an embedded repository, of which
\* the commit has a gitlink, and the ignored links to nothing: they stand unless
\* the target has a path in their way (checkpoints/index.ts:116-135, 299-335).
NothingIsLost ==
  /\ \A p \in Paths : Held(p) =>
       /\ (p \in DOMAIN files) = (p \in DOMAIN before.files)
       /\ p \in DOMAIN files => files[p] = before.files[p]
  /\ \/ files = before.files /\ rules = before.rules
     \/ LET safety == commits[Len(commits)]
            t == commits[target]
        IN /\ safety.rules = before.rules
           /\ \A p \in DOMAIN before.files :
                \/ Held(p)
                \/ p \in DOMAIN safety.tree /\ safety.tree[p] = before.files[p]
                \/ /\ Unkept(p, safety.tree)
                   /\ Stands(p) \/ \E q \in DOMAIN t.tree : Overwrites(q, t.tree, p)
           /\ \A u \in DOMAIN safety.tree :
                \/ safety.tree[u] = Gitlink
                \/ /\ u \in DOMAIN before.files /\ ~Held(u)
                   /\ safety.tree[u] = before.files[u]

\* What a restore reports is so.  Refused: nothing has changed.  Restored: the
\* target's files are there; of the others each was protected, or lies in a
\* repository whose gitlink the target has, or the rules hide it, and then the
\* report names it, if there is one and it is no link to nothing, or the target
\* had it as well; and the exposed entries are those git would now take up
\* (checkpoints/index.ts:338-375, I58, D277).
RestoreTells ==
  /\ result.code = "refused" => files = before.files /\ rules = before.rules
  /\ result.code = "restored" =>
       LET t == commits[target]
           said == result.unreached \cup {e.path : e \in t.ignored}
       IN /\ ~Differs(t)
          /\ \A p \in DOMAIN files \ DOMAIN t.tree :
               \/ Held(p)
               \/ InRepo(p) /\ Unit(p) \in DOMAIN t.tree
               \/ /\ Ignored(Unit(p), t.rules)
                  /\ result.known => \/ \E path \in said : Beneath(p, path)
                                     \/ files[p] \in Dangling
          /\ result.exposed =
               {e.path : e \in {h \in protectedSet :
                  \E p \in DOMAIN files : Beneath(p, h.path) /\ ~Ignored(Unit(p), rules)}}

\* Refuted.  D31 as the code words it: behind a restore every file the workspace
\* had is still there, or is in the safety commit (checkpoints/index.ts:319-321).
RestoreIsRecoverable ==
  result.code = "restored" =>
    LET safety == commits[Len(commits)]
    IN \A p \in DOMAIN before.files :
         \/ Stands(p)
         \/ p \in DOMAIN safety.tree /\ safety.tree[p] = before.files[p]

\* Refuted.  I77 as its comment words it: a path the workspace's rules ignored as
\* the restore started, and git did not track, is as it was
\* (checkpoints/index.ts:299-303).
IgnoredStands ==
  result.code = "restored" =>
    LET safety == commits[Len(commits)]
    IN \A p \in DOMAIN before.files :
         Ignored(p, before.rules) /\ ~InRepo(p) /\ p \notin DOMAIN safety.tree => Stands(p)
====
