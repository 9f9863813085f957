---- MODULE Neighbours_proofs ----
(***************************************************************************)
(* Proofs about the parts beside the core.  Checkpoints, for any set of    *)
(* paths, contents and ignore rules and any number of commits: its types,  *)
(* that a restore loses nothing whatever becomes of it, and that what it   *)
(* reports is so.  The Codex adapter, for any number of turns: every turn  *)
(* ends once, and an answer goes where one is awaited.  The subscriptions  *)
(* of the runtime link, for any number of them, any credit and budgets:    *)
(* what a host reads is the stream the core promises.  The console: what   *)
(* covers the page belongs to the session it shows.  And the audit panel,  *)
(* for any file and page size: its rows are those of one query.            *)
(***************************************************************************)
EXTENDS MCOperator, CodexAdapter, RpcSubscriptions, FunctionTheorems, SequenceTheorems,
        FiniteSetTheorems, WellFoundedInduction, TLAPS

---------------------------------------------------------------------------
(* Checkpoints.                                                             *)

Names == Paths \cup Ignorable

---------------------------------------------------------------------------
(* Paths. *)

\* One path lies beneath another when it begins with all of its names.
LEMMA BeneathIs ==
  ASSUME NEW p \in Names, NEW d \in Names
  PROVE  /\ Len(p) \in Nat /\ Len(d) \in Nat
         /\ Beneath(p, d) <=> Len(d) <= Len(p) /\ \A i \in 1..Len(d) : d[i] = p[i]
<1>1. p \in Seq(STRING) /\ d \in Seq(STRING)
  BY PathsAssumption DEF Names
<1>2. Len(p) \in Nat /\ Len(d) \in Nat
  BY <1>1
<1>3. ASSUME Len(d) <= Len(p)
      PROVE  SubSeq(d, 1, Len(d)) = SubSeq(p, 1, Len(d)) <=>
               \A i \in 1..Len(d) : d[i] = p[i]
  <2>1. /\ \A i \in 1..Len(d) : d[i] \in STRING
        /\ \A i \in 1..Len(d) : p[i] \in STRING
    BY <1>1, <1>2, <1>3, ElementOfSeq
  <2>2. /\ SubSeq(d, 1, Len(d)) \in Seq(STRING)
        /\ Len(SubSeq(d, 1, Len(d))) = Len(d)
        /\ \A i \in 1..Len(d) : SubSeq(d, 1, Len(d))[i] = d[i]
    BY <1>2, <2>1, SubSeqProperties
  <2>3. /\ SubSeq(p, 1, Len(d)) \in Seq(STRING)
        /\ Len(SubSeq(p, 1, Len(d))) = Len(d)
        /\ \A i \in 1..Len(d) : SubSeq(p, 1, Len(d))[i] = p[i]
    BY <1>2, <2>1, SubSeqProperties
  <2> QED
    BY <2>2, <2>3, SeqEqual
<1> QED
  BY <1>2, <1>3 DEF Beneath, IsPrefix

\* Lying beneath is reflexive, transitive and antisymmetric, and of two paths
\* one lies beneath, one lies beneath the other.
LEMMA BeneathOrder ==
  ASSUME NEW p \in Names, NEW d \in Names, NEW e \in Names
  PROVE  /\ Beneath(p, p)
         /\ Beneath(p, d) /\ Beneath(d, e) => Beneath(p, e)
         /\ Beneath(p, d) /\ Beneath(p, e) => Beneath(d, e) \/ Beneath(e, d)
         /\ Beneath(p, d) /\ Len(p) = Len(d) => p = d
         /\ Beneath(p, d) /\ Beneath(d, p) => p = d
<1>1. /\ Len(p) \in Nat /\ Len(d) \in Nat /\ Len(e) \in Nat
      /\ Beneath(p, p) <=> Len(p) <= Len(p) /\ \A i \in 1..Len(p) : p[i] = p[i]
      /\ Beneath(p, d) <=> Len(d) <= Len(p) /\ \A i \in 1..Len(d) : d[i] = p[i]
      /\ Beneath(p, e) <=> Len(e) <= Len(p) /\ \A i \in 1..Len(e) : e[i] = p[i]
      /\ Beneath(d, e) <=> Len(e) <= Len(d) /\ \A i \in 1..Len(e) : e[i] = d[i]
      /\ Beneath(e, d) <=> Len(d) <= Len(e) /\ \A i \in 1..Len(d) : d[i] = e[i]
  BY BeneathIs
<1>2. Beneath(p, d) /\ Len(p) = Len(d) => p = d
  <2>1. p \in Seq(STRING) /\ d \in Seq(STRING)
    BY PathsAssumption DEF Names
  <2> QED
    BY <1>1, <2>1, SeqEqual
<1>3. Beneath(p, d) /\ Beneath(d, p) => Len(p) = Len(d)
  BY BeneathIs
<1> QED
  BY <1>1, <1>2, <1>3

\* What git sees of a path is a path above it that lies in no repository.
LEMMA UnitIs ==
  ASSUME NEW p \in Paths
  PROVE  /\ Unit(p) \in Units /\ Unit(p) \in Names /\ ~InRepo(Unit(p))
         /\ Beneath(p, Unit(p))
         /\ InRepo(p) <=> Unit(p) # p
<1>1. CASE InRepo(p)
  <2>1. \E r \in Repos : Within(p, r)
    BY <1>1 DEF InRepo
  <2>2. Unit(p) \in Repos /\ Within(p, Unit(p))
    BY <1>1, <2>1 DEF Unit
  <2>3. ~InRepo(Unit(p))
    BY <2>2, ReposAssumption DEF InRepo, Within, Beneath
  <2> QED
    BY <1>1, <2>2, <2>3, ReposAssumption DEF Within, Units, Names
<1>2. CASE ~InRepo(p)
  <2>1. Unit(p) = p
    BY <1>2 DEF Unit
  <2> QED
    BY <1>2, <2>1, BeneathOrder DEF Units, Names
<1> QED
  BY <1>1, <1>2

\* What is no repository's lies above a path when it lies above what git sees.
LEMMA UnitBeneath ==
  ASSUME NEW p \in Paths, NEW d \in Names, ~InRepo(d)
  PROVE  Beneath(p, d) <=> Beneath(Unit(p), d)
<1>1. p \in Names /\ Unit(p) \in Names /\ Beneath(p, Unit(p))
  BY UnitIs DEF Names
<1>2. Beneath(Unit(p), d) => Beneath(p, d)
  BY <1>1, BeneathOrder
<1>3. ASSUME Beneath(p, d), InRepo(p)
      PROVE  Beneath(Unit(p), d)
  <2>1. Unit(p) \in Repos
    BY <1>3 DEF InRepo, Unit
  <2>2. Beneath(d, Unit(p)) => d = Unit(p)
    BY <2>1 DEF InRepo, Within
  <2>3. Beneath(d, Unit(p)) \/ Beneath(Unit(p), d)
    BY <1>1, <1>3, BeneathOrder
  <2> QED
    BY <1>1, <2>2, <2>3, BeneathOrder
<1>4. ~InRepo(p) => Unit(p) = p
  BY UnitIs
<1> QED
  BY <1>2, <1>3, <1>4

---------------------------------------------------------------------------
(* What git lists and what it stages. *)

\* What git sees of a workspace: of two units none lies beneath the other, and a
\* unit that is a file is one's own.
LEMMA SeenIsWorkspace ==
  ASSUME TypeOK
  PROVE  /\ Seen \subseteq Units /\ Units \subseteq Names
         /\ \A u \in Seen : ~InRepo(u)
         /\ \A u, v \in Seen : Beneath(u, v) => u = v
         /\ \A p \in DOMAIN files : Unit(p) \in DOMAIN files => Unit(p) = p
<1>1. DOMAIN files \subseteq Paths /\ IsWorkspace(files)
  BY DEF TypeOK, Workspaces
<1>2. Seen \subseteq Units /\ Units \subseteq Names /\ \A u \in Seen : ~InRepo(u)
  BY <1>1, UnitIs DEF Seen, Units, Names
<1>3. \A p \in DOMAIN files : Unit(p) \in DOMAIN files => Unit(p) = p
  BY <1>1, UnitIs DEF IsWorkspace
<1>4. ASSUME NEW u \in Seen, NEW v \in Seen, Beneath(u, v)
      PROVE  u = v
  <2>1. PICK p \in DOMAIN files : u = Unit(p)
    BY DEF Seen
  <2>2. PICK q \in DOMAIN files : v = Unit(q)
    BY DEF Seen
  <2>3. CASE v = q
    <3>1. Beneath(p, q)
      BY <1>1, <1>2, <1>4, <2>1, <2>3, UnitIs, BeneathOrder DEF Names
    <3> QED
      BY <1>1, <2>1, <2>2, <3>1 DEF IsWorkspace
  <2>4. CASE v # q
    <3>1. v \in Repos
      BY <1>1, <2>2, <2>4 DEF Unit, InRepo
    <3> QED
      BY <1>2, <1>4, <3>1 DEF InRepo, Within
  <2> QED
    BY <2>3, <2>4
<1> QED
  BY <1>2, <1>3, <1>4

\* A directory that holds something git sees lies in no repository.
LEMMA HolderIsOutside ==
  ASSUME TypeOK, NEW d \in Names, Inside(d, Seen) # {}
  PROVE  ~InRepo(d)
<1> SUFFICES ASSUME NEW r \in Repos, Within(d, r) PROVE FALSE
  BY DEF InRepo
<1>1. PICK u \in Seen : u # d /\ Beneath(u, d)
  BY DEF Inside, Within
<1>2. u \in Names /\ r \in Names /\ ~InRepo(u)
  BY SeenIsWorkspace, ReposAssumption DEF Names
<1>3. Beneath(u, r)
  BY <1>1, <1>2, BeneathOrder DEF Within
<1>4. u = r
  BY <1>2, <1>3 DEF InRepo, Within
<1> QED
  BY <1>1, <1>2, <1>4, BeneathOrder DEF Within

\* The entries git lists are of this workspace.
LEMMA EntriesType ==
  ASSUME TypeOK
  PROVE  listIgnoredEntries \in SUBSET Entries
<1>1. /\ DOMAIN files \subseteq Paths /\ rules \subseteq Ignorable
      /\ \A p \in DOMAIN files : files[p] \in Contents
  BY DEF TypeOK, Workspaces
<1>2. ASSUME NEW u \in Names, ~InRepo(u)
      PROVE  Entry(u) \in Entries
  <2>1. ASSUME NEW p \in Inside(u, DOMAIN files)
        PROVE  SubSeq(p, 1, Len(u) + 1) \in Seq(STRING)
    <3>1. p \in Paths /\ p \in Names /\ p # u /\ Beneath(p, u)
      BY <1>1 DEF Inside, Within, Names
    <3>2. /\ Len(u) \in Nat /\ Len(p) \in Nat /\ Len(u) <= Len(p) /\ Len(u) # Len(p)
      BY <3>1, BeneathIs, BeneathOrder
    <3>3. p \in Seq(STRING)
      BY <3>1, PathsAssumption
    <3>4. \A i \in 1..(Len(u) + 1) : p[i] \in STRING
      BY <3>2, <3>3, ElementOfSeq
    <3> QED
      BY <3>2, <3>3, <3>4, SubSeqProperties
  <2>2. {files[p] : p \in {u} \cap DOMAIN files} \subseteq Contents
    BY <1>1
  <2> QED
    BY <1>2, <2>1, <2>2 DEF Entry, Entries, Names
<1>3. \A d \in rules : Inside(d, Seen) # {} => d \in Names /\ ~InRepo(d)
  BY <1>1, HolderIsOutside DEF Names
<1>4. \A u \in Seen : u \in Names /\ ~InRepo(u)
  BY SeenIsWorkspace
<1> QED
  BY <1>2, <1>3, <1>4 DEF listIgnoredEntries

\* Of what git sees, the listed entries hold only what it neither tracks nor may
\* take up, a directory being listed as one only when git tracks nothing in it;
\* and all of that but the links to nothing.
LEMMA ListedIsIgnored ==
  ASSUME TypeOK, NEW u \in Seen
  PROVE  /\ (\E e \in listIgnoredEntries : Beneath(u, e.path)) =>
              u \notin DOMAIN index /\ Ignored(u, rules)
         /\ u \notin DOMAIN index /\ Ignored(u, rules) /\ ~StatFails(u) =>
              \E e \in listIgnoredEntries : Beneath(u, e.path)
<1> DEFINE dirs == {d \in rules : Inside(d, Seen) # {} /\ Inside(d, DOMAIN index) = {}}
           alone == {v \in Seen \ DOMAIN index :
                       Ignored(v, rules) /\ ~StatFails(v) /\ ~\E d \in dirs : Beneath(v, d)}
<1>1. (\E e \in listIgnoredEntries : Beneath(u, e.path)) <=>
        (\E d \in dirs : Beneath(u, d)) \/ (\E v \in alone : Beneath(u, v))
  <2>1. listIgnoredEntries = {Entry(v) : v \in dirs \cup alone}
    BY DEF listIgnoredEntries
  <2>2. \A v : Entry(v).path = v
    BY DEF Entry
  <2> HIDE DEF dirs, alone
  <2> QED
    BY <2>1, <2>2
<1>2. ASSUME NEW d \in dirs, Beneath(u, d)
      PROVE  u \notin DOMAIN index /\ Ignored(u, rules)
  <2>1. u # d
    <3> SUFFICES ASSUME u = d PROVE FALSE
      OBVIOUS
    <3>1. PICK v \in Seen : v # d /\ Beneath(v, d)
      BY <1>2 DEF Inside, Within
    <3> QED
      BY <3>1, SeenIsWorkspace
  <2> QED
    BY <1>2, <2>1 DEF Inside, Within, Ignored
<1>3. ASSUME NEW v \in alone, Beneath(u, v)
      PROVE  u \notin DOMAIN index /\ Ignored(u, rules)
  <2>1. u = v
    BY <1>3, SeenIsWorkspace
  <2> QED
    BY <1>3, <2>1
<1>4. ASSUME u \notin DOMAIN index, Ignored(u, rules), ~StatFails(u),
             ~\E d \in dirs : Beneath(u, d)
      PROVE  \E v \in alone : Beneath(u, v)
  <2>1. u \in alone
    BY <1>4
  <2>2. Beneath(u, u)
    BY SeenIsWorkspace, BeneathOrder
  <2> QED
    BY <2>1, <2>2
<1> QED
  BY <1>1, <1>2, <1>3, <1>4

\* The same of a file: what git sees of it is what the entries hold.
LEMMA ListedFile ==
  ASSUME TypeOK, NEW p \in DOMAIN files
  PROVE  (\E e \in listIgnoredEntries : Beneath(p, e.path)) <=>
           (\E e \in listIgnoredEntries : Beneath(Unit(p), e.path))
<1>1. p \in Paths
  BY DEF TypeOK, Workspaces
<1>2. \A e \in listIgnoredEntries : e.path \in Names /\ ~InRepo(e.path)
  BY EntriesType DEF Entries, Names
<1> QED
  BY <1>1, <1>2, UnitBeneath

\* No listed entry holds anything that is staged ...
LEMMA StagedIsUnheld ==
  ASSUME TypeOK, NEW empty \in SUBSET Emptied, NEW u \in DOMAIN Staged(empty)
  PROVE  ~\E e \in listIgnoredEntries : Beneath(u, e.path)
<1>1. CASE u \in Seen /\ (u \in DOMAIN index \/ ~Ignored(u, rules))
  BY <1>1, ListedIsIgnored
<1>2. CASE u \in Emptied
  <2>1. u \in DOMAIN index /\ \A v \in Seen : ~Beneath(v, u) /\ ~Beneath(u, v)
    BY <1>2 DEF Emptied
  <2>2. ASSUME NEW d \in rules, Inside(d, Seen) # {}, Inside(d, DOMAIN index) = {},
               Beneath(u, d)
        PROVE  FALSE
    <3>1. u = d
      BY <2>1, <2>2 DEF Inside, Within
    <3> QED
      BY <2>1, <2>2, <3>1 DEF Inside, Within
  <2>3. \A v : Entry(v).path = v
    BY DEF Entry
  <2> QED
    BY <2>1, <2>2, <2>3 DEF listIgnoredEntries
<1> QED
  BY <1>1, <1>2 DEF Staged

\* ... and what no entry holds is staged, but for the files of a repository, of
\* which a gitlink is, and the ignored links to nothing.
LEMMA UnheldIsStaged ==
  ASSUME TypeOK, NEW empty \in SUBSET Emptied, NEW p \in DOMAIN files,
         ~\E e \in listIgnoredEntries : Beneath(p, e.path)
  PROVE  LET tree == Staged(empty)
         IN \/ p \in DOMAIN tree /\ tree[p] = files[p]
            \/ InRepo(p) /\ Unit(p) \in DOMAIN tree /\ tree[Unit(p)] = Gitlink
            \/ files[p] \in Dangling /\ Ignored(p, rules) /\ p \notin DOMAIN tree
<1> DEFINE tree == Staged(empty)
<1>1. p \in Paths /\ Unit(p) \in Seen
  BY DEF TypeOK, Workspaces, Seen
<1>2. /\ InRepo(p) <=> Unit(p) # p
      /\ Unit(p) \in DOMAIN files => Unit(p) = p
  BY <1>1, UnitIs, SeenIsWorkspace
<1>3. CASE Unit(p) \in DOMAIN index \/ ~Ignored(Unit(p), rules)
  <2>1. /\ Unit(p) \in DOMAIN tree
        /\ tree[Unit(p)] = IF Unit(p) \in DOMAIN files THEN files[Unit(p)] ELSE Gitlink
    BY <1>1, <1>3 DEF Staged
  <2> QED
    BY <1>2, <2>1
<1>4. CASE Unit(p) \notin DOMAIN index /\ Ignored(Unit(p), rules)
  <2>1. StatFails(Unit(p))
    BY <1>1, <1>4, ListedFile, ListedIsIgnored
  <2>2. Unit(p) = p /\ files[p] \in Dangling
    BY <1>2, <2>1 DEF StatFails
  <2>3. p \notin DOMAIN tree
    BY <1>4, <2>2 DEF Staged, Emptied
  <2> QED
    BY <1>4, <2>2, <2>3
<1> QED
  BY <1>3, <1>4

\* A part of a workspace is one.
LEMMA PartOfWorkspace ==
  ASSUME NEW fs \in Workspaces, NEW ps \in SUBSET DOMAIN fs
  PROVE  /\ [p \in ps |-> fs[p]] \in Workspaces
         /\ IsWorkspace(fs) => IsWorkspace([p \in ps |-> fs[p]])
<1>1. PICK qs \in SUBSET Paths : fs \in [qs -> Contents]
  BY DEF Workspaces
<1>2. ps \in SUBSET Paths /\ [p \in ps |-> fs[p]] \in [ps -> Contents]
  BY <1>1
<1> QED
  BY <1>2 DEF Workspaces, IsWorkspace

---------------------------------------------------------------------------
(* The types. *)

\* A new session's state is of its types.
LEMMA InitType == Init => TypeOK
<1> SUFFICES ASSUME Init PROVE TypeOK
  OBVIOUS
<1>1. index \in Trees
  <2>1. << >> = [p \in {} |-> {}] /\ {} \subseteq Units
    OBVIOUS
  <2>2. << >> \in [{} -> Contents \cup {Gitlink}]
    BY <2>1
  <2> QED
    BY <2>1, <2>2 DEF Init, Trees
<1>2. commits = << >> /\ Len(commits) = 0
  BY DEF Init
<1> QED
  BY <1>1, <1>2 DEF Init, TypeOK, Returned

\* A commit that exists is one.
LEMMA CommitAt ==
  ASSUME commits \in Seq(Checkpointed), NEW i \in 1..Len(commits)
  PROVE  /\ commits[i] \in Checkpointed
         /\ commits[i].tree \in Trees /\ commits[i].rules \in SUBSET Ignorable
         /\ commits[i].captured \in BOOLEAN /\ commits[i].ignored \in SUBSET Entries
<1>1. commits[i] \in Checkpointed
  BY ElementOfSeq
<1> QED
  BY <1>1 DEF Checkpointed

\* What is staged is of its type.
LEMMA StagedType ==
  ASSUME TypeOK, NEW empty \in SUBSET Emptied
  PROVE  Staged(empty) \in Trees
<1> DEFINE us == {v \in Seen : v \in DOMAIN index \/ ~Ignored(v, rules)} \cup empty
<1>1. us \in SUBSET Units
  BY SeenIsWorkspace DEF TypeOK, Trees, Emptied
<1>2. \A u \in us : (IF u \in DOMAIN files THEN files[u] ELSE Gitlink) \in Contents \cup {Gitlink}
  BY DEF TypeOK, Workspaces
<1>3. Staged(empty) = [u \in us |-> IF u \in DOMAIN files THEN files[u] ELSE Gitlink]
  BY DEF Staged
<1> HIDE DEF us
<1>4. Staged(empty) \in [us -> Contents \cup {Gitlink}]
  BY <1>2, <1>3
<1> QED
  BY <1>1, <1>4 DEF Trees

\* A commit of what is staged is appended to the history, whether or not its
\* manifest is captured.
LEMMA CommitsType ==
  ASSUME TypeOK, NEW entries \in SUBSET Entries, Commits(entries)
  PROVE  /\ \E empty \in SUBSET Emptied : index' = Staged(empty)
         /\ index' \in Trees
         /\ commits' \in Seq(Checkpointed) /\ Len(commits') = Len(commits) + 1
         /\ \A i \in 1..Len(commits) : commits'[i] = commits[i]
         /\ commits'[Len(commits')].tree = index'
         /\ commits'[Len(commits')].rules = rules
<1>1. PICK captured \in BOOLEAN : commits' = Append(commits, Commit(index', entries, captured))
  BY DEF Commits
<1>2. PICK empty \in SUBSET Emptied : index' = Staged(empty)
  BY DEF Commits, Stages
<1>3. index' \in Trees
  BY <1>2, StagedType
<1>4. Commit(index', entries, captured) \in Checkpointed
  BY <1>3 DEF TypeOK, Commit, Checkpointed
<1>5. commits \in Seq(Checkpointed)
  BY DEF TypeOK
<1>6. /\ commits' \in Seq(Checkpointed) /\ Len(commits') = Len(commits) + 1
      /\ \A i \in 1..Len(commits) : commits'[i] = commits[i]
      /\ commits'[Len(commits) + 1] = Commit(index', entries, captured)
  BY <1>1, <1>4, <1>5, AppendProperties
<1> QED
  BY <1>2, <1>3, <1>6 DEF Commit

\* A failed commit may have staged everything.
LEMMA CommitFailsType ==
  ASSUME TypeOK, CommitFails
  PROVE  index' \in Trees /\ commits' = commits
BY StagedType DEF TypeOK, CommitFails, Stages

\* read-tree leaves files, those it wrote and those it left alone.
LEMMA WrittenType ==
  ASSUME TypeOK, NEW tree \in Trees, NEW done
  PROVE  Written(done, tree) \in Workspaces
<1> DEFINE written == done \cap DOMAIN tree
           new == {q \in written : tree[q] # Gitlink}
           kept == {p \in DOMAIN files \ done : ~\E q \in written : Overwrites(q, tree, p)}
<1>1. /\ DOMAIN tree \subseteq Paths /\ DOMAIN files \subseteq Paths
      /\ \A p \in DOMAIN tree : tree[p] \in Contents \cup {Gitlink}
      /\ \A p \in DOMAIN files : files[p] \in Contents
  BY DEF TypeOK, Trees, Workspaces, Units
<1>2. new \cup kept \in SUBSET Paths
  BY <1>1
<1>3. ASSUME NEW p \in new \cup kept
      PROVE  (IF p \in new THEN tree[p] ELSE files[p]) \in Contents
  BY <1>1
<1>4. Written(done, tree) = [p \in new \cup kept |-> IF p \in new THEN tree[p] ELSE files[p]]
  BY DEF Written
<1> HIDE DEF written, new, kept
<1>5. Written(done, tree) \in [new \cup kept -> Contents]
  BY <1>3, <1>4
<1> QED
  BY <1>2, <1>5 DEF Workspaces

\* What a restore returns is of its type, with or without a report.
LEMMA ReturnedType ==
  ASSUME NEW code \in {"none", "refused", "commit_failed", "restore_incomplete"}
  PROVE  Returned(code) \in
           [code : {"none", "refused", "commit_failed", "restore_incomplete", "restored"},
            exposed : SUBSET Names, known : BOOLEAN, unreached : SUBSET Names]
BY DEF Returned

\* Every step between restores keeps the types.
LEMMA WorkType ==
  ASSUME TypeOK,
         \/ Checkpoint
         \/ \E p \in Paths : Delete(p) \/ \E c \in Contents : Write(p, c)
         \/ \E named \in SUBSET Ignorable : EditRules(named)
  PROVE  TypeOK'
<1>1. Afresh /\ step' = step
  BY DEF Checkpoint, Delete, Write, EditRules
<1>2. /\ files' \in Workspaces /\ IsWorkspace(files)' /\ rules' \in SUBSET Ignorable
      /\ index' \in Trees /\ commits' \in Seq(Checkpointed)
  <2>1. CASE Checkpoint
    BY <2>1, CommitsType, CommitFailsType, EntriesType DEF Checkpoint, workVars, TypeOK
  <2>2. CASE \E p \in Paths : Delete(p)
    <3>1. PICK p \in Paths : Delete(p)
      BY <2>2
    <3>2. files' = [q \in DOMAIN files \ {p} |-> files[q]] /\ DOMAIN files \ {p} \subseteq DOMAIN files
      BY <3>1 DEF Delete, Restrict
    <3>3. files' \in Workspaces /\ IsWorkspace(files')
      BY <3>2, PartOfWorkspace DEF TypeOK
    <3> QED
      BY <3>1, <3>3 DEF Delete, TypeOK
  <2>3. CASE \E p \in Paths : \E c \in Contents : Write(p, c)
    <3>1. PICK p \in Paths, c \in Contents : Write(p, c)
      BY <2>3
    <3>2. PICK ps \in SUBSET Paths : files \in [ps -> Contents]
      BY DEF TypeOK, Workspaces
    <3>3. files' \in [ps \cup {p} -> Contents] /\ ps \cup {p} \in SUBSET Paths
      BY <3>1, <3>2 DEF Write
    <3>4. files' \in Workspaces
      BY <3>3 DEF Workspaces
    <3>5. IsWorkspace(files) /\ rules \in SUBSET Ignorable /\ index \in Trees
          /\ commits \in Seq(Checkpointed)
      BY DEF TypeOK
    <3> QED
      BY <3>1, <3>4, <3>5 DEF Write
  <2>4. CASE \E named \in SUBSET Ignorable : EditRules(named)
    BY <2>4 DEF EditRules, TypeOK
  <2> QED
    BY <2>1, <2>2, <2>3, <2>4
<1>3. 0 \in 0..Len(commits)'
  BY <1>2
<1>4. target' = 0 /\ protectedSet' = {} /\ result' = Returned("none")
      /\ before' = [files |-> files', rules |-> rules']
  BY <1>1 DEF Afresh
<1>5. before' \in [files : Workspaces, rules : SUBSET Ignorable]
  BY <1>2, <1>4
<1>6. step' \in {"idle", "preflight", "safety", "reset", "verify"}
  BY <1>1 DEF TypeOK
<1> QED
  BY <1>2, <1>3, <1>4, <1>5, <1>6, ReturnedType DEF TypeOK, Names

\* Every step of a restore keeps the types.
LEMMA RestoreType ==
  ASSUME TypeOK,
         \/ \E sha \in 1..MaxCommits : Restore(sha)
         \/ Preflight \/ SafetyCommit \/ ReadTree \/ Verify \/ Crash,
         step \in {"reset", "verify"} => target \in DOMAIN commits
  PROVE  TypeOK'
<1> USE DEF Names
<1>1. /\ files \in Workspaces /\ IsWorkspace(files) /\ rules \in SUBSET Ignorable
      /\ index \in Trees /\ commits \in Seq(Checkpointed) /\ target \in 0..Len(commits)
      /\ protectedSet \in SUBSET Entries /\ Len(commits) \in Nat
      /\ before \in [files : Workspaces, rules : SUBSET Ignorable]
  BY DEF TypeOK
<1>2. CASE \E sha \in 1..MaxCommits : Restore(sha)
  <2>1. PICK sha \in 1..MaxCommits : Restore(sha)
    BY <1>2
  <2>2. /\ UNCHANGED <<files, rules, index, commits>>
        /\ before' = [files |-> files, rules |-> rules]
    BY <2>1 DEF Restore, workVars
  <2>3. /\ target' \in 0..Len(commits) /\ protectedSet' \in SUBSET Entries
        /\ step' \in {"preflight", "idle"}
        /\ result' \in {Returned("none"), Returned("refused")}
    BY <1>1, <2>1, EntriesType DEF Restore, Fails
  <2> QED
    BY <1>1, <2>2, <2>3, ReturnedType DEF TypeOK, IsWorkspace
<1>3. CASE Preflight
  <2>1. /\ UNCHANGED <<files, rules, index, commits, target, protectedSet, before>>
        /\ step' \in {"safety", "idle"} /\ result' \in {result, Returned("refused")}
    BY <1>3 DEF Preflight, Fails, workVars
  <2> QED
    BY <1>1, <2>1, ReturnedType DEF TypeOK, IsWorkspace
<1>4. CASE SafetyCommit
  <2>1. /\ UNCHANGED <<files, rules, target, protectedSet, before>>
        /\ step' \in {"reset", "idle"} /\ result' \in {result, Returned("commit_failed")}
        /\ Commits(protectedSet) \/ CommitFails
    BY <1>4 DEF SafetyCommit, Fails, workVars
  <2>2. /\ index' \in Trees /\ commits' \in Seq(Checkpointed)
        /\ Len(commits') \in {Len(commits), Len(commits) + 1}
    BY <1>1, <2>1, CommitsType, CommitFailsType
  <2>3. target' \in 0..Len(commits')
    BY <1>1, <2>1, <2>2
  <2> QED
    BY <1>1, <2>1, <2>2, <2>3, ReturnedType DEF TypeOK, IsWorkspace
<1>5. CASE ReadTree
  <2>1. target \in 1..Len(commits)
    BY <1>1, <1>5 DEF ReadTree
  <2>2. /\ commits[target] \in Checkpointed
        /\ commits[target].tree \in Trees /\ commits[target].rules \in SUBSET Ignorable
    BY <1>1, <2>1, CommitAt
  <2>3. PICK done : files' = Written(done, commits[target].tree)
    BY <1>5 DEF ReadTree
  <2>4. files' \in Workspaces /\ IsWorkspace(files') /\ rules' \in SUBSET Ignorable
    BY <1>1, <1>5, <2>2, <2>3, WrittenType DEF ReadTree
  <2>5. /\ UNCHANGED <<commits, target, protectedSet, before>>
        /\ index' \in Trees /\ step' \in {"verify", "idle"}
        /\ result' \in {result, Returned("restore_incomplete")}
    BY <1>1, <1>5, <2>2 DEF ReadTree, Fails
  <2> QED
    BY <1>1, <2>4, <2>5, ReturnedType DEF TypeOK
<1>6. CASE Verify
  <2>1. UNCHANGED <<files, rules, index, commits, target, protectedSet, before>>
        /\ step' = "idle"
    BY <1>6 DEF Verify, Fails, workVars
  <2>2. target \in 1..Len(commits)
    BY <1>1, <1>6 DEF Verify
  <2>3. /\ commits[target] \in Checkpointed
        /\ commits[target].captured \in BOOLEAN
        /\ commits[target].ignored \in SUBSET Entries
    BY <1>1, <2>2, CommitAt
  <2>4. Exposed \in SUBSET Names /\ Unreached(commits[target]) \in SUBSET Names
    <3>1. listIgnoredEntries \in SUBSET Entries
      BY EntriesType
    <3>2. \A e \in Entries : e.path \in Names
      BY DEF Entries
    <3> QED
      BY <1>1, <2>3, <3>1, <3>2 DEF Exposed, Unreached
  <2>5. CASE Fails("restore_incomplete")
    BY <1>1, <2>1, <2>5, ReturnedType DEF TypeOK, IsWorkspace, Fails
  <2>6. CASE \E sure \in {FALSE, commits[target].captured} :
               result' = [code |-> "restored", exposed |-> Exposed, known |-> sure,
                          unreached |-> IF sure THEN Unreached(commits[target]) ELSE {}]
    <3>1. PICK sure \in BOOLEAN :
             result' = [code |-> "restored", exposed |-> Exposed, known |-> sure,
                        unreached |-> IF sure THEN Unreached(commits[target]) ELSE {}]
      BY <2>3, <2>6
    <3>2. (IF sure THEN Unreached(commits[target]) ELSE {}) \in SUBSET Names
      BY <2>4
    <3>3. result' \in [code : {"none", "refused", "commit_failed", "restore_incomplete", "restored"},
                       exposed : SUBSET Names, known : BOOLEAN, unreached : SUBSET Names]
      BY <2>4, <3>1, <3>2
    <3> QED
      BY <1>1, <2>1, <3>3 DEF TypeOK, IsWorkspace
  <2> QED
    BY <1>6, <2>5, <2>6 DEF Verify
<1>7. CASE Crash
  <2>1. /\ UNCHANGED <<files, rules, index, commits, target, protectedSet, before>>
        /\ step' = "idle" /\ result' = Returned("none")
    BY <1>7 DEF Crash, Fails, workVars
  <2> QED
    BY <1>1, <2>1, ReturnedType DEF TypeOK, IsWorkspace
<1> QED
  BY <1>2, <1>3, <1>4, <1>5, <1>6, <1>7

---------------------------------------------------------------------------
(* The invariant. *)

\* The newest commit is the workspace a restore found, but for what is held,
\* and for what no commit has.
SafetyHolds ==
  LET tree == commits[Len(commits)].tree
  IN /\ commits # << >>
     /\ commits[Len(commits)].rules = before.rules
     /\ \A p \in DOMAIN before.files :
          \/ Held(p)
          \/ p \in DOMAIN tree /\ tree[p] = before.files[p]
          \/ Unkept(p, tree)
     /\ \A u \in DOMAIN tree :
          /\ ~Held(u)
          /\ tree[u] = Gitlink \/ (u \in DOMAIN before.files /\ tree[u] = before.files[u])

\* What each step of a restore has established when the next is to be taken.
Underway ==
  /\ step # "idle" => target \in DOMAIN commits /\ result.code = "none"
  /\ step \in {"preflight", "safety"} => protectedSet = listIgnoredEntries
  /\ step \in {"preflight", "safety", "reset"} => files = before.files /\ rules = before.rules
  /\ step \in {"safety", "reset", "verify"} => Collisions(commits[target].tree) = {}
  /\ step \in {"reset", "verify"} => SafetyHolds
  /\ step = "reset" => index = commits[Len(commits)].tree
  /\ step = "verify" => index = commits[target].tree

RestoreInv == TypeOK /\ Underway /\ NothingIsLost /\ RestoreTells

\* Between restores nothing is promised of the workspace.
LEMMA WorkKeeps ==
  ASSUME RestoreInv,
         \/ Checkpoint
         \/ \E p \in Paths : Delete(p) \/ \E c \in Contents : Write(p, c)
         \/ \E named \in SUBSET Ignorable : EditRules(named)
  PROVE  RestoreInv'
<1>1. TypeOK'
  BY WorkType DEF RestoreInv
<1>2. /\ step' = "idle" /\ protectedSet' = {} /\ result' = Returned("none")
      /\ before' = [files |-> files', rules |-> rules']
  BY DEF Checkpoint, Delete, Write, EditRules, Afresh
<1>3. Underway'
  BY <1>2 DEF Underway
<1>4. NothingIsLost' /\ RestoreTells'
  BY <1>2 DEF NothingIsLost, RestoreTells, Held, Returned
<1> QED
  BY <1>1, <1>3, <1>4 DEF RestoreInv

\* Up to the safety commit a restore only reads.
LEMMA ReadingKeeps ==
  ASSUME RestoreInv,
         (\E sha \in 1..MaxCommits : Restore(sha)) \/ Preflight
  PROVE  RestoreInv'
<1>1. TypeOK'
  BY RestoreType DEF RestoreInv, Underway
<1>2. /\ UNCHANGED <<files, rules, index, commits>>
      /\ before'.files = files' /\ before'.rules = rules'
  BY DEF Restore, Preflight, workVars, RestoreInv, Underway
<1>3. NothingIsLost'
  BY <1>2 DEF NothingIsLost
<1>4. result'.code \in {"none", "refused"}
  BY DEF Restore, Preflight, Fails, Returned, RestoreInv, Underway
<1>5. RestoreTells'
  BY <1>2, <1>4 DEF RestoreTells
<1>6. Underway'
  <2>1. CASE \E sha \in 1..MaxCommits : Restore(sha)
    <3>1. step' = "idle" \/
            /\ step' = "preflight" /\ target' \in DOMAIN commits
            /\ protectedSet' = listIgnoredEntries /\ result'.code = "none"
      BY <2>1 DEF Restore, Fails, Returned
    <3>2. listIgnoredEntries' = listIgnoredEntries
      BY <1>2 DEF listIgnoredEntries, Seen, Inside, StatFails, Entry
    <3> QED
      BY <1>2, <3>1, <3>2 DEF Underway
  <2>2. CASE Preflight
    <3>1. UNCHANGED <<target, protectedSet, before>>
      BY <2>2 DEF Preflight
    <3>2. step' = "idle" \/
            /\ step' = "safety" /\ result' = result
            /\ Collisions(commits[target].tree) = {}
      BY <2>2 DEF Preflight, Fails
    <3>3. step = "preflight" /\ Underway
      BY <2>2 DEF Preflight, RestoreInv
    <3>4. listIgnoredEntries' = listIgnoredEntries
          /\ Collisions(commits[target].tree)' = Collisions(commits[target].tree)
      BY <1>2, <3>1 DEF listIgnoredEntries, Seen, Inside, StatFails, Entry, Collisions
    <3> QED
      BY <1>2, <3>1, <3>2, <3>3, <3>4 DEF Underway
  <2> QED
    BY <2>1, <2>2
<1> QED
  BY <1>1, <1>3, <1>5, <1>6 DEF RestoreInv

\* The safety commit holds everything the protected set does not.
LEMMA SafetyCommitKeeps ==
  ASSUME RestoreInv, SafetyCommit
  PROVE  RestoreInv'
<1>1. TypeOK'
  BY RestoreType DEF RestoreInv, Underway, SafetyCommit
<1>2. /\ UNCHANGED <<files, rules, target, protectedSet, before>>
      /\ before.files = files /\ before.rules = rules
      /\ protectedSet = listIgnoredEntries /\ TypeOK /\ target \in DOMAIN commits
      /\ Collisions(commits[target].tree) = {} /\ result.code = "none"
  BY DEF SafetyCommit, workVars, RestoreInv, Underway
<1>3. NothingIsLost'
  BY <1>2 DEF NothingIsLost
<1>4. result'.code \in {"none", "commit_failed"}
  BY <1>2 DEF SafetyCommit, Fails, Returned
<1>5. RestoreTells'
  BY <1>4 DEF RestoreTells
<1>6. Underway'
  <2>1. CASE step' = "idle"
    BY <2>1 DEF Underway
  <2>2. CASE step' # "idle"
    <3>1. Commits(protectedSet) /\ step' = "reset" /\ result' = result
      BY <2>2 DEF SafetyCommit, Fails
    <3>2. /\ \E empty \in SUBSET Emptied : index' = Staged(empty)
          /\ commits' \in Seq(Checkpointed)
          /\ Len(commits') = Len(commits) + 1
          /\ \A i \in 1..Len(commits) : commits'[i] = commits[i]
          /\ commits'[Len(commits')].tree = index'
          /\ commits'[Len(commits')].rules = rules
      BY <1>2, <3>1, CommitsType DEF TypeOK
    <3>3. commits \in Seq(Checkpointed) /\ Len(commits) \in Nat
          /\ target \in 1..Len(commits) /\ DOMAIN commits' = 1..Len(commits')
      BY <1>2, <3>2 DEF TypeOK
    <3>4. target' \in DOMAIN commits' /\ commits'[target'] = commits[target]
          /\ commits' # << >>
      BY <1>2, <3>2, <3>3
    <3>5. Collisions(commits[target].tree)' = {}
      BY <1>2, <3>4 DEF Collisions
    <3>6. PICK empty \in SUBSET Emptied : index' = Staged(empty)
      BY <3>2
    <3>7. SafetyHolds'
      <4>1. PICK tree : tree = Staged(empty)
        OBVIOUS
      <4>2. tree = index'
        BY <3>6, <4>1
      <4>3. \A p : Held(p)' <=> \E e \in listIgnoredEntries : Beneath(p, e.path)
        BY <1>2 DEF Held
      <4>4. ASSUME NEW p \in DOMAIN before.files, ~Held(p)'
            PROVE  (p \in DOMAIN tree /\ tree[p] = before.files[p]) \/ Unkept(p, tree)
        BY <1>2, <4>1, <4>3, <4>4, UnheldIsStaged DEF Unkept
      <4>5. \A u \in DOMAIN tree : ~Held(u)'
        BY <1>2, <4>1, <4>3, StagedIsUnheld
      <4>6. ASSUME NEW u \in DOMAIN tree, tree[u] # Gitlink
            PROVE  u \in DOMAIN files /\ tree[u] = files[u]
        BY <4>1, <4>6 DEF Staged
      <4>7. \A p : Unkept(p, tree)' = Unkept(p, tree)
        BY <1>2 DEF Unkept
      <4>8. commits'[Len(commits')].tree = tree
        BY <3>2, <4>2
      <4> QED
        BY <1>2, <3>2, <3>4, <4>4, <4>5, <4>6, <4>7, <4>8 DEF SafetyHolds
    <3> QED
      BY <1>2, <3>1, <3>2, <3>4, <3>5, <3>7 DEF Underway
  <2> QED
    BY <2>1, <2>2
<1> QED
  BY <1>1, <1>3, <1>5, <1>6 DEF RestoreInv

\* Nothing at, above or beneath a held path is in a tree without collisions.
LEMMA HeldIsApart ==
  ASSUME TypeOK, NEW tree \in Trees, Collisions(tree) = {},
         NEW p \in Paths, Held(p), NEW q \in DOMAIN tree
  PROVE  ~Beneath(p, q) /\ ~Beneath(q, p)
<1>1. PICK e \in protectedSet : Beneath(p, e.path)
  BY DEF Held
<1>2. e.path \in Names /\ p \in Names /\ q \in Names
  BY DEF TypeOK, Entries, Names, Trees, Units
<1>3. ~Beneath(q, e.path) /\ ~Beneath(e.path, q)
  BY DEF Collisions
<1> QED
  BY <1>1, <1>2, <1>3, BeneathOrder

\* read-tree leaves the held paths alone: it tracked none of them, and writes
\* none, nor anything in their way.
LEMMA ReadTreeSpares ==
  ASSUME TypeOK, SafetyHolds,
         index = commits[Len(commits)].tree,
         NEW tree \in Trees, Collisions(tree) = {},
         NEW done \in SUBSET (DOMAIN index \cup DOMAIN tree),
         NEW p \in Paths, Held(p)
  PROVE  /\ (p \in DOMAIN Written(done, tree)) = (p \in DOMAIN files)
         /\ p \in DOMAIN files => Written(done, tree)[p] = files[p]
<1> DEFINE written == done \cap DOMAIN tree
           new == {q \in written : tree[q] # Gitlink}
           kept == {q \in DOMAIN files \ done : ~\E r \in written : Overwrites(r, tree, q)}
<1>1. Written(done, tree) = [q \in new \cup kept |-> IF q \in new THEN tree[q] ELSE files[q]]
  BY DEF Written
<1>2. \A q \in DOMAIN tree : ~Beneath(p, q) /\ ~Beneath(q, p)
  BY HeldIsApart
<1>3. Beneath(p, p)
  BY BeneathOrder DEF Names
<1>4. p \notin DOMAIN tree
  BY <1>2, <1>3
<1>5. p \notin DOMAIN index
  BY DEF SafetyHolds
<1>6. p \notin done /\ p \notin new
  BY <1>4, <1>5
<1>7. p \in kept <=> p \in DOMAIN files
  BY <1>2, <1>6 DEF Overwrites
<1> HIDE DEF written, new, kept
<1> QED
  BY <1>1, <1>6, <1>7

\* What no commit has stands too, unless the target has a path in its way.
LEMMA UnkeptStands ==
  ASSUME TypeOK, files = before.files,
         index = commits[Len(commits)].tree,
         NEW tree \in Trees,
         NEW done \in SUBSET (DOMAIN index \cup DOMAIN tree),
         NEW p \in DOMAIN files, Unkept(p, index),
         ~\E q \in DOMAIN tree : Overwrites(q, tree, p)
  PROVE  p \in DOMAIN Written(done, tree) /\ Written(done, tree)[p] = files[p]
<1> DEFINE written == done \cap DOMAIN tree
           new == {q \in written : tree[q] # Gitlink}
           kept == {q \in DOMAIN files \ done : ~\E r \in written : Overwrites(r, tree, q)}
<1>1. Written(done, tree) = [q \in new \cup kept |-> IF q \in new THEN tree[q] ELSE files[q]]
  BY DEF Written
<1>2. p \in Paths /\ DOMAIN index \subseteq Units
  BY DEF TypeOK, Workspaces, Trees
<1>3. p \notin DOMAIN index
  BY <1>2 DEF Unkept, Units
<1>4. p \notin DOMAIN tree
  BY <1>2, BeneathOrder DEF Overwrites, Names
<1>5. p \notin done /\ p \notin new /\ p \in kept
  BY <1>3, <1>4
<1> HIDE DEF written, new, kept
<1> QED
  BY <1>1, <1>5

\* Wherever read-tree stops, the held paths stand and the rest is committed.
LEMMA ReadTreeKeeps ==
  ASSUME RestoreInv, ReadTree
  PROVE  RestoreInv'
<1> DEFINE tree == commits[target].tree
<1>1. TypeOK'
  BY RestoreType DEF RestoreInv, Underway
<1>2. /\ UNCHANGED <<commits, target, protectedSet, before>>
      /\ TypeOK /\ files = before.files /\ target \in DOMAIN commits
      /\ Collisions(tree) = {} /\ SafetyHolds /\ result.code = "none"
      /\ index = commits[Len(commits)].tree
  BY DEF ReadTree, RestoreInv, Underway
<1>3. tree \in Trees
  BY <1>2, CommitAt DEF TypeOK
<1>4. PICK done \in SUBSET (DOMAIN index \cup DOMAIN tree) : files' = Written(done, tree)
  BY DEF ReadTree
<1>5. \A p \in Paths : Held(p) =>
        /\ (p \in DOMAIN files') = (p \in DOMAIN before.files)
        /\ p \in DOMAIN files' => files'[p] = before.files[p]
  BY <1>2, <1>3, <1>4, ReadTreeSpares
<1>6. SafetyHolds'
  BY <1>2 DEF SafetyHolds, Held, Unkept
<1>7. NothingIsLost'
  <2>1. PICK safe : safe = commits[Len(commits)].tree
    OBVIOUS
  <2>2. \A p \in DOMAIN before.files : Unkept(p, safe) =>
          \/ p \in DOMAIN files' /\ files'[p] = before.files[p]
          \/ \E q \in DOMAIN tree : Overwrites(q, tree, p)
    BY <1>2, <1>3, <1>4, <2>1, UnkeptStands
  <2>3. \A p : /\ Held(p)' = Held(p) /\ Unkept(p, safe)' = Unkept(p, safe)
               /\ Stands(p)' = (p \in DOMAIN files' /\ files'[p] = before.files[p])
    BY <1>2 DEF Held, Unkept, Stands
  <2> QED
    BY <1>2, <1>5, <2>2, <2>3, <2>1 DEF NothingIsLost, SafetyHolds
<1>8. result'.code \in {"none", "restore_incomplete"}
  BY <1>2 DEF ReadTree, Fails, Returned
<1>9. RestoreTells'
  BY <1>8 DEF RestoreTells
<1>10. Collisions(tree)' = {}
  BY <1>2 DEF Collisions
<1>11. Underway'
  <2>1. CASE step' = "idle"
    BY <2>1 DEF Underway
  <2>2. CASE step' # "idle"
    <3>1. step' = "verify" /\ index' = tree /\ result' = result
      BY <2>2 DEF ReadTree, Fails
    <3> QED
      BY <1>2, <1>6, <1>10, <3>1 DEF Underway
  <2> QED
    BY <2>1, <2>2
<1> QED
  BY <1>1, <1>7, <1>9, <1>11 DEF RestoreInv

\* Nothing the verification finds is left out of the report.
LEMMA VerifyKeeps ==
  ASSUME RestoreInv, Verify
  PROVE  RestoreInv'
<1> DEFINE t == commits[target]
<1>1. TypeOK'
  BY RestoreType DEF RestoreInv, Underway
<1>2. /\ UNCHANGED <<files, rules, index, commits, target, protectedSet, before>>
      /\ TypeOK /\ target \in DOMAIN commits /\ step' = "idle"
      /\ Collisions(t.tree) = {} /\ index = t.tree /\ NothingIsLost
  BY DEF Verify, Fails, workVars, RestoreInv, Underway
<1>3. NothingIsLost'
  BY <1>2 DEF NothingIsLost, Held, Unkept, Stands
<1>4. Underway'
  BY <1>2 DEF Underway
<1>5. ASSUME ~Differs(t), Leftover = {}, NEW sure \in BOOLEAN,
             result' = [code |-> "restored", exposed |-> Exposed, known |-> sure,
                        unreached |-> IF sure THEN Unreached(t) ELSE {}]
      PROVE  RestoreTells'
  <2>1. t.rules = rules /\ Differs(t)' = Differs(t)
    BY <1>2, <1>5 DEF Differs
  <2>2. ASSUME NEW p \in DOMAIN files \ DOMAIN t.tree, ~Held(p)
        PROVE  \/ InRepo(p) /\ Unit(p) \in DOMAIN t.tree
               \/ /\ Ignored(Unit(p), t.rules)
                  /\ sure => \/ files[p] \in Dangling
                             \/ \E path \in Unreached(t) \cup {e.path : e \in t.ignored} :
                                  Beneath(p, path)
    <3>1. /\ p \in Paths /\ Unit(p) \in Seen
          /\ InRepo(p) <=> Unit(p) # p
          /\ Unit(p) \in DOMAIN files => Unit(p) = p
      BY <1>2, UnitIs, SeenIsWorkspace DEF TypeOK, Workspaces, Seen
    <3>2. CASE Unit(p) \in DOMAIN index
      BY <1>2, <2>2, <3>1, <3>2
    <3>3. CASE Unit(p) \notin DOMAIN index
      <4>1. ~Held(Unit(p))
        <5>1. \A e \in protectedSet : e.path \in Names /\ ~InRepo(e.path)
          BY <1>2 DEF TypeOK, Entries, Names
        <5> QED
          BY <2>2, <3>1, <5>1, UnitBeneath DEF Held
      <4>2. Ignored(Unit(p), rules)
        BY <1>5, <3>1, <3>3, <4>1 DEF Leftover, Others
      <4>3. CASE StatFails(Unit(p))
        BY <2>1, <3>1, <4>2, <4>3 DEF StatFails
      <4>4. CASE ~StatFails(Unit(p))
        <5>1. \E e \in listIgnoredEntries : Beneath(Unit(p), e.path)
          BY <1>2, <3>1, <3>3, <4>2, <4>4, ListedIsIgnored
        <5>2. PICK e \in listIgnoredEntries : Beneath(p, e.path)
          BY <1>2, <2>2, <5>1, ListedFile
        <5>3. e.path \in Unreached(t) \cup {x.path : x \in t.ignored}
          BY <5>2 DEF Unreached
        <5> QED
          BY <2>1, <4>2, <5>2, <5>3
      <4> QED
        BY <4>3, <4>4
    <3> QED
      BY <3>2, <3>3
  <2>3. Exposed = {e.path : e \in {h \in protectedSet :
                     \E p \in DOMAIN files : Beneath(p, h.path) /\ ~Ignored(Unit(p), rules)}}
    <3>1. t.tree \in Trees
      BY <1>2, CommitAt DEF TypeOK
    <3>2. ASSUME NEW h \in protectedSet, NEW p \in DOMAIN files
          PROVE  /\ Beneath(p, h.path) <=> Beneath(Unit(p), h.path)
                 /\ Beneath(p, h.path) => Unit(p) \notin DOMAIN index
      <4>1. p \in Paths /\ h.path \in Names /\ ~InRepo(h.path)
        BY <1>2, <3>2 DEF TypeOK, Workspaces, Entries, Names
      <4>2. Beneath(p, h.path) <=> Beneath(Unit(p), h.path)
        BY <4>1, UnitBeneath
      <4>3. Unit(p) \in Paths /\ Beneath(Unit(p), Unit(p))
        BY <4>1, UnitIs, BeneathOrder DEF Units
      <4>4. ASSUME Beneath(p, h.path), Unit(p) \in DOMAIN index
            PROVE  FALSE
        <5>1. Held(Unit(p))
          BY <4>2, <4>4 DEF Held
        <5> QED
          BY <1>2, <3>1, <4>3, <4>4, <5>1, HeldIsApart
      <4> QED
        BY <4>2, <4>4
    <3>3. \A h \in protectedSet :
            (\E u \in Others : Beneath(u, h.path)) <=>
            (\E p \in DOMAIN files : Beneath(p, h.path) /\ ~Ignored(Unit(p), rules))
      BY <3>2 DEF Others, Seen
    <3> QED
      BY <3>3 DEF Exposed
  <2>4. result'.exposed = Exposed /\ result'.known = sure /\ result'.code = "restored"
        /\ result'.unreached = (IF sure THEN Unreached(t) ELSE {})
    BY <1>5
  <2> QED
    BY <1>2, <1>5, <2>1, <2>2, <2>3, <2>4 DEF RestoreTells, Held
<1>6. \/ Fails("restore_incomplete")
      \/ /\ ~Differs(t) /\ Leftover = {}
         /\ \E sure \in {FALSE, t.captured} :
              result' = [code |-> "restored", exposed |-> Exposed, known |-> sure,
                         unreached |-> IF sure THEN Unreached(t) ELSE {}]
  BY DEF Verify
<1>7. CASE Fails("restore_incomplete")
  <2>1. result'.code = "restore_incomplete"
    BY <1>7 DEF Fails, Returned
  <2>2. RestoreTells'
    BY <2>1 DEF RestoreTells
  <2> QED
    BY <1>1, <1>3, <1>4, <2>2 DEF RestoreInv
<1>8. CASE ~Fails("restore_incomplete")
  <2>1. t.captured \in BOOLEAN
    BY <1>2, CommitAt DEF TypeOK
  <2>2. PICK sure \in BOOLEAN :
          result' = [code |-> "restored", exposed |-> Exposed, known |-> sure,
                     unreached |-> IF sure THEN Unreached(t) ELSE {}]
    BY <1>6, <1>8, <2>1
  <2>3. ~Differs(t) /\ Leftover = {}
    BY <1>6, <1>8
  <2>4. RestoreTells'
    BY <1>5, <2>2, <2>3
  <2> QED
    BY <1>1, <1>3, <1>4, <2>4 DEF RestoreInv
<1> QED
  BY <1>7, <1>8

\* A crash ends the restore and leaves everything where it stands.
LEMMA CrashKeeps ==
  ASSUME RestoreInv, Crash
  PROVE  RestoreInv'
<1>1. TypeOK'
  BY RestoreType DEF RestoreInv, Underway
<1>2. /\ UNCHANGED <<files, rules, index, commits, target, protectedSet, before>>
      /\ step' = "idle" /\ result'.code = "none" /\ NothingIsLost
  BY DEF Crash, Fails, Returned, workVars, RestoreInv
<1>3. NothingIsLost' /\ Underway' /\ RestoreTells'
  BY <1>2 DEF NothingIsLost, Underway, RestoreTells, Held, Unkept, Stands
<1> QED
  BY <1>1, <1>3 DEF RestoreInv

\* A step that changes nothing keeps the invariant.
LEMMA StutterKeeps ==
  ASSUME RestoreInv, UNCHANGED vars
  PROVE  RestoreInv'
<1>1. /\ UNCHANGED <<files, rules, index, commits, step>>
      /\ UNCHANGED <<target, protectedSet, result, before>>
  BY DEF vars, workVars
<1>2. TypeOK'
  BY <1>1 DEF RestoreInv, TypeOK, IsWorkspace
<1>3. listIgnoredEntries' = listIgnoredEntries
  BY <1>1 DEF listIgnoredEntries, Seen, Inside, StatFails, Entry
<1>4. SafetyHolds' = SafetyHolds
  BY <1>1 DEF SafetyHolds, Held, Unkept
<1>5. Collisions(commits[target].tree)' = Collisions(commits[target].tree)
  BY <1>1 DEF Collisions
<1>6. Underway'
  BY <1>1, <1>3, <1>4, <1>5 DEF RestoreInv, Underway
<1>7. NothingIsLost'
  BY <1>1 DEF RestoreInv, NothingIsLost, Held, Unkept, Stands
<1>8. RestoreTells'
  BY <1>1 DEF RestoreInv, RestoreTells, Held, Differs
<1> QED
  BY <1>2, <1>6, <1>7, <1>8 DEF RestoreInv

---------------------------------------------------------------------------
(* The theorems. *)

\* RestoreInv is inductive: what each command has established is what the next
\* one needs.
THEOREM RestoreInvariant == Spec => []RestoreInv
<1>1. Init => RestoreInv
  <2> SUFFICES ASSUME Init PROVE RestoreInv
    OBVIOUS
  <2>1. TypeOK
    BY InitType
  <2>2. Underway /\ NothingIsLost /\ RestoreTells
    BY DEF Init, Returned, Underway, NothingIsLost, RestoreTells, Held
  <2> QED
    BY <2>1, <2>2 DEF RestoreInv
<1>2. RestoreInv /\ [Next]_vars => RestoreInv'
  BY WorkKeeps, ReadingKeeps, SafetyCommitKeeps, ReadTreeKeeps, VerifyKeeps, CrashKeeps,
     StutterKeeps DEF Next
<1> QED
  BY <1>1, <1>2, PTL DEF Spec

\* Type correctness.
THEOREM TypeCorrect == Spec => []TypeOK
<1>1. RestoreInv => TypeOK
  BY DEF RestoreInv
<1> QED
  BY <1>1, RestoreInvariant, PTL

\* I77, D31: for every workspace, rules and history of commits, a restore that
\* fails, is refused, is cut short by a crash or succeeds leaves every path the
\* workspace's own rules protected as it was, and the rest as it was or in the
\* safety commit; the files of an embedded repository and the ignored links to
\* nothing, which that commit does not have, stand unless the target has a path
\* in their way.
THEOREM RestoreLosesNothing == Spec => []NothingIsLost
<1>1. RestoreInv => NothingIsLost
  BY DEF RestoreInv
<1> QED
  BY <1>1, RestoreInvariant, PTL

\* I58, D277: a refusal has changed nothing; a success is the target's
\* workspace and names whatever else is there.
THEOREM RestoreReportIsTrue == Spec => []RestoreTells
<1>1. RestoreInv => RestoreTells
  BY DEF RestoreInv
<1> QED
  BY <1>1, RestoreInvariant, PTL

---------------------------------------------------------------------------
---------------------------------------------------------------------------
(* The Codex adapter.                                                       *)

\* What a child asked and has not been answered nor taken back is a superset of
\* the approvals kept for it.
Owed ==
  \A t \in Turns :
    /\ withdrawn[t] \cup Range(told[t]) \subseteq seenApprovalIds[t]
    /\ approvals[t] \subseteq Waiting(t)

\* A turn that has ended, or whose send failed.
Over(t) == t \in EndedTurns \/ outcome[t] = "failed"

\* Turns begin one after the other, and the process of the newest is the child.
Begun ==
  /\ \A t \in Turns : phase[t] # "none" => t <= active
  /\ \A t \in Turns : phase[t] = "open" /\ t = active => child = t
  /\ ended => active # None /\ Over(active)
  /\ \A t \in Turns : t < active => Over(t)

\* A process whose result was seen has ended its turn, or reported an odd status.
Resolved ==
  \A t \in Turns :
    /\ resultSeen[t] => odd[t] \/ Over(t)
    /\ phase[t] = "closed" => due[t] \in {"", "failed"}
    /\ phase[t] = "closed" /\ outcome[t] = "ok" /\ ~odd[t] => t \in EndedTurns
EndedOnce ==
  \A t \in Turns :
    /\ Len(ends[t]) <= 1
    /\ ends[t] # << >> => resultSeen[t] \/ phase[t] = "closed"

CodexInv ==
  CodexTypeOK /\ Owed /\ (transport = "app-server" => Begun /\ Resolved /\ EndedOnce)

\* Turns are numbered from 1.
LEMMA TurnsAre == None \in Int /\ \A t \in Turns : t \in Int /\ t # None /\ None < t
BY CodexAssumption DEF Turns, None

\* The values a step sets.
LEMMA CodexValues ==
  /\ {"none", "open", "closed"} \subseteq Phases /\ {"", "ok", "failed"} \subseteq Outcomes
  /\ {"", "result", "failed"} \subseteq Fates /\ Verdicts \subseteq Fates /\ "initialize" \in Calls
BY DEF Phases, Outcomes, Fates, Verdicts, Calls

\* Every turn's entry is there to be replaced.
LEMMA EachType ==
  ASSUME NEW S, NEW v \in S
  PROVE  Each(v) \in [Turns -> S] /\ \A t \in Turns : Each(v)[t] = v
BY DEF Each

LEMMA CodexInitInv == CodexInit => CodexInv
<1> SUFFICES ASSUME CodexInit PROVE CodexInv
  OBVIOUS
<1>1. CodexTypeOK
  <2>1. << >> \in Seq(RpcIds) /\ << >> \in Seq(Turns \cup {None})
    OBVIOUS
  <2>2. /\ phase \in [Turns -> Phases]
        /\ outcome \in [Turns -> Outcomes]
        /\ call \in [Turns -> Calls \cup {""}]
        /\ due \in [Turns -> Fates]
    BY CodexValues, EachType DEF CodexInit
  <2>3. /\ resultSeen \in [Turns -> BOOLEAN] /\ resume \in [Turns -> BOOLEAN]
        /\ doomed \in [Turns -> BOOLEAN] /\ odd \in [Turns -> BOOLEAN]
    BY EachType DEF CodexInit
  <2>4. /\ approvals \in [Turns -> SUBSET RpcIds] /\ seenApprovalIds \in [Turns -> SUBSET RpcIds]
        /\ withdrawn \in [Turns -> SUBSET RpcIds] /\ told \in [Turns -> Seq(RpcIds)]
        /\ ends \in [Turns -> Seq(Turns \cup {None})]
    BY <2>1, EachType DEF CodexInit
  <2> QED
    BY <2>2, <2>3, <2>4 DEF CodexInit, CodexTypeOK
<1>2. Owed
  <2>1. \A t \in Turns : told[t] = << >> /\ withdrawn[t] = {} /\ approvals[t] = {}
    BY DEF CodexInit, Each
  <2>2. Range(<< >>) = {}
    BY DEF Range
  <2> QED
    BY <2>1, <2>2 DEF Owed
<1>3. Begun /\ Resolved /\ EndedOnce
  <2>1. /\ active = None /\ ~ended
        /\ \A t \in Turns : /\ phase[t] = "none" /\ ~resultSeen[t] /\ ends[t] = << >>
                            /\ Len(ends[t]) = 0
    BY DEF CodexInit, Each
  <2>2. \A t \in Turns : ~(t < active)
    BY <2>1, CodexAssumption DEF Turns, None
  <2>3. Begun
    BY <2>1, <2>2 DEF Begun
  <2>4. Resolved
    BY <2>1 DEF Resolved
  <2>5. EndedOnce
    BY <2>1 DEF EndedOnce
  <2> QED
    BY <2>3, <2>4, <2>5
<1> QED
  BY <1>1, <1>2, <1>3 DEF CodexInv

---------------------------------------------------------------------------
(* Types, a few variables at a time.                                        *)
SeamTypes ==
  /\ transport \in Transports /\ thread \in BOOLEAN
  /\ child \in Turns \cup {None} /\ responder \in Turns \cup {None} /\ active \in Turns \cup {None}
  /\ killRequested \in BOOLEAN /\ ended \in BOOLEAN /\ failedStart \in BOOLEAN /\ gaveUp \in BOOLEAN
CallTypes ==
  /\ phase \in [Turns -> Phases]
  /\ outcome \in [Turns -> Outcomes]
  /\ call \in [Turns -> Calls \cup {""}]
  /\ due \in [Turns -> Fates]
FlagTypes ==
  /\ resultSeen \in [Turns -> BOOLEAN] /\ resume \in [Turns -> BOOLEAN]
  /\ doomed \in [Turns -> BOOLEAN] /\ odd \in [Turns -> BOOLEAN]
AskTypes ==
  /\ approvals \in [Turns -> SUBSET RpcIds] /\ seenApprovalIds \in [Turns -> SUBSET RpcIds]
  /\ withdrawn \in [Turns -> SUBSET RpcIds] /\ told \in [Turns -> Seq(RpcIds)]
EndsTypes == ends \in [Turns -> Seq(Turns \cup {None})]

LEMMA TypesAre ==
  /\ CodexTypeOK <=> SeamTypes /\ CallTypes /\ FlagTypes /\ AskTypes /\ EndsTypes
  /\ CodexTypeOK' <=> (SeamTypes /\ CallTypes /\ FlagTypes /\ AskTypes /\ EndsTypes)'
BY DEF CodexTypeOK, SeamTypes, CallTypes, FlagTypes, AskTypes, EndsTypes

\* A turn's list stays a list.
LEMMA ListGrows ==
  ASSUME NEW S, NEW f \in [Turns -> Seq(S)], NEW t \in Turns, NEW v \in S
  PROVE  [f EXCEPT ![t] = Append(@, v)] \in [Turns -> Seq(S)]
<1>1. Append(f[t], v) \in Seq(S)
  OBVIOUS
<1> QED
  BY <1>1

\* A list grows by one.
LEMMA Grows ==
  ASSUME NEW S, NEW old \in Seq(S), NEW v \in S, NEW new, new = Append(old, v)
  PROVE  /\ new \in Seq(S) /\ Len(new) = Len(old) + 1 /\ new[Len(new)] = v
         /\ Range(new) = Range(old) \cup {v}
<1>1. /\ new \in Seq(S) /\ Len(new) = Len(old) + 1 /\ Len(old) \in Nat
      /\ \A i \in 1..Len(old) : new[i] = old[i]
      /\ new[Len(old) + 1] = v
      /\ DOMAIN old = 1..Len(old) /\ DOMAIN new = 1..(Len(old) + 1)
  OBVIOUS
<1>2. Range(new) = Range(old) \cup {v}
  <2>1. ASSUME NEW i \in DOMAIN old PROVE \E j \in DOMAIN new : new[j] = old[i]
    BY <1>1
  <2>2. \E j \in DOMAIN new : new[j] = v
    BY <1>1
  <2>3. ASSUME NEW j \in DOMAIN new PROVE new[j] = v \/ \E i \in DOMAIN old : new[j] = old[i]
    BY <1>1
  <2> QED
    BY <2>1, <2>2, <2>3 DEF Range
<1> QED
  BY <1>1, <1>2

\* It holds what it held, and the newcomer.
LEMMA RangeGrows ==
  ASSUME NEW S, NEW old \in Seq(S), NEW v \in S
  PROVE  Range(Append(old, v)) = Range(old) \cup {v}
<1> DEFINE new == Append(old, v)
<1>1. /\ \A i \in DOMAIN old : i \in DOMAIN new /\ new[i] = old[i]
      /\ \E j \in DOMAIN new : new[j] = v
      /\ \A j \in DOMAIN new : new[j] = v \/ (j \in DOMAIN old /\ new[j] = old[j])
  <2>1. /\ new \in Seq(S) /\ Len(new) = Len(old) + 1 /\ Len(old) \in Nat
        /\ \A i \in 1..Len(old) : new[i] = old[i]
        /\ new[Len(old) + 1] = v
        /\ DOMAIN old = 1..Len(old) /\ DOMAIN new = 1..(Len(old) + 1)
    OBVIOUS
  <2> HIDE DEF new
  <2> QED
    BY <2>1
<1> HIDE DEF new
<1>2. Range(new) = Range(old) \cup {v}
  BY <1>1 DEF Range
<1> QED
  BY <1>2 DEF new

\* A turn up to the active one is the active one or an earlier one.
LEMMA Ordered ==
  ASSUME NEW t \in Turns, NEW a \in Turns \cup {None}, t <= a
  PROVE  a # None /\ (t = a \/ t < a)
BY CodexAssumption DEF Turns, None

LEMMA SendTypes ==
  ASSUME CodexTypeOK, NEW t \in Turns, Send(t)
  PROVE  CodexTypeOK'
<1>0. SeamTypes /\ CallTypes /\ FlagTypes /\ AskTypes /\ EndsTypes
  BY TypesAre
<1> USE <1>0, CodexValues DEF Send, SpawnsAppServer, SpawnsExec, SpawnThrows, askVars
<1>1. SeamTypes'
  BY DEF SeamTypes
<1>2. CallTypes'
  BY DEF CallTypes
<1>3. FlagTypes'
  BY DEF FlagTypes, SeamTypes
<1>4. AskTypes'
  BY DEF AskTypes, SeamTypes
<1>5. EndsTypes'
  BY DEF EndsTypes, SeamTypes
<1> QED
  BY <1>1, <1>2, <1>3, <1>4, <1>5, TypesAre

LEMMA SpawnErrorTypes ==
  ASSUME CodexTypeOK, NEW t \in Turns, SpawnError(t)
  PROVE  CodexTypeOK'
<1>0. SeamTypes /\ CallTypes /\ FlagTypes /\ AskTypes /\ EndsTypes
  BY TypesAre
<1> USE <1>0, CodexValues DEF SpawnError, Settles, childVars, askVars
<1>1. SeamTypes'
  BY DEF SeamTypes
<1>2. CallTypes'
  BY DEF CallTypes
<1>3. FlagTypes'
  BY DEF FlagTypes, SeamTypes
<1>4. AskTypes'
  BY DEF AskTypes, SeamTypes
<1>5. EndsTypes'
  BY DEF EndsTypes, SeamTypes
<1> QED
  BY <1>1, <1>2, <1>3, <1>4, <1>5, TypesAre

LEMMA AnswerTypes ==
  ASSUME CodexTypeOK, NEW t \in Turns, NEW verdict \in Verdicts, Answer(t, verdict)
  PROVE  CodexTypeOK'
<1>0. SeamTypes /\ CallTypes /\ FlagTypes /\ AskTypes /\ EndsTypes
  BY TypesAre
<1> USE <1>0, CodexValues DEF Answer, childVars, seamVars, askVars
<1>1. SeamTypes'
  BY DEF SeamTypes
<1>2. CallTypes'
  BY DEF CallTypes
<1>3. FlagTypes'
  BY DEF FlagTypes, SeamTypes
<1>4. AskTypes'
  BY DEF AskTypes, SeamTypes
<1>5. EndsTypes'
  BY DEF EndsTypes, SeamTypes
<1> QED
  BY <1>1, <1>2, <1>3, <1>4, <1>5, TypesAre

LEMMA ApprovalTypes ==
  ASSUME CodexTypeOK, NEW t \in Turns, NEW id \in RpcIds, AskApproval(t, id) \/ RequestResolved(t, id)
  PROVE  CodexTypeOK'
<1>0. SeamTypes /\ CallTypes /\ FlagTypes /\ AskTypes /\ EndsTypes
  BY TypesAre
<1>1. AskTypes'
  <2>1. \A f \in [Turns -> SUBSET RpcIds] :
          /\ [f EXCEPT ![t] = @ \cup {id}] \in [Turns -> SUBSET RpcIds]
          /\ [f EXCEPT ![t] = @ \ {id}] \in [Turns -> SUBSET RpcIds]
    OBVIOUS
  <2>2. PICK open, seen, gone \in [Turns -> SUBSET RpcIds] :
          open = approvals /\ seen = seenApprovalIds /\ gone = withdrawn
    BY <1>0 DEF AskTypes
  <2>3. \/ approvals' = [open EXCEPT ![t] = @ \cup {id}]
        \/ approvals' = [open EXCEPT ![t] = @ \ {id}]
    BY <2>2 DEF AskApproval, RequestResolved
  <2>4. seenApprovalIds' = [seen EXCEPT ![t] = @ \cup {id}] \/ seenApprovalIds' = seen
    BY <2>2 DEF AskApproval, RequestResolved
  <2>5. withdrawn' = [gone EXCEPT ![t] = @ \cup {id}] \/ withdrawn' = gone
    BY <2>2 DEF AskApproval, RequestResolved
  <2>6. told' = told
    BY DEF AskApproval, RequestResolved
  <2>7. approvals' \in [Turns -> SUBSET RpcIds]
    BY <2>1, <2>3
  <2>8. seenApprovalIds' \in [Turns -> SUBSET RpcIds] /\ withdrawn' \in [Turns -> SUBSET RpcIds]
    BY <2>1, <2>4, <2>5
  <2> QED
    BY <1>0, <2>6, <2>7, <2>8 DEF AskTypes
<1> USE <1>0, CodexValues DEF AskApproval, RequestResolved, childVars, seamVars, turnVars
<1>2. SeamTypes'
  BY DEF SeamTypes
<1>3. CallTypes'
  BY DEF CallTypes
<1>4. FlagTypes'
  BY DEF FlagTypes, SeamTypes
<1>5. EndsTypes'
  BY DEF EndsTypes, SeamTypes
<1> QED
  BY <1>1, <1>2, <1>3, <1>4, <1>5, TypesAre

LEMMA StartedTypes ==
  ASSUME CodexTypeOK, NEW t \in Turns, ThreadStarted(t)
  PROVE  CodexTypeOK'
<1>0. SeamTypes /\ CallTypes /\ FlagTypes /\ AskTypes /\ EndsTypes
  BY TypesAre
<1> USE <1>0, CodexValues DEF ThreadStarted, Settles, childVars, askVars
<1>1. SeamTypes'
  BY DEF SeamTypes
<1>2. CallTypes'
  BY DEF CallTypes
<1>3. FlagTypes'
  BY DEF FlagTypes, SeamTypes
<1>4. AskTypes'
  BY DEF AskTypes, SeamTypes
<1>5. EndsTypes'
  BY DEF EndsTypes, SeamTypes
<1> QED
  BY <1>1, <1>2, <1>3, <1>4, <1>5, TypesAre

LEMMA ResultTypes ==
  ASSUME CodexTypeOK, NEW t \in Turns, TurnCompleted(t) \/ OddStatus(t) \/ Mismatch(t) \/ Overflow(t)
  PROVE  CodexTypeOK'
<1>0. SeamTypes /\ CallTypes /\ FlagTypes /\ AskTypes /\ EndsTypes
  BY TypesAre
<1> USE <1>0, CodexValues DEF TurnCompleted, OddStatus, Mismatch, Overflow, Mismatches, Settles, Ends, Invalidated, Terminates, childVars
<1>1. SeamTypes'
  BY DEF SeamTypes
<1>2. CallTypes'
  BY DEF CallTypes
<1>3. FlagTypes'
  BY DEF FlagTypes, SeamTypes
<1>4. AskTypes'
  BY DEF AskTypes, SeamTypes
<1>5. EndsTypes'
  <2>1. [ends EXCEPT ![t] = Append(@, active)] \in [Turns -> Seq(Turns \cup {None})]
    BY ListGrows DEF EndsTypes, SeamTypes
  <2> QED
    BY <2>1 DEF EndsTypes
<1> QED
  BY <1>1, <1>2, <1>3, <1>4, <1>5, TypesAre

LEMMA TimeoutTypes ==
  ASSUME CodexTypeOK, NEW t \in Turns, Timeout(t)
  PROVE  CodexTypeOK'
<1>0. SeamTypes /\ CallTypes /\ FlagTypes /\ AskTypes /\ EndsTypes
  BY TypesAre
<1> USE <1>0, CodexValues DEF Timeout, childVars, seamVars, askVars
<1>1. SeamTypes'
  BY DEF SeamTypes
<1>2. CallTypes'
  BY DEF CallTypes
<1>3. FlagTypes'
  BY DEF FlagTypes, SeamTypes
<1>4. AskTypes'
  BY DEF AskTypes, SeamTypes
<1>5. EndsTypes'
  BY DEF EndsTypes, SeamTypes
<1> QED
  BY <1>1, <1>2, <1>3, <1>4, <1>5, TypesAre

LEMMA ContinueTypes ==
  ASSUME CodexTypeOK, NEW t \in Turns, Continue(t)
  PROVE  CodexTypeOK'
<1>0. SeamTypes /\ CallTypes /\ FlagTypes /\ AskTypes /\ EndsTypes
  BY TypesAre
<1> USE <1>0, CodexValues DEF Continue, Calls_, Done, HandshakeFails, Settles, Invalidated, Terminates, childVars
<1>1. SeamTypes'
  BY DEF SeamTypes
<1>2. CallTypes'
  BY DEF CallTypes
<1>3. FlagTypes'
  BY DEF FlagTypes, SeamTypes
<1>4. AskTypes'
  BY DEF AskTypes, SeamTypes
<1>5. EndsTypes'
  BY DEF EndsTypes, SeamTypes
<1> QED
  BY <1>1, <1>2, <1>3, <1>4, <1>5, TypesAre

LEMMA CloseTypes ==
  ASSUME CodexTypeOK, NEW t \in Turns, Close(t)
  PROVE  CodexTypeOK'
<1>0. SeamTypes /\ CallTypes /\ FlagTypes /\ AskTypes /\ EndsTypes
  BY TypesAre
<1> USE <1>0, CodexValues DEF Close, Superseded, Closes, ExecCloses, Exited, NoEnd, Invalidated
<1>1. SeamTypes'
  BY DEF SeamTypes
<1>2. CallTypes'
  BY DEF CallTypes
<1>3. FlagTypes'
  BY DEF FlagTypes, SeamTypes
<1>4. AskTypes'
  BY DEF AskTypes, SeamTypes
<1>5. EndsTypes'
  <2>1. [ends EXCEPT ![t] = Append(@, active)] \in [Turns -> Seq(Turns \cup {None})]
    BY ListGrows DEF EndsTypes, SeamTypes
  <2> QED
    BY <2>1 DEF EndsTypes
<1> QED
  BY <1>1, <1>2, <1>3, <1>4, <1>5, TypesAre

LEMMA RespondTypes ==
  ASSUME CodexTypeOK, NEW t \in Turns, NEW id \in RpcIds, Respond(t, id)
  PROVE  CodexTypeOK'
<1>0. SeamTypes /\ CallTypes /\ FlagTypes /\ AskTypes /\ EndsTypes
  BY TypesAre
<1> USE <1>0, CodexValues DEF Respond, Remaining, childVars, seamVars, turnVars
<1>1. SeamTypes'
  BY DEF SeamTypes
<1>2. CallTypes'
  BY DEF CallTypes
<1>3. FlagTypes'
  BY DEF FlagTypes, SeamTypes
<1>4. AskTypes'
  <2>1. [told EXCEPT ![t] = Append(@, id)] \in [Turns -> Seq(RpcIds)]
    BY ListGrows DEF AskTypes
  <2> QED
    BY <2>1 DEF AskTypes
<1>5. EndsTypes'
  BY DEF EndsTypes, SeamTypes
<1> QED
  BY <1>1, <1>2, <1>3, <1>4, <1>5, TypesAre

LEMMA KillTypes ==
  ASSUME CodexTypeOK, Kill
  PROVE  CodexTypeOK'
<1>0. SeamTypes /\ CallTypes /\ FlagTypes /\ AskTypes /\ EndsTypes
  BY TypesAre
<1> USE <1>0, CodexValues DEF Kill, Terminates
<1>1. SeamTypes'
  BY DEF SeamTypes
<1>2. CallTypes'
  BY DEF CallTypes
<1>3. FlagTypes'
  BY DEF FlagTypes, SeamTypes
<1>4. AskTypes'
  BY DEF AskTypes, SeamTypes
<1>5. EndsTypes'
  BY DEF EndsTypes, SeamTypes
<1> QED
  BY <1>1, <1>2, <1>3, <1>4, <1>5, TypesAre

---------------------------------------------------------------------------
(* Answers are awaited.                                                     *)

\* Approvals are only dropped.
LEMMA AskedShrinks ==
  ASSUME Owed, UNCHANGED <<seenApprovalIds, told, withdrawn>>,
         \A u \in Turns : approvals'[u] \subseteq approvals[u]
  PROVE  Owed'
BY DEF Owed, Waiting

LEMMA AskApprovalAsked ==
  ASSUME CodexTypeOK, Owed, NEW t \in Turns, NEW id \in RpcIds, AskApproval(t, id)
  PROVE  Owed'
<1>1. /\ id \notin seenApprovalIds[t] /\ UNCHANGED <<told, withdrawn>>
      /\ \A u \in Turns : /\ seenApprovalIds[u] \subseteq seenApprovalIds'[u]
                          /\ u # t => approvals'[u] = approvals[u]
      /\ approvals'[t] = approvals[t] \cup {id} /\ id \in seenApprovalIds'[t]
  BY DEF AskApproval, CodexTypeOK
<1>2. ASSUME NEW u \in Turns
      PROVE  /\ (withdrawn[u] \cup Range(told[u]) \subseteq seenApprovalIds[u])'
             /\ (approvals[u] \subseteq Waiting(u))'
  BY <1>1 DEF Owed, Waiting
<1> QED
  BY <1>2 DEF Owed

LEMMA RequestResolvedAsked ==
  ASSUME CodexTypeOK, Owed, NEW t \in Turns, NEW id \in RpcIds, RequestResolved(t, id)
  PROVE  Owed'
<1>1. /\ id \in seenApprovalIds[t] /\ UNCHANGED <<told, seenApprovalIds>>
      /\ \A u \in Turns : u # t => approvals'[u] = approvals[u] /\ withdrawn'[u] = withdrawn[u]
      /\ approvals'[t] = approvals[t] \ {id} /\ withdrawn'[t] = withdrawn[t] \cup {id}
  BY DEF RequestResolved, CodexTypeOK
<1>2. ASSUME NEW u \in Turns
      PROVE  /\ (withdrawn[u] \cup Range(told[u]) \subseteq seenApprovalIds[u])'
             /\ (approvals[u] \subseteq Waiting(u))'
  BY <1>1 DEF Owed, Waiting
<1> QED
  BY <1>2 DEF Owed

LEMMA RespondAsked ==
  ASSUME CodexTypeOK, Owed, NEW t \in Turns, NEW id \in RpcIds, Respond(t, id)
  PROVE  /\ Owed'
         /\ \A u \in Turns : told'[u] # told[u] => told'[u][Len(told'[u])] \in Waiting(u)
<1>1. /\ id \in approvals[t] /\ UNCHANGED <<seenApprovalIds, withdrawn>>
      /\ \A u \in Turns : u # t => approvals'[u] = approvals[u] /\ told'[u] = told[u]
      /\ approvals'[t] = approvals[t] \ {id}
      /\ told'[t] \in {told[t], Append(told[t], id)}
  BY DEF Respond, Remaining, CodexTypeOK
<1>0. told \in [Turns -> Seq(RpcIds)]
  BY DEF CodexTypeOK
<1>2. told'[t] # told[t] =>
        Range(told'[t]) = Range(told[t]) \cup {id} /\ told'[t][Len(told'[t])] = id
  <2>1. told[t] \in Seq(RpcIds)
    BY <1>0
  <2> QED
    BY <1>1, <2>1, Grows
<1>3. ASSUME NEW u \in Turns
      PROVE  /\ (withdrawn[u] \cup Range(told[u]) \subseteq seenApprovalIds[u])'
             /\ (approvals[u] \subseteq Waiting(u))'
  BY <1>1, <1>2 DEF Owed, Waiting
<1>4. id \in Waiting(t)
  BY <1>1 DEF Owed
<1>5. \A u \in Turns : told'[u] # told[u] => told'[u][Len(told'[u])] \in Waiting(u)
  BY <1>1, <1>2, <1>4
<1> QED
  BY <1>3, <1>5 DEF Owed

\* Nothing else is written to a child's stdin by an operator, and nothing else
\* keeps an approval.
LEMMA OthersDrop ==
  ASSUME CodexTypeOK, NEW t \in Turns,
         \/ Send(t) \/ SpawnError(t) \/ Timeout(t) \/ Continue(t) \/ Close(t) \/ Kill
         \/ \E verdict \in Verdicts : Answer(t, verdict)
         \/ ThreadStarted(t) \/ TurnCompleted(t) \/ OddStatus(t) \/ Mismatch(t) \/ Overflow(t)
  PROVE  /\ UNCHANGED <<seenApprovalIds, told, withdrawn>>
         /\ \A u \in Turns : approvals'[u] \subseteq approvals[u]
<1>0. approvals \in [Turns -> SUBSET RpcIds] /\ responder \in Turns \cup {None}
  BY DEF CodexTypeOK
<1>1. CASE Send(t) \/ SpawnError(t) \/ Timeout(t) \/ ThreadStarted(t)
  BY <1>1 DEF Send, SpawnError, Timeout, ThreadStarted, askVars
<1>2. CASE \E verdict \in Verdicts : Answer(t, verdict)
  BY <1>2 DEF Answer, askVars
<1>3. CASE Continue(t)
  BY <1>0, <1>3 DEF Continue, Calls_, Done, HandshakeFails, Invalidated
<1>4. CASE Close(t)
  BY <1>0, <1>4 DEF Close, Invalidated
<1>5. CASE Kill
  BY <1>0, <1>5 DEF Kill
<1>6. CASE TurnCompleted(t) \/ OddStatus(t) \/ Mismatch(t) \/ Overflow(t)
  BY <1>0, <1>6 DEF TurnCompleted, OddStatus, Mismatch, Overflow, Mismatches, Invalidated
<1> QED
  BY <1>1, <1>2, <1>3, <1>4, <1>5, <1>6

---------------------------------------------------------------------------
(* A process of app-server ends its turn once.                              *)
Served == Begun /\ Resolved /\ EndedOnce

\* A turn that is over stays over.
LEMMA OverStays ==
  ASSUME \A p \in Turns : Range(ends[p]) \subseteq Range(ends'[p]),
         \A t \in Turns : outcome[t] = "failed" => outcome'[t] = "failed",
         NEW t \in Turns
  PROVE  /\ Over(t) => Over(t)'
         /\ t \in EndedTurns => t \in EndedTurns'
BY DEF Over, EndedTurns

\* turn.ended goes to the active turn.
LEMMA EndsGrow ==
  ASSUME CodexTypeOK, NEW t \in Turns, Ends(t)
  PROVE  /\ \A p \in Turns : p # t => ends'[p] = ends[p]
         /\ ends[t] = << >> => Len(ends'[t]) <= 1
         /\ \A p \in Turns : Range(ends[p]) \subseteq Range(ends'[p])
         /\ ended' /\ active \in EndedTurns'
<1>1. /\ ends \in [Turns -> Seq(Turns \cup {None})] /\ active \in Turns \cup {None}
      /\ ends' = [ends EXCEPT ![t] = Append(@, active)] /\ ended'
  BY DEF CodexTypeOK, Ends
<1>2. /\ \A p \in Turns : p # t => ends'[p] = ends[p]
      /\ ends[t] = << >> => Len(ends'[t]) <= 1
      /\ \A p \in Turns : Range(ends[p]) \subseteq Range(ends'[p])
      /\ active \in Range(ends'[t])
  <2>1. /\ ends[t] \in Seq(Turns \cup {None}) /\ ends'[t] = Append(ends[t], active)
        /\ \A p \in Turns : p # t => ends'[p] = ends[p]
    BY <1>1
  <2>2. Range(ends'[t]) = Range(ends[t]) \cup {active}
    BY <1>1, <2>1, RangeGrows
  <2>3. ends[t] = << >> => Len(ends'[t]) <= 1
    BY <2>1
  <2>4. \A p \in Turns : Range(ends[p]) \subseteq Range(ends'[p])
    BY <2>1, <2>2
  <2> QED
    BY <2>1, <2>2, <2>3, <2>4
<1> QED
  BY <1>1, <1>2 DEF EndedTurns

\* A step that ends, settles and starts nothing.
LEMMA NothingEnds ==
  ASSUME Served, UNCHANGED <<child, active, ended, phase, outcome, resultSeen, ends, odd>>,
         \A t \in Turns : phase[t] = "closed" => due'[t] \in {due[t], "", "failed"}
  PROVE  Served'
<1>1. Begun'
  BY DEF Served, Begun, Over, EndedTurns
<1>2. Resolved'
  BY DEF Served, Resolved, Over, EndedTurns
<1>3. EndedOnce'
  BY DEF Served, EndedOnce
<1> QED
  BY <1>1, <1>2, <1>3 DEF Served

\* The send of a process that is open is settled.
LEMMA Settled ==
  ASSUME CodexTypeOK, Served, NEW t \in Turns, NEW how \in {"ok", "failed"}, Settles(t, how),
         how = "ok" => phase[t] # "closed",
         UNCHANGED <<child, active, phase, ends, odd>>,
         \A u \in Turns : resultSeen'[u] => resultSeen[u] \/ (u = t /\ Over(t)'),
         \A u \in Turns : resultSeen[u] => resultSeen'[u],
         \A u \in Turns : phase[u] = "closed" => due'[u] \in {due[u], "", "failed"}
  PROVE  Served'
<1>1. /\ outcome \in [Turns -> Outcomes]
      /\ \A u \in Turns : outcome'[u] = outcome[u] \/ (u = t /\ outcome[u] = "" /\ outcome'[u] = how)
      /\ ended' => ended \/ (t = active /\ outcome'[t] = "failed")
  BY DEF Settles, settled, CodexTypeOK
<1>2. \A u \in Turns : (Over(u) => Over(u)') /\ (u \in EndedTurns => u \in EndedTurns')
  BY <1>1, OverStays
<1>3. Begun'
  <2>1. ended' => active # None /\ Over(active)'
    <3>1. active \in Turns \cup {None} /\ (t = active => active # None)
      BY TurnsAre DEF CodexTypeOK
    <3>2. outcome'[t] = "failed" => Over(t)'
      BY DEF Over
    <3> QED
      BY <1>1, <1>2, <3>1, <3>2 DEF Served, Begun
  <2> QED
    BY <1>2, <2>1 DEF Served, Begun
<1>4. Resolved'
  BY <1>1, <1>2 DEF Served, Resolved
<1>5. EndedOnce'
  BY DEF Served, EndedOnce
<1> QED
  BY <1>3, <1>4, <1>5 DEF Served

\* A process reports its turn's result, or breaks the protocol.
LEMMA ResultServed ==
  ASSUME CodexTypeOK, Served, NEW t \in Turns, phase[t] = "open",
         resultSeen' = [resultSeen EXCEPT ![t] = TRUE],
         UNCHANGED <<child, active, phase, due>>,
         \/ ~resultSeen[t] /\ Ends(t) /\ UNCHANGED <<outcome, odd>>
         \/ /\ Settles(t, "failed") /\ UNCHANGED ends
            /\ (outcome[t] = "" /\ UNCHANGED odd) \/ odd' = [odd EXCEPT ![t] = TRUE]
  PROVE  Served'
<1>0. /\ resultSeen \in [Turns -> BOOLEAN] /\ odd \in [Turns -> BOOLEAN] /\ outcome \in [Turns -> Outcomes]
      /\ active \in Turns \cup {None} /\ ends[t] \in Seq(Turns \cup {None})
  BY DEF CodexTypeOK
<1>8. t <= active /\ active # None /\ (t = active \/ t < active)
  <2>1. t <= active
    BY DEF Served, Begun
  <2> QED
    BY <1>0, <2>1, Ordered
<1>1. /\ t <= active /\ active # None
      /\ \A u \in Turns : u # t => resultSeen'[u] = resultSeen[u]
      /\ resultSeen'[t]
  BY <1>0, <1>8
<1>2. /\ \A p \in Turns : Range(ends[p]) \subseteq Range(ends'[p])
      /\ \A u \in Turns : outcome[u] = "failed" => outcome'[u] = "failed"
      /\ \A u \in Turns : odd[u] => odd'[u]
      /\ \A u \in Turns : outcome'[u] = "ok" => outcome[u] = "ok"
      /\ \A u \in Turns : u # t => outcome'[u] = outcome[u] /\ odd'[u] = odd[u]
  BY <1>0, EndsGrow DEF Settles, settled
<1>3. \A u \in Turns : (Over(u) => Over(u)') /\ (u \in EndedTurns => u \in EndedTurns')
  BY <1>2, OverStays
<1>4. odd'[t] \/ Over(t)'
  <2>1. CASE Ends(t)
    <3>1. active \in EndedTurns'
      BY <2>1, EndsGrow
    <3>2. CASE t = active
      BY <3>1, <3>2 DEF Over
    <3>3. CASE t < active
      BY <1>3, <3>3 DEF Served, Begun
    <3> QED
      BY <1>8, <3>2, <3>3
  <2>2. CASE Settles(t, "failed") /\ outcome[t] = ""
    BY <1>0, <2>2 DEF Settles, settled, Over
  <2>3. CASE odd' = [odd EXCEPT ![t] = TRUE]
    BY <1>0, <2>3
  <2> QED
    BY <2>1, <2>2, <2>3
<1>5. Begun'
  <2>1. ended' => Over(active)'
    <3>1. CASE Ends(t)
      BY <3>1, EndsGrow DEF Over
    <3>2. CASE Settles(t, "failed")
      BY <1>0, <1>1, <1>3, <3>2 DEF Settles, settled, Served, Begun, Over
    <3> QED
      BY <3>1, <3>2
  <2> QED
    BY <1>1, <1>3, <2>1 DEF Served, Begun
<1>6. Resolved'
  <2> SUFFICES ASSUME NEW u \in Turns
               PROVE  /\ resultSeen'[u] => odd'[u] \/ Over(u)'
                      /\ phase[u] = "closed" => due[u] \in {"", "failed"}
                      /\ phase[u] = "closed" /\ outcome'[u] = "ok" /\ ~odd'[u] => u \in EndedTurns'
    BY DEF Resolved
  <2>1. resultSeen'[u] => odd'[u] \/ Over(u)'
    BY <1>1, <1>2, <1>3, <1>4 DEF Served, Resolved
  <2> QED
    BY <1>2, <1>3, <2>1 DEF Served, Resolved
<1>7. EndedOnce'
  <2>1. CASE ~resultSeen[t] /\ Ends(t)
    <3>1. ends[t] = << >>
      BY <2>1 DEF Served, EndedOnce
    <3>2. Len(ends'[t]) <= 1 /\ \A p \in Turns : p # t => ends'[p] = ends[p]
      BY <2>1, <3>1, EndsGrow
    <3>4. ASSUME NEW p \in Turns
          PROVE  /\ Len(ends'[p]) <= 1
                 /\ ends'[p] # << >> => resultSeen'[p] \/ phase[p] = "closed"
      <4>1. CASE p = t
        BY <1>1, <3>2, <4>1
      <4>2. CASE p # t
        BY <1>1, <3>2, <4>2 DEF Served, EndedOnce
      <4> QED
        BY <4>1, <4>2
    <3> QED
      BY <3>4 DEF EndedOnce
  <2>2. CASE UNCHANGED ends
    BY <1>1, <2>2 DEF Served, EndedOnce
  <2> QED
    BY <2>1, <2>2
<1> QED
  BY <1>5, <1>6, <1>7 DEF Served

\* Lines, timers and calls that end and settle nothing.
LEMMA QuietServed ==
  ASSUME CodexTypeOK, Served, transport = "app-server", NEW t \in Turns,
         \/ \E verdict \in Verdicts : Answer(t, verdict)
         \/ \E id \in RpcIds : AskApproval(t, id) \/ RequestResolved(t, id) \/ Respond(t, id)
         \/ ThreadStarted(t) \/ Timeout(t) \/ Kill
  PROVE  Served'
<1>0. due \in [Turns -> Fates]
  BY DEF CodexTypeOK
<1>1. UNCHANGED <<child, active, ended, phase, outcome, resultSeen, ends, odd>>
  BY DEF Answer, AskApproval, RequestResolved, Respond, ThreadStarted, Timeout, Kill,
         childVars, seamVars, turnVars
<1>2. ASSUME NEW u \in Turns, phase[u] = "closed" PROVE due'[u] \in {due[u], "", "failed"}
  <2>1. CASE \E verdict \in Verdicts : Answer(t, verdict)
    BY <1>0, <1>2, <2>1 DEF Answer, Listens, App
  <2>2. CASE Timeout(t)
    BY <1>0, <2>2 DEF Timeout
  <2>3. CASE UNCHANGED due
    BY <2>3
  <2> QED
    BY <2>1, <2>2, <2>3 DEF AskApproval, RequestResolved, Respond, ThreadStarted, Kill, turnVars
<1> QED
  BY <1>1, <1>2, NothingEnds

LEMMA SpawnErrorServed ==
  ASSUME CodexTypeOK, Served, NEW t \in Turns, SpawnError(t)
  PROVE  Served'
<1>0. outcome \in [Turns -> Outcomes] /\ resultSeen \in [Turns -> BOOLEAN]
  BY DEF CodexTypeOK
<1>1. /\ Settles(t, "failed") /\ phase[t] = "open" /\ outcome[t] = ""
      /\ resultSeen' = [resultSeen EXCEPT ![t] = TRUE]
      /\ UNCHANGED <<child, active, phase, ends, odd, due>>
  BY DEF SpawnError, childVars
<1>2. Over(t)'
  BY <1>0, <1>1 DEF Settles, settled, Over
<1>3. /\ \A u \in Turns : resultSeen'[u] => resultSeen[u] \/ (u = t /\ Over(t)')
      /\ \A u \in Turns : resultSeen[u] => resultSeen'[u]
  BY <1>0, <1>1, <1>2
<1> QED
  BY <1>1, <1>3, Settled

LEMMA ContinueServed ==
  ASSUME CodexTypeOK, Served, NEW t \in Turns, Continue(t)
  PROVE  Served'
<1>0. due \in [Turns -> Fates]
  BY DEF CodexTypeOK
<1>1. /\ \A u \in Turns : phase[u] = "closed" => due'[u] \in {due[u], "", "failed"}
      /\ UNCHANGED <<child, active, phase, ends, odd, resultSeen>>
  BY <1>0 DEF Continue, childVars
<1>2. CASE Calls_(t)
  BY <1>1, <1>2, NothingEnds DEF Calls_
<1>3. CASE Done(t)
  <2>1. due[t] = "result"
    BY <1>3 DEF Done, After
  <2>2. phase[t] # "closed"
    BY <2>1 DEF Served, Resolved
  <2> QED
    BY <1>1, <1>3, <2>2, Settled DEF Done
<1>4. CASE HandshakeFails(t)
  BY <1>1, <1>4, Settled DEF HandshakeFails
<1> QED
  BY <1>2, <1>3, <1>4 DEF Continue

\* A turn that completes, a status nobody knows, a line that cannot be read.
LEMMA ResultsServed ==
  ASSUME CodexTypeOK, Served, transport = "app-server", NEW t \in Turns,
         TurnCompleted(t) \/ OddStatus(t) \/ Mismatch(t) \/ Overflow(t)
  PROVE  Served'
<1>1. /\ phase[t] = "open"
      /\ resultSeen' = [resultSeen EXCEPT ![t] = TRUE]
      /\ UNCHANGED <<child, active, phase, due>>
  BY DEF TurnCompleted, OddStatus, Mismatch, Overflow, Mismatches, Reads, Listens, App, Exec, childVars
<1>2. CASE TurnCompleted(t)
  <2>1. ~resultSeen[t] /\ Ends(t) /\ UNCHANGED <<outcome, odd>>
    BY <1>2 DEF TurnCompleted, Reads, Listens, App, Exec
  <2> QED
    BY <1>1, <2>1, ResultServed
<1>3. CASE OddStatus(t)
  <2>1. Settles(t, "failed") /\ UNCHANGED ends /\ odd' = [odd EXCEPT ![t] = TRUE]
    BY <1>3 DEF OddStatus, Mismatches
  <2> QED
    BY <1>1, <2>1, ResultServed
<1>4. CASE Mismatch(t) \/ Overflow(t)
  <2>1. \/ ~resultSeen[t] /\ Ends(t) /\ UNCHANGED <<outcome, odd>>
        \/ Settles(t, "failed") /\ UNCHANGED ends /\ outcome[t] = "" /\ UNCHANGED odd
    BY <1>4 DEF Mismatch, Overflow, Mismatches, Reads, Listens, App, Exec, settled
  <2> QED
    BY <1>1, <2>1, ResultServed
<1> QED
  BY <1>2, <1>3, <1>4

\* A process exits.  It was the newest, or its turn is over.
LEMMA CloseServed ==
  ASSUME CodexTypeOK, Served, transport = "app-server", NEW t \in Turns, Close(t)
  PROVE  Served'
<1>0. /\ active \in Turns \cup {None} /\ ends \in [Turns -> Seq(Turns \cup {None})]
      /\ phase \in [Turns -> Phases] /\ due \in [Turns -> Fates]
  BY DEF CodexTypeOK
<1>1. /\ phase[t] = "open"
      /\ phase'[t] = "closed" /\ \A u \in Turns : u # t => phase'[u] = phase[u]
      /\ due'[t] \in {"", "failed"} /\ \A u \in Turns : u # t => due'[u] = due[u]
      /\ UNCHANGED <<active, outcome, resultSeen, odd>>
      /\ (child # t /\ NoEnd /\ UNCHANGED child) \/ (Exited(t) /\ ended' = (ended \/ ~resultSeen[t]))
  BY <1>0 DEF Close, Superseded, Closes, ExecCloses
<1>2. active # None /\ (t = active \/ t < active)
  <2>1. t <= active
    BY <1>1 DEF Served, Begun
  <2> QED
    BY <1>0, <2>1, Ordered
<1>3. \/ ends' = ends /\ ended' = ended /\ (child # t \/ resultSeen[t])
      \/ ~resultSeen[t] /\ Ends(t)
  <2>1. ended \in BOOLEAN /\ resultSeen[t] \in BOOLEAN
    BY DEF CodexTypeOK
  <2>2. CASE child # t
    BY <1>1, <2>2 DEF Exited, NoEnd
  <2>3. CASE Exited(t) /\ resultSeen[t] /\ ended' = (ended \/ ~resultSeen[t])
    BY <2>1, <2>3 DEF Exited
  <2>4. CASE Exited(t) /\ ~resultSeen[t] /\ ended' = (ended \/ ~resultSeen[t])
    BY <2>1, <2>4 DEF Exited, Ends
  <2> QED
    BY <1>1, <2>1, <2>2, <2>3, <2>4
<1>4. \A p \in Turns : Range(ends[p]) \subseteq Range(ends'[p])
  BY <1>3, EndsGrow
<1>5. \A u \in Turns : (Over(u) => Over(u)') /\ (u \in EndedTurns => u \in EndedTurns')
  BY <1>1, <1>4, OverStays
<1>6. Begun'
  <2>1. \A u \in Turns : phase'[u] # "none" => u <= active
    BY <1>1 DEF Served, Begun
  <2>2. \A u \in Turns : phase'[u] = "open" /\ u = active => child' = u
    BY <1>1 DEF Served, Begun, Exited
  <2>3. ended' => Over(active)'
    <3>1. CASE Ends(t)
      BY <1>1, <3>1, EndsGrow DEF Over
    <3>2. CASE ended' = ended
      BY <1>0, <1>1, <1>2, <1>5, <3>2 DEF Served, Begun
    <3> QED
      BY <1>3, <3>1, <3>2
  <2> QED
    BY <1>1, <1>2, <1>5, <2>1, <2>2, <2>3 DEF Served, Begun
<1>7. Resolved'
  <2>1. outcome[t] = "ok" /\ ~odd[t] => t \in EndedTurns'
    <3>1. CASE Over(t)
      BY <1>5, <3>1 DEF Over
    <3>2. CASE t = active /\ Ends(t)
      BY <3>2, EndsGrow
    <3>3. CASE t < active
      BY <3>1, <3>3 DEF Served, Begun
    <3>4. CASE resultSeen[t]
      BY <3>1, <3>4 DEF Served, Resolved
    <3>5. CASE child # t
      BY <1>1, <1>2, <3>3, <3>5 DEF Served, Begun
    <3> QED
      BY <1>2, <1>3, <3>2, <3>3, <3>4, <3>5
  <2> QED
    BY <1>1, <1>5, <2>1 DEF Served, Resolved
<1>8. EndedOnce'
  <2>1. ASSUME NEW u \in Turns
        PROVE  Len(ends'[u]) <= 1 /\ (ends'[u] # << >> => resultSeen[u] \/ phase'[u] = "closed")
    <3>1. CASE ends'[u] = ends[u]
      BY <1>1, <3>1 DEF Served, EndedOnce
    <3>2. CASE u = t /\ ~resultSeen[t] /\ Ends(t)
      <4>1. ends[t] = << >>
        BY <1>1, <3>2 DEF Served, EndedOnce
      <4> QED
        BY <1>1, <3>2, <4>1, EndsGrow
    <3>3. u # t /\ Ends(t) => ends'[u] = ends[u]
      BY EndsGrow
    <3> QED
      BY <1>3, <3>1, <3>2, <3>3
  <2> QED
    BY <1>1, <2>1 DEF EndedOnce
<1> QED
  BY <1>6, <1>7, <1>8 DEF Served

\* The next turn begins when the last is over.
LEMMA SendServed ==
  ASSUME CodexTypeOK, Served, transport = "app-server", NEW t \in Turns, Send(t)
  PROVE  Served'
<1>0. /\ active \in Turns \cup {None} /\ outcome \in [Turns -> Outcomes] /\ phase \in [Turns -> Phases]
  BY DEF CodexTypeOK
<1>1. /\ active = t - 1 /\ active' = t /\ (active = None \/ ended)
      /\ UNCHANGED <<resultSeen, due, ends, odd>>
      /\ SpawnsAppServer(t) \/ SpawnThrows(t)
  BY DEF Send, SpawnsExec, askVars
<1>2. /\ \A u \in Turns : u <= active => u <= t
      /\ ~(t <= active)
      /\ \A u \in Turns : u < t => u < active \/ u = active
  BY <1>0, <1>1, CodexAssumption DEF Turns, None
<1>3. phase[t] = "none" /\ t # None /\ t <= t
  BY <1>2, TurnsAre DEF Served, Begun
<1>4. /\ \A u \in Turns : u # t => phase'[u] = phase[u] /\ outcome'[u] = outcome[u]
      /\ \/ phase'[t] = "open" /\ child' = t /\ ~ended' /\ outcome' = outcome
         \/ phase'[t] = "none" /\ outcome'[t] = "failed"
  BY <1>0, <1>1, <1>3 DEF SpawnsAppServer, SpawnThrows
<1>5. /\ \A p \in Turns : Range(ends[p]) \subseteq Range(ends'[p])
      /\ \A u \in Turns : outcome[u] = "failed" => outcome'[u] = "failed"
  BY <1>1, <1>4
<1>6. \A u \in Turns : (Over(u) => Over(u)') /\ (u \in EndedTurns => u \in EndedTurns')
  BY <1>5, OverStays
<1>7. \A u \in Turns : u < t => Over(u)
  <2>1. ASSUME NEW u \in Turns, u = active PROVE Over(u)
    BY <1>1, <2>1, TurnsAre DEF Served, Begun
  <2> QED
    BY <1>2, <2>1 DEF Served, Begun
<1>8. Begun'
  <2>1. \A u \in Turns : phase'[u] # "none" => u <= t
    BY <1>2, <1>3, <1>4 DEF Served, Begun
  <2>2. \A u \in Turns : phase'[u] = "open" /\ u = t => child' = u
    BY <1>4
  <2>3. ended' => t # None /\ Over(t)'
    BY <1>3, <1>4 DEF Over
  <2> QED
    BY <1>1, <1>6, <1>7, <2>1, <2>2, <2>3 DEF Begun
<1>9. Resolved'
  <2>1. ASSUME NEW u \in Turns
        PROVE  /\ resultSeen[u] => odd[u] \/ Over(u)'
               /\ phase'[u] = "closed" => due[u] \in {"", "failed"}
               /\ phase'[u] = "closed" /\ outcome'[u] = "ok" /\ ~odd[u] => u \in EndedTurns'
    BY <1>4, <1>6 DEF Served, Resolved
  <2> QED
    BY <1>1, <2>1 DEF Resolved
<1>10. EndedOnce'
  BY <1>1, <1>3, <1>4 DEF Served, EndedOnce
<1> QED
  BY <1>8, <1>9, <1>10 DEF Served

---------------------------------------------------------------------------
LEMMA CodexStutter ==
  ASSUME CodexInv, UNCHANGED codexVars
  PROVE  CodexInv'
<1> USE DEF codexVars, childVars, seamVars, askVars, turnVars
<1>1. CodexTypeOK'
  BY DEF CodexInv, CodexTypeOK
<1>2. Owed'
  BY DEF CodexInv, Owed, Waiting
<1>3. transport = "app-server" => Served'
  BY NothingEnds DEF CodexInv, Served
<1> QED
  BY <1>1, <1>2, <1>3 DEF CodexInv, Served

LEMMA CodexNextInv ==
  ASSUME CodexInv, CodexNext
  PROVE  /\ CodexInv'
         /\ \A t \in Turns : told'[t] # told[t] => told'[t][Len(told'[t])] \in Waiting(t)
<1>0. CodexTypeOK /\ Owed /\ (transport = "app-server" => Served)
  BY DEF CodexInv, Served
<1>1. CASE \E t \in Turns, id \in RpcIds : Respond(t, id)
  <2>1. PICK t \in Turns : \E id \in RpcIds : Respond(t, id)
    BY <1>1
  <2>2. PICK id \in RpcIds : Respond(t, id)
    BY <2>1
  <2>3. CodexTypeOK'
    BY <1>0, <2>2, RespondTypes
  <2>4. Owed' /\ \A u \in Turns : told'[u] # told[u] => told'[u][Len(told'[u])] \in Waiting(u)
    BY <1>0, <2>2, RespondAsked
  <2>5. transport = "app-server" => Served'
    BY <1>0, <2>1, QuietServed
  <2>6. UNCHANGED transport
    BY <2>2 DEF Respond
  <2> QED
    BY <2>3, <2>4, <2>5, <2>6 DEF CodexInv, Served
<1>2. CASE \E t \in Turns, id \in RpcIds : AskApproval(t, id) \/ RequestResolved(t, id)
  <2>1. PICK t \in Turns : \E id \in RpcIds : AskApproval(t, id) \/ RequestResolved(t, id)
    BY <1>2
  <2>2. PICK id \in RpcIds : AskApproval(t, id) \/ RequestResolved(t, id)
    BY <2>1
  <2>3. CodexTypeOK'
    BY <1>0, <2>2, ApprovalTypes
  <2>4. Owed'
    BY <1>0, <2>2, AskApprovalAsked, RequestResolvedAsked
  <2>5. transport = "app-server" => Served'
    BY <1>0, <2>1, QuietServed
  <2>6. UNCHANGED <<transport, told>>
    BY <2>2 DEF AskApproval, RequestResolved
  <2> QED
    BY <2>3, <2>4, <2>5, <2>6 DEF CodexInv, Served
<1>3. CASE \E t \in Turns :
             \/ Send(t) \/ SpawnError(t) \/ Timeout(t) \/ Continue(t) \/ Close(t)
             \/ \E verdict \in Verdicts : Answer(t, verdict)
             \/ ThreadStarted(t) \/ TurnCompleted(t) \/ OddStatus(t) \/ Mismatch(t) \/ Overflow(t)
  <2>1. PICK t \in Turns :
             \/ Send(t) \/ SpawnError(t) \/ Timeout(t) \/ Continue(t) \/ Close(t)
             \/ \E verdict \in Verdicts : Answer(t, verdict)
             \/ ThreadStarted(t) \/ TurnCompleted(t) \/ OddStatus(t) \/ Mismatch(t) \/ Overflow(t)
    BY <1>3
  <2>2. CodexTypeOK'
    BY <1>0, <2>1, SendTypes, SpawnErrorTypes, TimeoutTypes, ContinueTypes, CloseTypes, AnswerTypes,
       StartedTypes, ResultTypes
  <2>3. UNCHANGED <<seenApprovalIds, told, withdrawn>> /\ \A u \in Turns : approvals'[u] \subseteq approvals[u]
    BY <1>0, <2>1, OthersDrop
  <2>4. Owed'
    BY <1>0, <2>3, AskedShrinks
  <2>5. transport = "app-server" => Served'
    BY <1>0, <2>1, SendServed, SpawnErrorServed, ContinueServed, CloseServed, ResultsServed, QuietServed
  <2>6. UNCHANGED transport
    BY <2>1 DEF Send, SpawnError, Timeout, Continue, Close, Answer, ThreadStarted, TurnCompleted, OddStatus,
       Mismatch, Overflow
  <2> QED
    BY <2>2, <2>3, <2>4, <2>5, <2>6 DEF CodexInv, Served
<1>4. CASE Kill
  <2>1. CodexTypeOK'
    BY <1>0, <1>4, KillTypes
  <2>2. UNCHANGED <<transport, seenApprovalIds, told, withdrawn>>
        /\ \A u \in Turns : approvals'[u] \subseteq approvals[u]
    BY <1>0, <1>4 DEF Kill, CodexTypeOK
  <2>3. Owed'
    BY <1>0, <2>2, AskedShrinks
  <2>4. transport = "app-server" => Served'
    <3>1. UNCHANGED <<child, active, ended, phase, outcome, resultSeen, ends, odd, due>>
      BY <1>4 DEF Kill
    <3> QED
      BY <1>0, <3>1, NothingEnds
  <2> QED
    BY <2>1, <2>2, <2>3, <2>4 DEF CodexInv, Served
<1> QED
  BY <1>1, <1>2, <1>3, <1>4 DEF CodexNext, Lines

\* What CodexInv says holds in every state the adapter can be in: who waits for
\* an answer, which turn is whose process, and what has ended.
THEOREM CodexInvariant == CodexSpec => []CodexInv
<1>1. CodexInv /\ [CodexNext]_codexVars => CodexInv'
  BY CodexNextInv, CodexStutter
<1> QED
  BY <1>1, CodexInitInv, PTL DEF CodexSpec

\* Every variable of the adapter keeps its type.
THEOREM CodexTypeCorrect == CodexSpec => []CodexTypeOK
<1>1. CodexInv => CodexTypeOK
  BY DEF CodexInv
<1> QED
  BY <1>1, CodexInvariant, PTL

\* A process of app-server ends one turn at most, and the turn whose send
\* succeeded has ended by the time its process is gone
\* (codex-cli/index.ts:310-322, 595-610).
THEOREM TurnsEndOnce == CodexSpec => []EndsItsTurnOnce
<1>1. CodexInv => EndsItsTurnOnce
  BY DEF CodexInv, Resolved, EndedOnce, EndsItsTurnOnce
<1> QED
  BY <1>1, CodexInvariant, PTL

\* An operator's answer goes only to the process that asked, while it waits for
\* one (codex-cli/index.ts:236-239, 569-593).
THEOREM AnswersGoWhereAwaited == CodexSpec => AnswersAreAwaited
<1>1. CodexInv /\ [CodexNext]_codexVars =>
        [\A t \in Turns : told'[t] # told[t] => told'[t][Len(told'[t])] \in Waiting(t)]_codexVars
  BY CodexNextInv
<1> QED
  BY <1>1, CodexInvariant, PTL DEF CodexSpec, AnswersAreAwaited

---------------------------------------------------------------------------
---------------------------------------------------------------------------
(* The subscriptions of the runtime link.                                   *)

SubEntries ==
  [open : BOOLEAN, credit : Nat, queue : Seq(Nat), item : Nat, reading : BOOLEAN,
   through : Nat, replaying : BOOLEAN, upto : Nat, coming : Seq(Nat)]
Gaps == [seq : Nat, by : {"nobody", "link", "core"}]
RpcTypeOK ==
  /\ last \in Nat /\ last <= MaxSeq
  /\ cursor \in 1..(Cardinality(Subs) + 1)
  /\ sub \in [Subs -> SubEntries] /\ from \in [Subs -> Nat]
  /\ wire \in [Subs -> Seq(Nat)] /\ gap \in [Subs -> Gaps]

\* Seqs that follow on n.
Climbs(items, n) == \A i \in 1..Len(items) : items[i] = n + i
\* Where the queue follows on, which what is still to come follows.
Base(e) == IF e.replaying THEN e.upto ELSE e.through
Follow(b, queue, coming, l) ==
  /\ Climbs(queue, b)
  /\ Climbs(coming, b + Len(queue))
  /\ b + Len(queue) + Len(coming) = l
Lined(e, l) == Follow(Base(e), e.queue, e.coming, l)
\* A subscription: its entry, its position, what the host was sent and its gap,
\* while the session is at l.
Attended(e, f, w, g, l) ==
  /\ f = NoSeq => ~e.open /\ w = << >> /\ g = NoGap
  /\ Climbs(w, f)
  /\ e.open => /\ g = NoGap
               /\ e.through = f + Len(w)
               /\ e.replaying => e.through < e.upto /\ e.item \in {NoItem, e.through + 1}
               /\ Lined(e, l)
  /\ ~e.open => ~e.reading
  /\ g.by = "link" => g.seq = f + Len(w)
RpcInv == RpcTypeOK /\ \A s \in Subs : Attended(sub[s], from[s], wire[s], gap[s], last)

---------------------------------------------------------------------------
LEMMA ClimbsOn ==
  ASSUME NEW items \in Seq(Nat), NEW n \in Nat, Climbs(items, n), NEW v \in Nat, v = n + Len(items) + 1
  PROVE  /\ Append(items, v) \in Seq(Nat) /\ Len(Append(items, v)) = Len(items) + 1
         /\ Climbs(Append(items, v), n)
<1>1. /\ Append(items, v) \in Seq(Nat) /\ Len(Append(items, v)) = Len(items) + 1 /\ Len(items) \in Nat
      /\ \A i \in 1..Len(items) : Append(items, v)[i] = items[i]
      /\ Append(items, v)[Len(items) + 1] = v
  OBVIOUS
<1> DEFINE longer == Append(items, v)
<1> HIDE DEF longer
<1>2. \A i \in 1..(Len(items) + 1) : longer[i] = n + i
  BY <1>1 DEF Climbs, longer
<1> QED
  BY <1>1, <1>2 DEF Climbs, longer

LEMMA ClimbsDown ==
  ASSUME NEW items \in Seq(Nat), NEW n \in Nat, Climbs(items, n), items # << >>
  PROVE  /\ Head(items) = n + 1 /\ Tail(items) \in Seq(Nat) /\ Len(Tail(items)) = Len(items) - 1
         /\ Climbs(Tail(items), n + 1) /\ Len(items) \in Nat /\ Len(items) > 0
BY DEF Climbs

LEMMA FollowOn ==
  ASSUME NEW b \in Nat, NEW q \in Seq(Nat), NEW c \in Seq(Nat), NEW l \in Nat, Follow(b, q, c, l),
         NEW k \in Nat, k = l + 1
  PROVE  Append(c, k) \in Seq(Nat) /\ Follow(b, q, Append(c, k), k)
<1>1. PICK n \in Nat : n = b + Len(q)
  OBVIOUS
<1>2. Climbs(c, n) /\ k = n + Len(c) + 1
  BY <1>1 DEF Follow
<1>3. Append(c, k) \in Seq(Nat) /\ Len(Append(c, k)) = Len(c) + 1 /\ Climbs(Append(c, k), n)
  BY <1>2, ClimbsOn
<1> QED
  BY <1>1, <1>2, <1>3 DEF Follow

LEMMA FollowMoves ==
  ASSUME NEW b \in Nat, NEW q \in Seq(Nat), NEW c \in Seq(Nat), NEW l \in Nat, Follow(b, q, c, l),
         c # << >>, NEW v, v = Head(c)
  PROVE  /\ Append(q, v) \in Seq(Nat) /\ Tail(c) \in Seq(Nat)
         /\ Follow(b, Append(q, v), Tail(c), l)
<1>1. PICK n \in Nat : n = b + Len(q)
  OBVIOUS
<1>2. Climbs(c, n) /\ Climbs(q, b) /\ n + Len(c) = l
  BY <1>1 DEF Follow
<1>3. Head(c) = n + 1 /\ Tail(c) \in Seq(Nat) /\ Len(Tail(c)) = Len(c) - 1 /\ Climbs(Tail(c), n + 1)
      /\ Len(c) \in Nat
  BY <1>2, ClimbsDown
<1>4. v \in Nat /\ v = b + Len(q) + 1
  BY <1>1, <1>3
<1>5. /\ Append(q, v) \in Seq(Nat) /\ Len(Append(q, v)) = Len(q) + 1 /\ Climbs(Append(q, v), b)
      /\ Len(q) \in Nat
  BY <1>2, <1>4, ClimbsOn
<1>6. b + Len(Append(q, v)) = n + 1 /\ (n + 1) + Len(Tail(c)) = l
  <2>1. PICK a \in Nat, z \in Nat : a = Len(q) /\ z = Len(c)
    BY <1>3, <1>5
  <2>2. n = b + a /\ n + z = l
    BY <1>1, <1>2, <2>1
  <2>3. b + (a + 1) = n + 1 /\ (n + 1) + (z - 1) = l
    BY <2>2
  <2>4. Len(Append(q, v)) = a + 1 /\ Len(Tail(c)) = z - 1
    BY <1>3, <1>5, <2>1
  <2> QED
    BY <2>3, <2>4
<1> QED
  BY <1>3, <1>5, <1>6 DEF Follow

LEMMA FollowDown ==
  ASSUME NEW b \in Nat, NEW q \in Seq(Nat), NEW c \in Seq(Nat), NEW l \in Nat, Follow(b, q, c, l),
         q # << >>
  PROVE  Head(q) = b + 1 /\ Tail(q) \in Seq(Nat) /\ Follow(b + 1, Tail(q), c, l) /\ b + 1 <= l
<1>1. Climbs(q, b) /\ Climbs(c, b + Len(q)) /\ b + Len(q) + Len(c) = l /\ Len(c) \in Nat
  BY DEF Follow
<1>2. /\ Head(q) = b + 1 /\ Tail(q) \in Seq(Nat) /\ Len(Tail(q)) = Len(q) - 1
      /\ Climbs(Tail(q), b + 1) /\ Len(q) \in Nat /\ Len(q) > 0
  BY <1>1, ClimbsDown
<1>3. (b + 1) + Len(Tail(q)) = b + Len(q) /\ b + 1 <= l
  BY <1>1, <1>2
<1> QED
  BY <1>1, <1>2, <1>3 DEF Follow

LEMMA FollowEnd ==
  ASSUME NEW b \in Nat, NEW q \in Seq(Nat), NEW c \in Seq(Nat), NEW l \in Nat, Follow(b, q, c, l)
  PROVE  b <= l
BY DEF Follow

LEMMA ClimbsNone == \A n \in Nat : Climbs(<< >>, n)
BY DEF Climbs

LEMMA SentinelsAre == NoSeq \in Nat /\ NoSeq > MaxSeq + 1 /\ MaxSeq \in Nat /\ NoItem = 0
BY SubsAssumption DEF NoSeq, NoItem

\* What of an entry stays when it ends.
LEMMA OffIs == Off \in SubEntries /\ ~Off.open /\ ~Off.reading
<1>1. << >> \in Seq(Nat)
  OBVIOUS
<1> QED
  BY <1>1 DEF Off, SubEntries, NoItem

LEMMA AttendedEnds ==
  ASSUME NEW e \in SubEntries, NEW f \in Nat, NEW w \in Seq(Nat), NEW g \in Gaps, NEW l \in Nat,
         Attended(e, f, w, g, l)
  PROVE  Attended(Off, f, w, g, l)
BY OffIs DEF Attended

LEMMA AttendedGaps ==
  ASSUME NEW e \in SubEntries, NEW f \in Nat, NEW w \in Seq(Nat), NEW g \in Gaps, NEW l \in Nat,
         Attended(e, f, w, g, l), f # NoSeq, NEW h \in Gaps,
         h.by = "link" => h.seq = f + Len(w)
  PROVE  Attended(Off, f, w, h, l)
BY OffIs DEF Attended

\* Another envelope is coming.
LEMMA AttendedEmits ==
  ASSUME NEW e \in SubEntries, NEW f \in Nat, NEW w \in Seq(Nat), NEW g \in Gaps, NEW l \in Nat,
         Attended(e, f, w, g, l), NEW k \in Nat, k = l + 1,
         NEW d, d = IF e.open THEN [e EXCEPT !.coming = Append(@, k)] ELSE e
  PROVE  d \in SubEntries /\ Attended(d, f, w, g, k)
<1>1. CASE ~e.open
  BY <1>1 DEF Attended
<1>2. CASE e.open
  <2>1. e.coming \in Seq(Nat) /\ e.queue \in Seq(Nat) /\ Base(e) \in Nat
    BY DEF SubEntries, Base
  <2>2. Follow(Base(e), e.queue, e.coming, l)
    BY <1>2 DEF Attended, Lined
  <2>3. Append(e.coming, k) \in Seq(Nat) /\ Follow(Base(e), e.queue, Append(e.coming, k), k)
    BY <2>1, <2>2, FollowOn
  <2>4. /\ d \in SubEntries /\ d.coming = Append(e.coming, k) /\ d.queue = e.queue /\ Base(d) = Base(e)
        /\ d.open = e.open /\ d.through = e.through /\ d.replaying = e.replaying /\ d.upto = e.upto
        /\ d.item = e.item /\ d.reading = e.reading
    BY <1>2, <2>3 DEF SubEntries, Base
  <2>5. Lined(d, k)
    BY <2>3, <2>4 DEF Lined
  <2> QED
    BY <1>2, <2>4, <2>5 DEF Attended
<1> QED
  BY <1>1, <1>2

\* It reaches the queue.
LEMMA AttendedDelivers ==
  ASSUME NEW e \in SubEntries, NEW f \in Nat, NEW w \in Seq(Nat), NEW g \in Gaps, NEW l \in Nat,
         Attended(e, f, w, g, l), e.open, e.coming # << >>,
         NEW d, d = [e EXCEPT !.queue = Append(@, Head(e.coming)), !.coming = Tail(@)]
  PROVE  d \in SubEntries /\ Attended(d, f, w, g, l)
<1>1. e.coming \in Seq(Nat) /\ e.queue \in Seq(Nat) /\ Base(e) \in Nat
  BY DEF SubEntries, Base
<1>2. Follow(Base(e), e.queue, e.coming, l)
  BY DEF Attended, Lined
<1>3. PICK v : v = Head(e.coming)
  OBVIOUS
<1>4. /\ Append(e.queue, v) \in Seq(Nat) /\ Tail(e.coming) \in Seq(Nat)
      /\ Follow(Base(e), Append(e.queue, v), Tail(e.coming), l)
  BY <1>1, <1>2, <1>3, FollowMoves
<1>5. /\ d \in SubEntries /\ d.coming = Tail(e.coming) /\ d.queue = Append(e.queue, v) /\ Base(d) = Base(e)
      /\ d.open = e.open /\ d.through = e.through /\ d.replaying = e.replaying /\ d.upto = e.upto
      /\ d.item = e.item /\ d.reading = e.reading
  BY <1>3, <1>4 DEF SubEntries, Base
<1>6. Lined(d, l)
  BY <1>4, <1>5 DEF Lined
<1> QED
  BY <1>5, <1>6 DEF Attended

\* Credit is given, and a read begins or returns: the next record of the history.
LEMMA AttendedReads ==
  ASSUME NEW e \in SubEntries, NEW f \in Nat, NEW w \in Seq(Nat), NEW g \in Gaps, NEW l \in Nat,
         Attended(e, f, w, g, l), NEW d \in SubEntries,
         d.open = e.open, d.through = e.through, d.replaying = e.replaying, d.upto = e.upto,
         d.queue = e.queue, d.coming = e.coming,
         d.item = e.item \/ d.item = e.through + 1, d.reading => e.open
  PROVE  Attended(d, f, w, g, l)
<1>1. Base(d) = Base(e)
  BY DEF Base
<1>2. e.open => Lined(d, l)
  BY <1>1 DEF Attended, Lined
<1> QED
  BY <1>2 DEF Attended

\* What makes a source ready.
Due(e) ==
  e.open /\ e.credit > 0 /\ (IF e.replaying THEN e.item # NoItem ELSE e.queue # << >>)

\* A record is taken: the next one of the history, or the head of the queue.
TakenOn(e, w, d, x) == Due(e) /\ d = Taken(e) /\ x = Append(w, d.through)
Advanced(d, f, w, x, g, l) ==
  /\ d \in SubEntries /\ x \in Seq(Nat) /\ Attended(d, f, x, g, l)
  /\ d.through = f + Len(w) + 1 /\ d.through <= l
LEMMA AttendedTaken ==
  ASSUME NEW e \in SubEntries, NEW f \in Nat, NEW w \in Seq(Nat), NEW g \in Gaps, NEW l \in Nat,
         Attended(e, f, w, g, l), f # NoSeq, NEW d, NEW x, TakenOn(e, w, d, x)
  PROVE  Advanced(d, f, w, x, g, l)
<1> SUFFICES /\ d \in SubEntries /\ x \in Seq(Nat) /\ Attended(d, f, x, g, l)
             /\ d.through = f + Len(w) + 1 /\ d.through <= l
  BY DEF Advanced
<1>0. Due(e) /\ d = Taken(e) /\ x = Append(w, d.through)
  BY DEF TakenOn
<1> USE <1>0
<1>1. /\ e.coming \in Seq(Nat) /\ e.queue \in Seq(Nat) /\ e.upto \in Nat /\ e.through \in Nat
      /\ e.item \in Nat /\ e.credit - 1 \in Nat /\ Base(e) \in Nat /\ Len(w) \in Nat
      /\ e.open /\ (IF e.replaying THEN e.item # NoItem ELSE e.queue # << >>)
  BY DEF SubEntries, Base, Due
<1>2. Follow(Base(e), e.queue, e.coming, l) /\ e.through = f + Len(w) /\ g = NoGap /\ Climbs(w, f)
  BY <1>1 DEF Attended, Lined
<1>3. /\ d \in SubEntries /\ d.through = e.through + 1 /\ d.open /\ Lined(d, l)
      /\ d.replaying => d.through < d.upto /\ d.item = NoItem
      /\ d.through <= l
  <2>1. CASE e.replaying
    <3>1. e.through < e.upto /\ e.item = e.through + 1 /\ Base(e) = e.upto
      BY <1>1, <2>1 DEF Attended, Base
    <3>2. PICK more \in BOOLEAN : more = (e.item # e.upto)
      OBVIOUS
    <3>3. PICK n \in Nat : n = e.item
      BY <1>1
    <3>4. PICK u \in Nat : u = e.upto
      BY <1>1
    <3>5. /\ n = e.through + 1 /\ n <= u /\ (more => n < u) /\ u <= l
      <4>1. Base(e) <= l
        BY <1>1, <1>2, FollowEnd
      <4>2. u <= l
        BY <3>1, <3>4, <4>1
      <4>3. PICK th \in Nat : th = e.through
        BY <1>1
      <4>4. th < u /\ n = th + 1
        BY <3>1, <3>3, <3>4, <4>3
      <4>5. more => n # u
        BY <3>2, <3>3, <3>4
      <4> QED
        BY <4>2, <4>3, <4>4, <4>5
    <3>6. d = [e EXCEPT !.credit = @ - 1, !.item = 0, !.through = n, !.replaying = more]
      BY <2>1, <3>2, <3>3 DEF Taken, NoItem
    <3>7. /\ d \in SubEntries /\ d.through = n /\ d.open = e.open /\ d.item = NoItem
          /\ d.replaying = more /\ d.upto = u /\ d.queue = e.queue /\ d.coming = e.coming
      <4>1. d \in SubEntries
        <5>1. PICK m \in Nat : m = e.credit - 1
          BY <1>1
        <5>2. d = [e EXCEPT !.credit = m, !.item = 0, !.through = n, !.replaying = more]
          BY <3>6, <5>1
        <5>3. 0 \in Nat
          OBVIOUS
        <5> QED
          BY <5>2, <5>3 DEF SubEntries
      <4>2. /\ d.through = n /\ d.open = e.open /\ d.item = NoItem
            /\ d.replaying = more /\ d.queue = e.queue /\ d.coming = e.coming
        BY <3>6 DEF SubEntries, NoItem
      <4>3. d.upto = u
        BY <3>4, <3>6 DEF SubEntries
      <4> QED
        BY <4>1, <4>2, <4>3
    <3>8. Base(d) = Base(e)
      BY <3>1, <3>2, <3>3, <3>4, <3>7 DEF Base
    <3>9. Lined(d, l)
      BY <1>2, <3>7, <3>8 DEF Lined
    <3>10. d.through <= l
      BY <3>5, <3>7
    <3> QED
      BY <1>1, <3>5, <3>7, <3>9, <3>10
  <2>2. CASE ~e.replaying
    <3>1. Base(e) = e.through /\ e.queue # << >>
      BY <1>1, <2>2 DEF Base
    <3>2. d = [e EXCEPT !.credit = @ - 1, !.queue = Tail(@), !.through = Head(e.queue)]
      BY <2>2 DEF Taken
    <3>3. /\ Head(e.queue) = e.through + 1 /\ Tail(e.queue) \in Seq(Nat)
          /\ Follow(e.through + 1, Tail(e.queue), e.coming, l) /\ e.through + 1 <= l
      BY <1>1, <1>2, <3>1, FollowDown
    <3>4. PICK n \in Nat : n = Head(e.queue)
      <4>1. e.through \in Nat /\ Head(e.queue) = e.through + 1
        BY <1>1, <3>3
      <4>2. PICK th \in Nat : Head(e.queue) = th + 1
        BY <4>1
      <4>3. PICK n \in Nat : n = th + 1
        OBVIOUS
      <4> QED
        BY <4>2, <4>3
    <3>5. PICK q \in Seq(Nat) : q = Tail(e.queue)
      BY <3>3
    <3>6. d = [e EXCEPT !.credit = @ - 1, !.queue = q, !.through = n]
      BY <3>2, <3>4, <3>5
    <3>7. /\ d \in SubEntries /\ d.through = n /\ d.open = e.open /\ ~d.replaying
          /\ d.queue = q /\ d.coming = e.coming
      BY <1>1, <2>2, <3>6 DEF SubEntries
    <3>8. Base(d) = n
      BY <3>7 DEF Base
    <3>9. Lined(d, l)
      BY <3>3, <3>4, <3>5, <3>7, <3>8 DEF Lined
    <3> QED
      BY <1>1, <3>3, <3>4, <3>7, <3>9
  <2> QED
    BY <2>1, <2>2
<1>4. d.through = f + Len(w) + 1 /\ d.through \in Nat
  BY <1>1, <1>2, <1>3
<1>5. x \in Seq(Nat) /\ Len(x) = Len(w) + 1 /\ Climbs(x, f)
  BY <1>2, <1>4, ClimbsOn
<1>6. d.through = f + Len(x) /\ g.by # "link"
  BY <1>1, <1>2, <1>4, <1>5 DEF NoGap
<1> QED
  BY <1>1, <1>2, <1>3, <1>4, <1>5, <1>6 DEF Attended

---------------------------------------------------------------------------
(* What the host reads, as EventStream has it.                              *)
Got == [s \in Subs |-> Received(s)]
Position == [s \in Subs |-> IF from[s] = NoSeq THEN 0 ELSE from[s]]

LEMMA EmptyTail == ASSUME NEW w \in Seq(Nat) PROVE w \o << >> = w
OBVIOUS

LEMMA RunNone == ASSUME NEW n \in Nat PROVE Stream!Run(n + 1, n) = << >>
BY DEF Stream!Run

LEMMA RunOne == ASSUME NEW n \in Nat PROVE Stream!Run(n + 1, n + 1) = <<n + 1>>
BY DEF Stream!Run

\* What an open subscription has read, and its watermark.
LEMMA OpenGot ==
  ASSUME RpcInv, NEW s \in Subs, sub[s].open
  PROVE  /\ wire[s] \in Seq(Nat) /\ from[s] \in Nat /\ from[s] # NoSeq /\ gap[s] = NoGap
         /\ Got[s] = wire[s]
         /\ Stream!Mark(s) = from[s] + Len(wire[s]) /\ ~Stream!Told(s)
         /\ from[s] + Len(wire[s]) \in Nat /\ from[s] + Len(wire[s]) <= last
         /\ sub[s].through = from[s] + Len(wire[s])
<1>1. /\ sub[s] \in SubEntries /\ wire[s] \in Seq(Nat) /\ from[s] \in Nat /\ Len(wire[s]) \in Nat /\ last \in Nat
      /\ Attended(sub[s], from[s], wire[s], gap[s], last)
  BY DEF RpcInv, RpcTypeOK
<1>2. /\ from[s] # NoSeq /\ gap[s] = NoGap /\ Climbs(wire[s], from[s])
      /\ sub[s].through = from[s] + Len(wire[s])
      /\ sub[s].replaying => sub[s].through < sub[s].upto
      /\ Lined(sub[s], last)
  BY <1>1 DEF Attended
<1>3. Received(s) = wire[s] /\ Got[s] = wire[s]
  <2>1. wire[s] \o << >> = wire[s]
    BY <1>1, EmptyTail
  <2> QED
    BY <1>2, <2>1 DEF Received, Got
<1>4. sub[s].through <= last
  <2>1. PICK e \in SubEntries : e = sub[s]
    BY <1>1
  <2>2. e.queue \in Seq(Nat) /\ e.coming \in Seq(Nat) /\ Base(e) \in Nat /\ e.through \in Nat /\ e.upto \in Nat
    BY DEF SubEntries, Base
  <2>3. Follow(Base(e), e.queue, e.coming, last)
    BY <1>2, <2>1 DEF Lined
  <2>4. Base(e) <= last
    BY <1>1, <2>2, <2>3, FollowEnd
  <2>5. e.through <= Base(e)
    BY <1>2, <2>1, <2>2 DEF Base
  <2>6. PICK b \in Nat, th \in Nat : b = Base(e) /\ th = e.through
    BY <2>2
  <2> QED
    BY <1>1, <2>1, <2>4, <2>5, <2>6
<1>5. Stream!Mark(s) = from[s] + Len(wire[s])
  <2>1. wire[s] # << >> => Len(wire[s]) \in 1..Len(wire[s])
    BY <1>1
  <2>2. wire[s] # << >> => wire[s][Len(wire[s])] = from[s] + Len(wire[s])
    BY <1>2, <2>1 DEF Climbs
  <2>3. wire[s] = << >> => Len(wire[s]) = 0
    OBVIOUS
  <2>4. Stream!Mark(s) = IF wire[s] = << >> THEN from[s] ELSE wire[s][Len(wire[s])]
    BY <1>2, <1>3 DEF Stream!Mark, Got
  <2> QED
    BY <1>1, <2>2, <2>3, <2>4
<1>6. ~Stream!Told(s)
  <2>1. wire[s] # << >> => Len(wire[s]) \in 1..Len(wire[s])
    BY <1>1
  <2>2. wire[s] # << >> => wire[s][Len(wire[s])] = from[s] + Len(wire[s])
    BY <1>2, <2>1 DEF Climbs
  <2>3. wire[s] # << >> => wire[s][Len(wire[s])] # 0
    BY <1>1, <2>1, <2>2
  <2>4. Stream!Told(s) <=> wire[s] # << >> /\ wire[s][Len(wire[s])] = 0
    BY <1>3 DEF Stream!Told, Stream!Gap, Got
  <2> QED
    BY <2>3, <2>4
<1>7. from[s] + Len(wire[s]) \in Nat
  BY <1>1
<1> QED
  BY <1>1, <1>2, <1>3, <1>4, <1>5, <1>6, <1>7

\* The host reads nothing, the next envelope, or a gap.
LEMMA HandsNothing ==
  ASSUME NEW s \in Subs, UNCHANGED <<wire[s], gap[s]>>
  PROVE  Stream!Hand(s)
BY DEF Stream!Hand, Received

LEMMA HandsOne ==
  ASSUME RpcInv, NEW s \in Subs, sub[s].open, gap'[s] = gap[s], last' = last,
         NEW n, n = from[s] + Len(wire[s]) + 1, n <= last, wire'[s] = Append(wire[s], n)
  PROVE  Stream!Hand(s)
<1>1. PICK m \in Nat : m = from[s] + Len(wire[s])
  BY OpenGot
<1>2. /\ wire[s] \in Seq(Nat) /\ gap[s] = NoGap /\ Got[s] = wire[s] /\ Stream!Mark(s) = m /\ ~Stream!Told(s)
      /\ last \in Nat
  BY <1>1, OpenGot DEF RpcInv, RpcTypeOK
<1>3. n = m + 1 /\ n \in Nat /\ n \in m..last'
  BY <1>1, <1>2
<1>4. Got'[s] = Append(wire[s], n)
  <2>1. Append(wire[s], n) \in Seq(Nat)
    BY <1>2, <1>3
  <2>2. Append(wire[s], n) \o << >> = Append(wire[s], n)
    BY <2>1, EmptyTail
  <2> QED
    BY <1>2, <2>2 DEF Got, Received
<1>5. wire[s] \o Stream!Run(m + 1, n) \o << >> = Append(wire[s], n)
  <2>1. Stream!Run(m + 1, n) = <<n>>
    BY <1>3, RunOne
  <2>2. wire[s] \o <<n>> = Append(wire[s], n) /\ Append(wire[s], n) \in Seq(Nat)
    BY <1>2, <1>3
  <2>3. Append(wire[s], n) \o << >> = Append(wire[s], n)
    BY <2>2, EmptyTail
  <2> QED
    BY <2>1, <2>2, <2>3
<1>6. Got'[s] = Got[s] \o Stream!Run(Stream!Mark(s) + 1, n) \o (IF FALSE THEN <<Stream!Gap>> ELSE << >>)
  BY <1>2, <1>4, <1>5
<1>7. \E upto \in Stream!Mark(s)..last', lost \in BOOLEAN :
        Got'[s] = Got[s] \o Stream!Run(Stream!Mark(s) + 1, upto) \o (IF lost THEN <<Stream!Gap>> ELSE << >>)
  BY <1>2, <1>3, <1>6
<1> QED
  BY <1>2, <1>7 DEF Stream!Hand, Got

LEMMA HandsGap ==
  ASSUME RpcInv, NEW s \in Subs, sub[s].open, gap'[s] # NoGap, last' = last, wire'[s] = wire[s]
  PROVE  Stream!Hand(s)
<1>1. PICK m \in Nat : m = from[s] + Len(wire[s])
  BY OpenGot
<1>2. /\ wire[s] \in Seq(Nat) /\ Got[s] = wire[s] /\ Stream!Mark(s) = m /\ ~Stream!Told(s)
      /\ last \in Nat /\ m \in m..last'
  BY <1>1, OpenGot DEF RpcInv, RpcTypeOK
<1>3. Got'[s] = wire[s] \o <<0>>
  BY <1>2 DEF Got, Received
<1>4. wire[s] \o Stream!Run(m + 1, m) = wire[s]
  BY <1>2, RunNone, EmptyTail
<1>5. Got'[s] = Got[s] \o Stream!Run(Stream!Mark(s) + 1, m) \o (IF TRUE THEN <<Stream!Gap>> ELSE << >>)
  BY <1>2, <1>3, <1>4 DEF Stream!Gap
<1>6. \E upto \in Stream!Mark(s)..last', lost \in BOOLEAN :
        Got'[s] = Got[s] \o Stream!Run(Stream!Mark(s) + 1, upto) \o (IF lost THEN <<Stream!Gap>> ELSE << >>)
  BY <1>2, <1>5
<1> QED
  BY <1>2, <1>6 DEF Stream!Hand, Got

---------------------------------------------------------------------------
(* Steps.                                                                   *)
Streams == Stream!StreamNext \/ UNCHANGED Stream!streamVars

\* Where every host reads nothing, the next envelope, or a gap, the stream publishes.
LEMMA HandsPublish ==
  ASSUME UNCHANGED from, last' \in {last, last + 1}, \A s \in Subs : Stream!Hand(s)
  PROVE  Stream!StreamNext
<1>1. UNCHANGED [s \in Subs |-> IF from[s] = NoSeq THEN 0 ELSE from[s]]
  OBVIOUS
<1>2. Stream!Publish
  BY <1>1 DEF Stream!Publish
<1> QED
  BY <1>2 DEF Stream!StreamNext

\* A step that shows the host nothing.
LEMMA HiddenStep ==
  ASSUME RpcInv, UNCHANGED <<last, from, wire, gap, cursor>>, sub' \in [Subs -> SubEntries],
         \A s \in Subs : Attended(sub'[s], from[s], wire[s], gap[s], last)
  PROVE  RpcInv' /\ Streams
<1>1. RpcInv'
  BY DEF RpcInv, RpcTypeOK
<1>2. UNCHANGED Stream!streamVars
  BY DEF Stream!streamVars, Received
<1> QED
  BY <1>1, <1>2 DEF Streams

LEMMA FaultStep ==
  ASSUME RpcInv, Fault, UNCHANGED <<last, from, wire, cursor>>
  PROVE  RpcInv' /\ Streams
<1>1. UNCHANGED gap /\ sub' \in [Subs -> SubEntries] /\ \A s \in Subs : sub'[s] = Off
  BY OffIs DEF Fault
<1>2. ASSUME NEW s \in Subs PROVE Attended(sub'[s], from[s], wire[s], gap[s], last)
  <2>1. /\ sub[s] \in SubEntries /\ wire[s] \in Seq(Nat) /\ from[s] \in Nat /\ gap[s] \in Gaps /\ last \in Nat
        /\ Attended(sub[s], from[s], wire[s], gap[s], last)
    BY DEF RpcInv, RpcTypeOK
  <2> QED
    BY <1>1, <2>1, AttendedEnds
<1> QED
  BY <1>1, <1>2, HiddenStep

\* One subscription goes on.
LEMMA OneStep ==
  ASSUME RpcInv, NEW s \in Subs, NEW d \in SubEntries, sub' = [sub EXCEPT ![s] = d],
         Attended(d, from[s], wire[s], gap[s], last), UNCHANGED <<last, from, wire, gap, cursor>>
  PROVE  RpcInv' /\ Streams
<1>1. sub' \in [Subs -> SubEntries] /\ \A r \in Subs : sub'[r] = IF r = s THEN d ELSE sub[r]
  BY DEF RpcInv, RpcTypeOK
<1>2. \A r \in Subs : Attended(sub'[r], from[r], wire[r], gap[r], last)
  BY <1>1 DEF RpcInv
<1> QED
  BY <1>1, <1>2, HiddenStep

\* One is told of a gap, or the link ends.
LEMMA GapStep ==
  ASSUME RpcInv, NEW s \in Subs, sub[s].open, NEW seq \in Nat, NEW by \in {"link", "core"},
         by = "link" => seq = sub[s].through,
         GapAt(s, seq, by), UNCHANGED <<last, from, wire, cursor>>
  PROVE  RpcInv' /\ Streams
<1>1. CASE Fault
  BY <1>1, FaultStep
<1>2. CASE gap' = [gap EXCEPT ![s] = [seq |-> seq, by |-> by]] /\ sub' = [sub EXCEPT ![s] = Off]
  <2>1. /\ sub[s] \in SubEntries /\ wire[s] \in Seq(Nat) /\ from[s] \in Nat /\ gap[s] \in Gaps /\ last \in Nat
        /\ Attended(sub[s], from[s], wire[s], gap[s], last) /\ from[s] # NoSeq
        /\ sub[s].through = from[s] + Len(wire[s])
    BY OpenGot DEF RpcInv, RpcTypeOK
  <2>2. PICK h : h = [seq |-> seq, by |-> by]
    OBVIOUS
  <2>3. h \in Gaps /\ h # NoGap /\ (h.by = "link" => h.seq = from[s] + Len(wire[s]))
    BY <2>1, <2>2 DEF Gaps, NoGap
  <2>4. Attended(Off, from[s], wire[s], h, last)
    BY <2>1, <2>3, AttendedGaps
  <2>5. /\ gap' \in [Subs -> Gaps] /\ sub' \in [Subs -> SubEntries]
        /\ gap'[s] = h /\ sub'[s] = Off
        /\ \A r \in Subs : r # s => gap'[r] = gap[r] /\ sub'[r] = sub[r]
    BY <1>2, <2>2, <2>3, OffIs DEF RpcInv, RpcTypeOK
  <2>6. ASSUME NEW r \in Subs PROVE Attended(sub'[r], from[r], wire[r], gap'[r], last)
    BY <2>4, <2>5 DEF RpcInv
  <2>7. RpcInv'
    BY <2>5, <2>6 DEF RpcInv, RpcTypeOK
  <2>8. ASSUME NEW r \in Subs PROVE Stream!Hand(r)
    BY <2>3, <2>5, HandsGap, HandsNothing
  <2> QED
    BY <2>7, <2>8, HandsPublish DEF Streams
<1> QED
  BY <1>1, <1>2 DEF GapAt

\* The gap the subscription itself sends.
LEMMA LinkGapStep ==
  ASSUME RpcInv, NEW s \in Subs, sub[s].open, Gap(s), UNCHANGED <<last, from, wire, cursor>>
  PROVE  RpcInv' /\ Streams
<1>1. CASE Fault
  BY <1>1, FaultStep
<1>2. CASE GapAt(s, sub[s].through, "link")
  <2>1. sub[s].through \in Nat
    BY OpenGot
  <2> QED
    BY <1>2, <2>1, GapStep
<1> QED
  BY <1>1, <1>2 DEF Gap

LEMMA EmitStep ==
  ASSUME RpcInv, Emit
  PROVE  RpcInv' /\ Streams
<1>1. /\ last \in Nat /\ last' = last + 1 /\ last' <= MaxSeq /\ last' \in Nat
      /\ UNCHANGED <<from, wire, gap, cursor>>
      /\ sub' = [s \in Subs |-> IF sub[s].open THEN [sub[s] EXCEPT !.coming = Append(@, last')] ELSE sub[s]]
  BY SentinelsAre DEF Emit, RpcInv, RpcTypeOK, writerVars
<1>2. ASSUME NEW s \in Subs
      PROVE  sub'[s] \in SubEntries /\ Attended(sub'[s], from[s], wire[s], gap[s], last')
  <2>1. /\ sub[s] \in SubEntries /\ wire[s] \in Seq(Nat) /\ from[s] \in Nat /\ gap[s] \in Gaps
        /\ Attended(sub[s], from[s], wire[s], gap[s], last)
    BY DEF RpcInv, RpcTypeOK
  <2>2. PICK e \in SubEntries : e = sub[s]
    BY <2>1
  <2>3. PICK k \in Nat : k = last'
    BY <1>1
  <2>4. PICK d : d = IF e.open THEN [e EXCEPT !.coming = Append(@, k)] ELSE e
    OBVIOUS
  <2>5. d \in SubEntries /\ Attended(d, from[s], wire[s], gap[s], k)
    BY <1>1, <2>1, <2>2, <2>3, <2>4, AttendedEmits
  <2>6. sub'[s] = d
    BY <1>1, <2>2, <2>3, <2>4
  <2> QED
    BY <2>3, <2>5, <2>6
<1>3. sub' \in [Subs -> SubEntries]
  BY <1>1, <1>2
<1>4. RpcInv'
  BY <1>1, <1>2, <1>3 DEF RpcInv, RpcTypeOK
<1>5. \A s \in Subs : Stream!Hand(s)
  BY <1>1, HandsNothing
<1> QED
  BY <1>1, <1>4, <1>5, HandsPublish DEF Streams

LEMMA DeliverStep ==
  ASSUME RpcInv, NEW s \in Subs, Deliver(s)
  PROVE  RpcInv' /\ Streams
<1>1. UNCHANGED <<last, from, wire, cursor>> /\ sub[s].open /\ sub[s].coming # << >>
  BY DEF Deliver, coreVars, writerVars
<1>2. CASE Gap(s)
  BY <1>1, <1>2, LinkGapStep
<1>3. CASE /\ UNCHANGED gap
           /\ sub' = [sub EXCEPT ![s].queue = Append(@, Head(sub[s].coming)), ![s].coming = Tail(@)]
  <2>1. /\ sub[s] \in SubEntries /\ wire[s] \in Seq(Nat) /\ from[s] \in Nat /\ gap[s] \in Gaps /\ last \in Nat
        /\ Attended(sub[s], from[s], wire[s], gap[s], last) /\ sub \in [Subs -> SubEntries]
    BY DEF RpcInv, RpcTypeOK
  <2>2. PICK e \in SubEntries : e = sub[s]
    BY <2>1
  <2>3. PICK d : d = [e EXCEPT !.queue = Append(@, Head(e.coming)), !.coming = Tail(@)]
    OBVIOUS
  <2>4. d \in SubEntries /\ Attended(d, from[s], wire[s], gap[s], last)
    <3>1. PICK f \in Nat, w \in Seq(Nat), g \in Gaps, l \in Nat :
            f = from[s] /\ w = wire[s] /\ g = gap[s] /\ l = last
      BY <2>1
    <3>2. Attended(e, f, w, g, l) /\ e.open /\ e.coming # << >>
      BY <1>1, <2>1, <2>2, <3>1
    <3>3. d \in SubEntries /\ Attended(d, f, w, g, l)
      BY <2>3, <3>2, AttendedDelivers, ZenonT(60)
    <3> QED
      BY <3>1, <3>3
  <2>5. sub' = [sub EXCEPT ![s] = d]
    BY <1>3, <2>1, <2>2, <2>3
  <2> QED
    BY <1>1, <1>3, <2>4, <2>5, OneStep
<1> QED
  BY <1>2, <1>3 DEF Deliver

LEMMA CoreDropsStep ==
  ASSUME RpcInv, NEW s \in Subs, CoreDrops(s)
  PROVE  RpcInv' /\ Streams
<1>1. sub[s].upto \in Nat
  BY DEF RpcInv, RpcTypeOK, SubEntries
<1>2. sub[s].open /\ GapAt(s, sub[s].upto, "core") /\ UNCHANGED <<last, from, wire, cursor>>
  BY DEF CoreDrops, coreVars, writerVars
<1> QED
  BY <1>1, <1>2, GapStep

LEMMA ReadReturnsStep ==
  ASSUME RpcInv, NEW s \in Subs, ReadReturns(s)
  PROVE  RpcInv' /\ Streams
<1>0. /\ sub[s] \in SubEntries /\ wire[s] \in Seq(Nat) /\ from[s] \in Nat /\ gap[s] \in Gaps /\ last \in Nat
      /\ Attended(sub[s], from[s], wire[s], gap[s], last) /\ sub \in [Subs -> SubEntries]
  BY DEF RpcInv, RpcTypeOK
<1>1. UNCHANGED <<last, from, wire, cursor>> /\ sub[s].open
  BY <1>0 DEF ReadReturns, coreVars, writerVars, Attended
<1>2. CASE Gap(s)
  BY <1>1, <1>2, LinkGapStep
<1>3. CASE /\ UNCHANGED gap
           /\ sub' = [sub EXCEPT ![s].reading = FALSE, ![s].item = sub[s].through + 1]
  <2>1. PICK e \in SubEntries : e = sub[s]
    BY <1>0
  <2>2. PICK n \in Nat : n = e.through + 1
    BY DEF SubEntries
  <2>3. PICK d : d = [e EXCEPT !.reading = FALSE, !.item = n]
    OBVIOUS
  <2>4. /\ d \in SubEntries /\ d.open = e.open /\ d.through = e.through /\ d.replaying = e.replaying
        /\ d.upto = e.upto /\ d.queue = e.queue /\ d.coming = e.coming /\ d.item = n /\ ~d.reading
    BY <2>2, <2>3 DEF SubEntries
  <2>5. Attended(d, from[s], wire[s], gap[s], last)
    BY <1>0, <2>1, <2>2, <2>4, AttendedReads
  <2>6. sub' = [sub EXCEPT ![s] = d]
    BY <1>0, <1>3, <2>1, <2>2, <2>3
  <2> QED
    BY <1>1, <1>3, <2>4, <2>5, <2>6, OneStep
<1> QED
  BY <1>2, <1>3 DEF ReadReturns

LEMMA CreditStep ==
  ASSUME RpcInv, NEW s \in Subs, Credit(s)
  PROVE  RpcInv' /\ Streams
<1>0. /\ sub[s] \in SubEntries /\ wire[s] \in Seq(Nat) /\ from[s] \in Nat /\ gap[s] \in Gaps /\ last \in Nat
      /\ Attended(sub[s], from[s], wire[s], gap[s], last) /\ sub \in [Subs -> SubEntries]
  BY DEF RpcInv, RpcTypeOK
<1>1. UNCHANGED <<last, from, wire, gap, cursor>> /\ sub[s].open /\ sub' = [sub EXCEPT ![s].credit = @ + 1]
  BY DEF Credit, coreVars, writerVars
<1>2. PICK e \in SubEntries : e = sub[s]
  BY <1>0
<1>n. PICK n \in Nat : n = e.credit + 1
  BY DEF SubEntries
<1>3. PICK d : d = [e EXCEPT !.credit = n]
  OBVIOUS
<1>4. /\ d \in SubEntries /\ d.open = e.open /\ d.through = e.through /\ d.replaying = e.replaying
      /\ d.upto = e.upto /\ d.queue = e.queue /\ d.coming = e.coming /\ d.item = e.item
      /\ d.reading = e.reading
  BY <1>3 DEF SubEntries
<1>5. Attended(d, from[s], wire[s], gap[s], last)
  BY <1>0, <1>1, <1>2, <1>4, AttendedReads
<1>6. sub' = [sub EXCEPT ![s] = d]
  BY <1>0, <1>1, <1>2, <1>n, <1>3
<1> QED
  BY <1>1, <1>4, <1>5, <1>6, OneStep

LEMMA UnsubscribeStep ==
  ASSUME RpcInv, NEW s \in Subs, Unsubscribe(s)
  PROVE  RpcInv' /\ Streams
<1>0. /\ sub[s] \in SubEntries /\ wire[s] \in Seq(Nat) /\ from[s] \in Nat /\ gap[s] \in Gaps /\ last \in Nat
      /\ Attended(sub[s], from[s], wire[s], gap[s], last)
  BY DEF RpcInv, RpcTypeOK
<1>1. UNCHANGED <<last, from, wire, cursor>>
  BY DEF Unsubscribe, coreVars, writerVars
<1>2. CASE Fault
  BY <1>1, <1>2, FaultStep
<1>3. CASE UNCHANGED gap /\ sub' = [sub EXCEPT ![s] = Off]
  <2>1. Attended(Off, from[s], wire[s], gap[s], last)
    BY <1>0, AttendedEnds
  <2> QED
    BY <1>1, <1>3, <2>1, OffIs, OneStep
<1> QED
  BY <1>2, <1>3 DEF Unsubscribe

\* The sources that are asked and have nothing begin to read.
LEMMA AskedStep ==
  ASSUME RpcInv, sub' = [s \in Subs |-> [sub[s] EXCEPT !.reading = @ \/ Asked(s)]],
         UNCHANGED <<last, from, wire, gap, cursor>>
  PROVE  RpcInv' /\ Streams
<1>1. ASSUME NEW s \in Subs
      PROVE  sub'[s] \in SubEntries /\ Attended(sub'[s], from[s], wire[s], gap[s], last)
  <2>1. /\ sub[s] \in SubEntries /\ wire[s] \in Seq(Nat) /\ from[s] \in Nat /\ gap[s] \in Gaps /\ last \in Nat
        /\ Attended(sub[s], from[s], wire[s], gap[s], last)
    BY DEF RpcInv, RpcTypeOK
  <2>2. PICK e \in SubEntries : e = sub[s]
    BY <2>1
  <2>3. PICK b \in BOOLEAN : b = (sub[s].reading \/ Asked(s))
    OBVIOUS
  <2>4. b => e.open
    BY <2>1, <2>2, <2>3 DEF Attended, Asked, Wants
  <2>5. PICK d : d = [e EXCEPT !.reading = b]
    OBVIOUS
  <2>6. /\ d \in SubEntries /\ d.open = e.open /\ d.through = e.through /\ d.replaying = e.replaying
        /\ d.upto = e.upto /\ d.queue = e.queue /\ d.coming = e.coming /\ d.item = e.item
        /\ d.reading = b
    BY <2>5 DEF SubEntries
  <2>7. Attended(d, from[s], wire[s], gap[s], last)
    BY <2>1, <2>2, <2>4, <2>6, AttendedReads
  <2>8. sub'[s] = d
    BY <2>2, <2>3, <2>5
  <2> QED
    BY <2>6, <2>7, <2>8
<1>2. sub' \in [Subs -> SubEntries]
  BY <1>1
<1> QED
  BY <1>1, <1>2, HiddenStep

LEMMA QuietSteps ==
  ASSUME RpcInv, WriteControl \/ Idle \/ Drain \/ Reply \/ SpillGrows \/ SpillFails
  PROVE  RpcInv' /\ Streams
<1>1. UNCHANGED <<last, from, wire, cursor>>
  BY DEF WriteControl, Idle, Drain, Reply, SpillGrows, SpillFails, coreVars, writerVars
<1>2. CASE Fault
  BY <1>1, <1>2, FaultStep
<1>3. CASE UNCHANGED gap /\ sub' = [s \in Subs |-> [sub[s] EXCEPT !.reading = @ \/ Asked(s)]]
  BY <1>1, <1>3, AskedStep
<1>4. CASE UNCHANGED <<sub, gap>>
  BY <1>1, <1>4, HiddenStep DEF RpcInv, RpcTypeOK
<1> QED
  BY <1>2, <1>3, <1>4 DEF WriteControl, Idle, Drain, Reply, SpillGrows, SpillFails

\* A subscription begins, or ends at once: what the stream resumes.
LEMMA ResumeStep ==
  ASSUME RpcInv, NEW s \in Subs, from[s] = NoSeq, NEW f \in Nat, f <= last + 1,
         from' = [from EXCEPT ![s] = f], UNCHANGED <<last, wire, cursor>>,
         NEW d \in SubEntries, sub' = [sub EXCEPT ![s] = d],
         NEW h \in Gaps, gap' = [gap EXCEPT ![s] = h],
         h = NoGap => f <= last,
         Attended(d, f, wire[s], h, last)
  PROVE  RpcInv' /\ Streams
<1>1. /\ sub \in [Subs -> SubEntries] /\ from \in [Subs -> Nat] /\ gap \in [Subs -> Gaps]
      /\ last \in Nat /\ last <= MaxSeq /\ wire[s] = << >>
  BY DEF RpcInv, RpcTypeOK, Attended
<1>2. /\ sub' \in [Subs -> SubEntries] /\ from' \in [Subs -> Nat] /\ gap' \in [Subs -> Gaps]
      /\ sub'[s] = d /\ from'[s] = f /\ gap'[s] = h
      /\ \A r \in Subs : r # s => sub'[r] = sub[r] /\ from'[r] = from[r] /\ gap'[r] = gap[r]
  BY <1>1
<1>3. \A r \in Subs : Attended(sub'[r], from'[r], wire[r], gap'[r], last)
  BY <1>2 DEF RpcInv
<1>4. RpcInv'
  BY <1>2, <1>3 DEF RpcInv, RpcTypeOK
<1>5. f # NoSeq
  BY <1>1, SentinelsAre
<1>6. Stream!Resume(s)
  <2>1. Position'[s] = f /\ \A r \in Subs \ {s} : UNCHANGED <<Position[r], Got[r]>>
    BY <1>2, <1>5 DEF Position, Got, Received
  <2>2. CASE h # NoGap
    <3>1. Got'[s] = << >> \o <<0>>
      BY <1>1, <1>2, <2>2 DEF Got, Received
    <3>2. << >> \o <<0>> = <<0>>
      OBVIOUS
    <3> QED
      BY <2>1, <3>1, <3>2 DEF Stream!Resume, Stream!Gap, Position, Got
  <2>3. CASE h = NoGap
    <3>1. Got'[s] = << >>
      BY <1>1, <1>2, <2>3 DEF Got, Received
    <3>2. Stream!Run(f + 1, f) = << >>
      BY RunNone
    <3>3. f \in f..last
      BY <1>1, <2>3
    <3>4. \E upto \in Position'[s]..last : Got'[s] = Stream!Run(Position'[s] + 1, upto)
      BY <2>1, <3>1, <3>2, <3>3
    <3> QED
      BY <2>1, <3>4 DEF Stream!Resume, Position, Got
  <2> QED
    BY <2>2, <2>3
<1> QED
  BY <1>4, <1>6 DEF Streams, Stream!StreamNext

\* A new entry: the history to last is before it, and nothing is coming.
Opened(seq) ==
  [Off EXCEPT !.open = TRUE, !.through = seq, !.replaying = seq < last, !.upto = last,
              !.coming = << >>]

LEMMA OpenedIsKept ==
  ASSUME last \in Nat, last <= MaxSeq, NEW seq \in 0..last
  PROVE  Opened(seq) \in SubEntries /\ Attended(Opened(seq), seq, << >>, NoGap, last)
<1>0. (seq < last) \in BOOLEAN
  OBVIOUS
<1>1. PICK b \in BOOLEAN : b = (seq < last)
  BY <1>0
<1>2. << >> \in Seq(Nat) /\ Len(<< >>) = 0
  OBVIOUS
<1>3. Opened(seq) = [Off EXCEPT !.open = TRUE, !.through = seq, !.replaying = b, !.upto = last,
                                !.coming = << >>]
  BY Zenon, <1>1 DEF Opened
<1>4. PICK e : e = Opened(seq)
  OBVIOUS
<1>5. e \in SubEntries
  <2>1. PICK n \in Nat : n = seq
    OBVIOUS
  <2>2. e = [Off EXCEPT !.open = TRUE, !.through = n, !.replaying = b, !.upto = last, !.coming = << >>]
    BY <1>3, <1>4, <2>1
  <2> QED
    BY <1>2, <2>2, OffIs DEF SubEntries
<1>6. /\ e.open /\ e.queue = << >> /\ e.item = 0 /\ ~e.reading /\ e.through = seq
      /\ e.replaying = b /\ e.upto = last /\ e.coming = << >>
  BY <1>3, <1>4 DEF Off, NoItem
<1>7. Base(e) = last
  <2>1. CASE seq < last
    <3>1. b
      BY <1>1, <2>1
    <3> QED
      BY <1>6, <3>1 DEF Base
  <2>2. CASE ~(seq < last)
    <3>1. ~b
      BY <1>1, <2>2
    <3>2. seq = last
      BY <2>2
    <3> QED
      BY <1>6, <3>1, <3>2 DEF Base
  <2> QED
    BY <2>1, <2>2
<1>8. Lined(e, last)
  BY <1>2, <1>6, <1>7, ClimbsNone DEF Lined, Follow
<1>9. Climbs(<< >>, seq) /\ seq # NoSeq
  BY ClimbsNone, SentinelsAre
<1>10. NoGap.by = "nobody"
  BY DEF NoGap
<1>11. seq = seq + Len(<< >>)
  BY <1>2
<1>12. e.replaying => e.through < e.upto /\ e.item \in {NoItem, e.through + 1}
  BY <1>1, <1>6 DEF NoItem
<1>13. Attended(e, seq, << >>, NoGap, last)
  BY <1>6, <1>8, <1>9, <1>10, <1>11, <1>12 DEF Attended
<1> QED
  BY <1>4, <1>5, <1>13

LEMMA SubscribeStep ==
  ASSUME RpcInv, NEW s \in Subs, NEW seq \in 0..last, Subscribe(s, seq)
  PROVE  RpcInv' /\ Streams
<1>1. /\ sub \in [Subs -> SubEntries] /\ from \in [Subs -> Nat] /\ gap \in [Subs -> Gaps]
      /\ last \in Nat /\ last <= MaxSeq /\ from[s] = NoSeq
      /\ wire[s] = << >> /\ gap[s] = NoGap
  BY DEF RpcInv, RpcTypeOK, Attended, Subscribe
<1>2. /\ from' = [from EXCEPT ![s] = seq] /\ UNCHANGED <<last, wire, gap, cursor>>
      /\ sub' = [sub EXCEPT ![s] =
           [Off EXCEPT !.open = TRUE, !.through = seq, !.replaying = seq < last, !.upto = last,
                       !.coming = [i \in 1..(last - RegisteredAt(seq)) |-> RegisteredAt(seq) + i]]]
  BY DEF Subscribe, coreVars, writerVars
<1>3. RegisteredAt(seq) = last /\ last - last = 0
  BY <1>1 DEF RegisteredAt
<1>4. [i \in 1..(last - RegisteredAt(seq)) |-> RegisteredAt(seq) + i] = << >>
  BY <1>3
<1>5. sub' = [sub EXCEPT ![s] = Opened(seq)]
  BY <1>2, <1>4 DEF Opened
<1>6. Opened(seq) \in SubEntries /\ Attended(Opened(seq), seq, << >>, NoGap, last)
  BY <1>1, OpenedIsKept
<1>7. gap' = [gap EXCEPT ![s] = NoGap] /\ NoGap \in Gaps
  BY <1>1, <1>2
<1>8. seq \in Nat /\ seq <= last + 1 /\ seq <= last
  BY <1>1
<1>9. PICK d : d = Opened(seq)
  OBVIOUS
<1>10. d \in SubEntries /\ Attended(d, seq, wire[s], NoGap, last) /\ sub' = [sub EXCEPT ![s] = d]
  BY <1>1, <1>5, <1>6, <1>9
<1>11. UNCHANGED <<last, wire, cursor>>
  BY <1>2
<1> QED
  BY <1>1, <1>2, <1>7, <1>8, <1>10, <1>11, ResumeStep

\* A position past the end: a gap at the end, or the end of the link.
LEMMA SubscribePastStep ==
  ASSUME RpcInv, NEW s \in Subs, SubscribePast(s)
  PROVE  RpcInv' /\ Streams
<1>1. /\ sub \in [Subs -> SubEntries] /\ from \in [Subs -> Nat] /\ gap \in [Subs -> Gaps]
      /\ last \in Nat /\ last <= MaxSeq /\ from[s] = NoSeq
      /\ wire[s] = << >> /\ gap[s] = NoGap
  BY DEF RpcInv, RpcTypeOK, Attended, SubscribePast
<1>2. UNCHANGED <<last, wire, cursor>>
  BY DEF SubscribePast, coreVars, writerVars
<1>3. CASE ~ControlRoom
  <2>1. Fault /\ from' = from
    BY <1>3 DEF SubscribePast, GapAt
  <2> QED
    BY <1>2, <2>1, FaultStep
<1>4. CASE ControlRoom
  <2>1. PICK h : h = [seq |-> last, by |-> "core"]
    OBVIOUS
  <2>2. /\ from' = [from EXCEPT ![s] = last + 1] /\ gap' = [gap EXCEPT ![s] = h]
        /\ sub' = [sub EXCEPT ![s] = Off]
    BY <1>4, <2>1 DEF SubscribePast, GapAt
  <2>3. h \in Gaps /\ h # NoGap /\ h.by # "link"
    BY <1>1, <2>1 DEF Gaps, NoGap
  <2>4. PICK f \in Nat : f = last + 1
    BY <1>1
  <2>5. f # NoSeq /\ f <= last + 1
    BY <1>1, <2>4, SentinelsAre
  <2>6. Attended(Off, f, wire[s], h, last)
    BY <1>1, <2>3, <2>5, OffIs, ClimbsNone DEF Attended
  <2>7. UNCHANGED <<last, wire, cursor>> /\ from' = [from EXCEPT ![s] = f] /\ (h = NoGap => f <= last)
    BY <1>2, <2>2, <2>3, <2>4
  <2> QED
    BY <1>1, <2>2, <2>3, <2>5, <2>6, <2>7, OffIs, ResumeStep
<1> QED
  BY <1>3, <1>4

---------------------------------------------------------------------------
(* The pump writes an event. *)

\* The round robin has a choice wherever a source is ready.
LEMMA ChosenIsReady ==
  ASSUME cursor \in 1..(Cardinality(Subs) + 1), SomeReady
  PROVE  Chosen \in Subs /\ Ready(Chosen) /\ Cardinality(Subs) \in Nat
<1>1. Cardinality(Subs) \in Nat /\ Subs = 1..Cardinality(Subs)
  BY SubsAssumption, FS_CardinalityType
<1>2. PICK n \in Nat : n = Cardinality(Subs)
  BY <1>1
<1>3. ASSUME NEW s \in Subs PROVE Distance(s) \in Nat
  BY <1>1, <1>2 DEF Distance
<1> DEFINE Ways == {k \in Nat : \E s \in Subs : Ready(s) /\ k = Distance(s)}
<1>4. Ways \subseteq Nat /\ Ways # {}
  <2>1. PICK s \in Subs : Ready(s)
    BY DEF SomeReady
  <2>2. Distance(s) \in Ways
    BY <1>3, <2>1
  <2> QED
    BY <2>2
<1>5. PICK k \in Ways : \A c \in Ways : ~(<<c, k>> \in OpToRel(<, Nat))
  <2> HIDE DEF Ways
  <2> QED
    BY <1>4, NatLessThanWellFounded, WFMin
<1>6. \A c \in Ways : ~(c < k)
  BY <1>4, <1>5 DEF OpToRel
<1>7. PICK s \in Subs : Ready(s) /\ k = Distance(s)
  BY <1>5
<1>8. \A t \in Subs : Ready(t) => Distance(s) <= Distance(t)
  <2> SUFFICES ASSUME NEW t \in Subs, Ready(t) PROVE Distance(s) <= Distance(t)
    OBVIOUS
  <2>1. Distance(t) \in Ways /\ Distance(t) \in Nat /\ Distance(s) \in Nat
    BY <1>3
  <2>2. ~(Distance(t) < Distance(s))
    BY <1>6, <1>7, <2>1
  <2> QED
    BY <2>1, <2>2
<1>9. Chosen \in Subs /\ Ready(Chosen)
  BY <1>7, <1>8 DEF Chosen
<1> QED
  BY <1>1, <1>9

LEMMA WriteEventStep ==
  ASSUME RpcInv, WriteEvent
  PROVE  RpcInv' /\ Streams
<1>1. /\ UNCHANGED <<last, from, gap>> /\ SomeReady
      /\ sub' = [s \in Subs |-> IF s = Chosen THEN Taken(sub[s])
                                ELSE [sub[s] EXCEPT !.reading = @ \/ Asked(s)]]
      /\ wire' = [wire EXCEPT ![Chosen] = Append(@, sub'[Chosen].through)]
      /\ cursor' = 1 + (Chosen % Cardinality(Subs))
  BY DEF WriteEvent, coreVars
<1>2. Chosen \in Subs /\ Ready(Chosen) /\ Cardinality(Subs) \in Nat
  BY <1>1, ChosenIsReady DEF RpcInv, RpcTypeOK
<1>3. PICK c \in Subs : c = Chosen
  BY <1>2
<1>4. cursor' \in 1..(Cardinality(Subs) + 1)
  <2>1. PICK n \in Nat : n = Cardinality(Subs)
    BY <1>2
  <2>2. c \in 1..n
    BY <2>1, SubsAssumption
  <2>3. c % n \in 0..(n - 1)
    BY <2>2
  <2> QED
    BY <1>1, <1>3, <2>1, <2>2, <2>3
<1>5. /\ sub \in [Subs -> SubEntries] /\ wire \in [Subs -> Seq(Nat)] /\ last \in Nat
      /\ \A s \in Subs : from[s] \in Nat /\ gap[s] \in Gaps /\ Attended(sub[s], from[s], wire[s], gap[s], last)
  BY DEF RpcInv, RpcTypeOK
<1>6. sub[c].open /\ sub[c].credit > 0
      /\ IF sub[c].replaying THEN sub[c].item # NoItem ELSE sub[c].queue # << >>
  BY <1>2, <1>3 DEF Ready
<1>7. PICK e \in SubEntries : e = sub[c]
  BY <1>5
<1>8. PICK d : d = Taken(e)
  OBVIOUS
<1>9. PICK x : x = Append(wire[c], d.through)
  OBVIOUS
<1>10. from[c] # NoSeq /\ wire[c] \in Seq(Nat)
  BY <1>5, <1>6, OpenGot
<1>11. /\ d \in SubEntries /\ x \in Seq(Nat) /\ Attended(d, from[c], x, gap[c], last)
       /\ d.through = from[c] + Len(wire[c]) + 1 /\ d.through <= last
  <2>1. e.open /\ e.credit > 0 /\ (IF e.replaying THEN e.item # NoItem ELSE e.queue # << >>)
    BY <1>6, <1>7
  <2>2. Attended(e, from[c], wire[c], gap[c], last) /\ from[c] \in Nat /\ gap[c] \in Gaps
    BY <1>5, <1>7
  <2>3. PICK l \in Nat : l = last
    BY <1>5
  <2>4. PICK w \in Seq(Nat) : w = wire[c]
    BY <1>10
  <2>5. PICK f \in Nat : f = from[c]
    BY <2>2
  <2>6. PICK g \in Gaps : g = gap[c]
    BY <2>2
  <2>7. Attended(e, f, w, g, l) /\ f # NoSeq
    BY <1>10, <2>2, <2>3, <2>4, <2>5, <2>6
  <2>8. TakenOn(e, w, d, x)
    BY <1>8, <1>9, <2>1, <2>4 DEF Due, TakenOn
  <2>9. Advanced(d, f, w, x, g, l)
    BY <2>7, <2>8, AttendedTaken, ZenonT(60)
  <2> QED
    BY <2>3, <2>4, <2>5, <2>6, <2>9 DEF Advanced
<1>12. sub'[c] = d
  BY <1>1, <1>3, <1>7, <1>8
<1>13. /\ wire' \in [Subs -> Seq(Nat)] /\ wire'[c] = x
       /\ \A s \in Subs : s # c => wire'[s] = wire[s]
  BY <1>1, <1>3, <1>5, <1>9, <1>11, <1>12
<1>14. ASSUME NEW s \in Subs, s # c
       PROVE  sub'[s] \in SubEntries /\ Attended(sub'[s], from[s], wire[s], gap[s], last)
  <2>1. /\ sub[s] \in SubEntries /\ wire[s] \in Seq(Nat) /\ from[s] \in Nat /\ gap[s] \in Gaps
        /\ Attended(sub[s], from[s], wire[s], gap[s], last)
    BY <1>5
  <2>2. PICK o \in SubEntries : o = sub[s]
    BY <2>1
  <2>3. PICK b \in BOOLEAN : b = (sub[s].reading \/ Asked(s))
    OBVIOUS
  <2>4. b => o.open
    BY <2>1, <2>2, <2>3 DEF Attended, Asked, Wants
  <2>5. PICK p : p = [o EXCEPT !.reading = b]
    OBVIOUS
  <2>6. /\ p \in SubEntries /\ p.open = o.open /\ p.through = o.through /\ p.replaying = o.replaying
        /\ p.upto = o.upto /\ p.queue = o.queue /\ p.coming = o.coming /\ p.item = o.item
        /\ p.reading = b
    BY <2>5 DEF SubEntries
  <2>7. Attended(p, from[s], wire[s], gap[s], last)
    BY <1>5, <2>1, <2>2, <2>4, <2>6, AttendedReads
  <2>8. sub'[s] = p
    BY <1>1, <1>3, <1>14, <2>2, <2>3, <2>5
  <2> QED
    BY <2>6, <2>7, <2>8
<1>15. \A s \in Subs : sub'[s] \in SubEntries /\ Attended(sub'[s], from[s], wire'[s], gap[s], last)
  BY <1>11, <1>12, <1>13, <1>14
<1>16. sub' \in [Subs -> SubEntries]
  BY <1>1, <1>15
<1>17. RpcInv'
  BY <1>1, <1>4, <1>13, <1>15, <1>16 DEF RpcInv, RpcTypeOK
<1>18. Stream!Hand(c)
  <2>1. PICK n : n = d.through
    OBVIOUS
  <2>2. n = from[c] + Len(wire[c]) + 1 /\ n <= last /\ wire'[c] = Append(wire[c], n)
    BY <1>9, <1>11, <1>13, <2>1
  <2> QED
    BY <1>1, <1>6, <2>2, HandsOne
<1>19. \A s \in Subs : Stream!Hand(s)
  BY <1>1, <1>13, <1>18, HandsNothing
<1>20. last' \in {last, last + 1} /\ UNCHANGED from
  BY <1>1
<1> QED
  BY <1>17, <1>19, <1>20, HandsPublish DEF Streams

---------------------------------------------------------------------------
LEMMA RpcInitInv == RpcInit => RpcInv /\ Stream!StreamInit
<1> SUFFICES ASSUME RpcInit PROVE RpcInv /\ Stream!StreamInit
  OBVIOUS
<1>1. /\ last = 0 /\ cursor = 1 /\ sub = [s \in Subs |-> Off] /\ from = [s \in Subs |-> NoSeq]
      /\ wire = [s \in Subs |-> << >>] /\ gap = [s \in Subs |-> NoGap]
  BY DEF RpcInit
<1>2. Cardinality(Subs) \in Nat
  BY SubsAssumption, FS_CardinalityType
<1>3. NoGap \in Gaps /\ NoGap.by = "nobody" /\ << >> \in Seq(Nat)
  BY SentinelsAre DEF NoGap, Gaps
<1>4. RpcTypeOK
  BY <1>1, <1>2, <1>3, SentinelsAre, OffIs DEF RpcTypeOK
<1>5. Attended(Off, NoSeq, << >>, NoGap, 0)
  BY <1>3, SentinelsAre, OffIs, ClimbsNone DEF Attended
<1>6. RpcInv
  BY <1>1, <1>4, <1>5 DEF RpcInv
<1>7. Stream!StreamInit
  <2>1. [s \in Subs |-> Received(s)] = [s \in Subs |-> << >>]
    <3>1. << >> \o << >> = << >>
      OBVIOUS
    <3> QED
      BY <1>1, <3>1 DEF Received
  <2>2. [s \in Subs |-> IF from[s] = NoSeq THEN 0 ELSE from[s]] = [s \in Subs |-> 0]
    BY <1>1
  <2> QED
    BY <1>1, <2>1, <2>2 DEF Stream!StreamInit
<1> QED
  BY <1>6, <1>7

LEMMA RpcStep == RpcInv /\ [RpcNext]_rpcVars => RpcInv' /\ [Stream!StreamNext]_(Stream!streamVars)
<1> SUFFICES ASSUME RpcInv, [RpcNext]_rpcVars
             PROVE  RpcInv' /\ Streams
  BY DEF Streams
<1>1. CASE Emit
  BY <1>1, EmitStep
<1>2. CASE WriteControl \/ Idle \/ Drain \/ Reply \/ SpillGrows \/ SpillFails
  BY <1>2, QuietSteps
<1>3. CASE WriteEvent
  BY <1>3, WriteEventStep
<1>4. ASSUME NEW s \in Subs, NEW seq \in 0..last, Subscribe(s, seq)
      PROVE  RpcInv' /\ Streams
  BY <1>4, SubscribeStep
<1>5. ASSUME NEW s \in Subs,
             \/ SubscribePast(s) \/ Deliver(s) \/ CoreDrops(s) \/ Credit(s) \/ Unsubscribe(s)
             \/ ReadReturns(s)
      PROVE  RpcInv' /\ Streams
  BY <1>5, SubscribePastStep, DeliverStep, CoreDropsStep, CreditStep, UnsubscribeStep, ReadReturnsStep
<1>6. CASE UNCHANGED rpcVars
  <2>1. UNCHANGED <<last, from, wire, gap, cursor, sub>>
    BY <1>6 DEF rpcVars, coreVars, writerVars
  <2>2. sub' \in [Subs -> SubEntries] /\ \A s \in Subs : Attended(sub'[s], from[s], wire[s], gap[s], last)
    BY <2>1 DEF RpcInv, RpcTypeOK
  <2> QED
    BY <2>1, <2>2, HiddenStep
<1> QED
  BY <1>1, <1>2, <1>3, <1>4, <1>5, <1>6 DEF RpcNext, Pump

\* The inductive invariant of the link.
THEOREM RpcInvariant == RpcSpec => []RpcInv
<1>1. RpcInit => RpcInv
  BY RpcInitInv
<1>2. RpcInv /\ [RpcNext]_rpcVars => RpcInv'
  BY RpcStep
<1> QED
  BY <1>1, <1>2, PTL DEF RpcSpec

\* Every entry of the subscription map, its watermark, its queue and what the
\* host was sent have their type (subscriptions.ts).
THEOREM RpcTypeCorrect == RpcSpec => []RpcTypeOK
<1>1. RpcInv => RpcTypeOK
  BY DEF RpcInv
<1> QED
  BY <1>1, RpcInvariant, PTL

\* A gap of a subscription names the last seq its host was sent.
LEMMA GapsNameTheLast ==
  RpcInv => \A s \in Subs : gap[s].by = "link" => gap[s].seq = LastSent(s)
<1> SUFFICES ASSUME RpcInv, NEW s \in Subs, gap[s].by = "link"
             PROVE  gap[s].seq = LastSent(s)
  OBVIOUS
<1>1. /\ wire[s] \in Seq(Nat) /\ from[s] \in Nat /\ Climbs(wire[s], from[s])
      /\ gap[s].seq = from[s] + Len(wire[s])
  BY DEF RpcInv, RpcTypeOK, Attended
<1>2. wire[s] # << >> => Len(wire[s]) \in 1..Len(wire[s])
  BY <1>1
<1>3. wire[s] # << >> => wire[s][Len(wire[s])] = from[s] + Len(wire[s])
  BY <1>1, <1>2 DEF Climbs
<1>4. wire[s] = << >> => Len(wire[s]) = 0
  OBVIOUS
<1> QED
  BY <1>1, <1>3, <1>4 DEF LastSent

\* The link implements the stream the core promises: from its position a host
\* is sent every envelope once and in order, with a gap at the end at most, for
\* any number of subscriptions, credit, queue budget, control limit and burst;
\* and a gap of the subscription itself names the last seq the host was sent
\* (subscriptions.ts:45-76, writer.ts).
THEOREM RpcImplementsStream == RpcSpec => StreamKept
<1>1. RpcInit => Stream!StreamInit
  BY RpcInitInv
<1>2. RpcInv /\ [RpcNext]_rpcVars => [Stream!StreamNext]_(Stream!streamVars)
  BY RpcStep
<1>3. RpcSpec => Stream!StreamSpec
  BY <1>1, <1>2, RpcInvariant, PTL DEF RpcSpec, Stream!StreamSpec
<1>4. RpcSpec => [](\A s \in Subs : gap[s].by = "link" => gap[s].seq = LastSent(s))
  BY GapsNameTheLast, RpcInvariant, PTL
<1> QED
  BY <1>3, <1>4 DEF StreamKept

---------------------------------------------------------------------------
---------------------------------------------------------------------------
(* The console.                                                             *)

\* What covers the page, with what the answers on their way may still do to it.
Covers ==
  /\ opened \/ visible => selected # C!None /\ ~login
  /\ visible /\ ~C!ShownAtOnce => rows = selected
  /\ login => terminating = C!None

LEMMA CoversInit == C!Init => Covers
BY DEF C!Init, Covers

\* What the operator does: nothing opens over the login panel.
LEMMA OperatorCovers ==
  ASSUME Covers,
         \/ \E s \in Sessions : C!Select(s)
         \/ C!OpenPanel \/ C!ClosePanel \/ C!OpenTerminate \/ C!CloseTerminate
         \/ C!OpenRequisitions \/ C!CloseRequisitions
  PROVE  Covers'
<1>1. CASE C!OpenPanel
  <2>1. /\ selected # C!None /\ ~login
        /\ UNCHANGED <<panel, selected, rows, terminating, login>>
        /\ visible' = C!ShownAtOnce
    BY <1>1 DEF C!OpenPanel, C!Uncovered, C!screenVars
  <2>2. C!ShownAtOnce' = C!ShownAtOnce
    BY <2>1 DEF C!ShownAtOnce
  <2>3. visible' => C!ShownAtOnce'
    BY <2>1, <2>2
  <2> QED
    BY <2>1, <2>3 DEF Covers
<1>2. CASE \/ \E s \in Sessions : C!Select(s)
           \/ C!ClosePanel \/ C!OpenTerminate \/ C!CloseTerminate
           \/ C!OpenRequisitions \/ C!CloseRequisitions
  BY <1>2 DEF Covers, C!Select, C!SelectSession, C!Unselected, C!Hidden, C!ClosePanel,
              C!OpenTerminate, C!CloseTerminate, C!OpenRequisitions, C!CloseRequisitions,
              C!Uncovered, C!ShownAtOnce, C!panelVars, C!screenVars
<1> QED
  BY <1>1, <1>2

\* What only sends, and what happens to the server.
LEMMA SendingCovers ==
  ASSUME Covers,
         \/ C!Elsewhere \/ C!SignedOut \/ C!SubmitLogin \/ C!Announced \/ C!EndAnnounced
         \/ C!Refresh \/ C!CreateSession \/ C!DoEnd \/ C!SendMessage \/ C!TickItem
         \/ C!RestoreCheckpoint \/ C!SaveReviewDraft \/ C!PublishReview \/ C!ConfirmTerminate
         \/ \E s \in Sessions : C!DoRename(s)
         \/ \E route \in {"permission", "interrupt"} : C!Answers(route)
         \/ \E answer : C!Serve(answer)
  PROVE  Covers'
<1>1. UNCHANGED <<panel, selected, opened, visible, rows, terminating, login>>
  BY DEF C!Elsewhere, C!SignedOut, C!SubmitLogin, C!Announced, C!EndAnnounced, C!Refresh,
         C!CreateSession, C!DoEnd, C!SendMessage, C!TickItem, C!RestoreCheckpoint,
         C!SaveReviewDraft, C!PublishReview, C!ConfirmTerminate, C!DoRename, C!Answers, C!Serve,
         C!Asks, C!panelVars, C!screenVars
<1> QED
  BY <1>1 DEF Covers, C!ShownAtOnce

\* Answers, whichever session is selected when they come.
LEMMA AnswerCovers ==
  ASSUME Covers, NEW answer,
         \/ C!ShowLogin(answer) \/ C!Refusal(answer) \/ C!Success(answer)
         \/ C!Renamed(answer) \/ C!Encoded(answer) \/ C!RefreshSessions(answer) \/ C!Created(answer)
         \/ C!DraftSaved(answer) \/ C!Published(answer) \/ C!Terminated(answer)
         \/ C!LoggedIn(answer) \/ C!PanelRead(answer)
  PROVE  Covers'
<1>1. CASE \/ C!Refusal(answer) \/ C!Success(answer) \/ C!Renamed(answer) \/ C!Encoded(answer)
           \/ C!RefreshSessions(answer) \/ C!DraftSaved(answer) \/ C!Published(answer)
  BY <1>1 DEF Covers, C!Refusal, C!Success, C!Renamed, C!Encoded, C!RefreshSessions, C!DraftSaved,
              C!Published, C!ShownAtOnce, C!panelVars, C!screenVars
<1>2. CASE C!ShowLogin(answer) \/ C!Created(answer) \/ C!Terminated(answer) \/ C!LoggedIn(answer)
  BY <1>2 DEF Covers, C!ShowLogin, C!Created, C!Terminated, C!LoggedIn, C!SelectSession,
              C!Unselected, C!Hidden, C!ShownAtOnce, C!panelVars, C!screenVars
<1>3. CASE C!PanelRead(answer)
  BY <1>3 DEF Covers, C!PanelRead, C!PanelShows, C!PanelUntrusted, C!PanelKept, C!PanelDropped,
              C!Moved, C!ShownAtOnce, C!panelVars, C!screenVars
<1> QED
  BY <1>1, <1>2, <1>3

LEMMA ConsoleNextCovers ==
  ASSUME Covers, [C!Next]_C!vars
  PROVE  Covers'
<1>1. CASE UNCHANGED C!vars
  BY <1>1 DEF Covers, C!vars, C!panelVars, C!screenVars, C!ShownAtOnce
<1>2. CASE C!Next
  BY <1>2, OperatorCovers, SendingCovers, AnswerCovers DEF C!Next
<1> QED
  BY <1>1, <1>2

\* A checklist or payroll on screen is the selected session's, and nothing
\* paints over the login panel, whichever answers come late, fail, or find
\* another session selected (fetchForCurrentSession and showLogin's comments).
THEOREM OverlaysStayCurrent == C!Spec => []OverlaysAreCurrent
<1>1. Covers => OverlaysAreCurrent
  BY DEF Covers, OverlaysAreCurrent, C!OverlaysAreCurrent
<1> QED
  BY <1>1, CoversInit, ConsoleNextCovers, PTL DEF C!Spec

---------------------------------------------------------------------------
(* AuditView: the order an answer's records are in. *)

\* A sequence that falls through a set, each of its members once.
Falls(s, S) ==
  /\ s \in Seq(Nat)
  /\ \A i, j \in 1..Len(s) : i < j => s[i] > s[j]
  /\ \A p : p \in S <=> \E i \in 1..Len(s) : s[i] = p

\* There is one order only: no place is the first at which two differ.
LEMMA OrderIsWithin ==
  ASSUME NEW S, NEW s, NEW t, Falls(s, S), Falls(t, S), NEW i \in 1..Len(s)
  PROVE  i <= Len(t) /\ s[i] = t[i]
<1>1. /\ s \in Seq(Nat) /\ Len(s) \in Nat /\ t \in Seq(Nat) /\ Len(t) \in Nat
      /\ \A a \in 1..Len(s) : s[a] \in Nat
      /\ \A a \in 1..Len(t) : t[a] \in Nat
  BY DEF Falls
<1> DEFINE Wrong == {a \in 1..Len(s) : ~(a <= Len(t) /\ s[a] = t[a])}
<1>2. SUFFICES ASSUME i \in Wrong PROVE FALSE
  OBVIOUS
<1>3. Wrong \subseteq Nat
  OBVIOUS
<1>4. PICK k \in Wrong : \A c \in Wrong : ~(<<c, k>> \in OpToRel(<, Nat))
  <2> HIDE DEF Wrong
  <2> QED
    BY <1>2, <1>3, NatLessThanWellFounded, WFMin
<1>5. k \in 1..Len(s) /\ k \in Nat /\ ~(k <= Len(t) /\ s[k] = t[k])
  OBVIOUS
<1>6. ASSUME NEW c \in 1..Len(s), c < k PROVE c <= Len(t) /\ s[c] = t[c]
  <2>1. c \in Nat /\ <<c, k>> \in OpToRel(<, Nat)
    BY <1>5, <1>6 DEF OpToRel
  <2> QED
    BY <1>4, <2>1
<1>7. PICK m \in 1..Len(t) : t[m] = s[k]
  BY <1>5 DEF Falls
<1>8. m > k
  <2>1. ~(m < k)
    <3> SUFFICES ASSUME m < k PROVE FALSE
      OBVIOUS
    <3>1. m \in 1..Len(s) /\ s[m] = t[m]
      <4>1. PICK a \in Nat : a = Len(s)
        BY <1>1
      <4>2. m \in Nat /\ 1 <= m /\ k <= a
        BY <1>1, <1>5, <4>1
      <4>3. m \in 1..a
        BY <4>2
      <4> QED
        BY <1>6, <4>1, <4>3
    <3>2. s[m] > s[k]
      BY <1>5, <3>1 DEF Falls
    <3> QED
      BY <1>1, <1>5, <1>7, <3>1, <3>2
  <2>2. m # k
    BY <1>1, <1>5, <1>7
  <2> QED
    BY <1>1, <1>5, <2>1, <2>2
<1>9. k \in 1..Len(t) /\ t[k] > s[k]
  BY <1>1, <1>5, <1>7, <1>8 DEF Falls
<1>10. PICK n \in 1..Len(s) : s[n] = t[k]
  BY <1>9 DEF Falls
<1>11. CASE n < k
  <2>1. s[n] = t[n] /\ n \in 1..Len(t)
    BY <1>1, <1>6, <1>11
  <2>2. t[n] > t[k]
    BY <1>9, <1>11, <2>1 DEF Falls
  <2> QED
    BY <1>1, <1>9, <1>10, <2>1, <2>2
<1>12. CASE n = k
  BY <1>1, <1>5, <1>9, <1>10, <1>12
<1>13. CASE n > k
  <2>1. s[k] > s[n]
    BY <1>5, <1>13 DEF Falls
  <2> QED
    <3>1. PICK x \in Nat, y \in Nat : x = s[k] /\ y = t[k]
      BY <1>1, <1>5, <1>9
    <3>2. x > y /\ y > x
      BY <1>9, <1>10, <2>1, <3>1
    <3> QED
      BY <3>2
<1> QED
  BY <1>1, <1>5, <1>11, <1>12, <1>13

LEMMA OneOrder ==
  ASSUME NEW S, NEW s, NEW t, Falls(s, S), Falls(t, S)
  PROVE  s = t
<1>1. s \in Seq(Nat) /\ t \in Seq(Nat) /\ Len(s) \in Nat /\ Len(t) \in Nat
  BY DEF Falls
<1>2. \A i \in 1..Len(s) : i <= Len(t) /\ s[i] = t[i]
  BY OrderIsWithin
<1>3. \A i \in 1..Len(t) : i <= Len(s)
  BY OrderIsWithin
<1>5. PICK m \in Nat, n \in Nat : m = Len(s) /\ n = Len(t)
  BY <1>1
<1>6. (m > 0 => m <= n) /\ (n > 0 => n <= m)
  BY <1>2, <1>3, <1>5
<1>4. Len(s) = Len(t)
  BY <1>5, <1>6
<1> QED
  BY <1>1, <1>2, <1>4, SeqEqual



\* And there is one, of any set below a bound.
Orders(bound) == \A S \in SUBSET (1..bound) : \E s : Falls(s, S)
LEMMA OrdersBegin == Orders(0)
<1> SUFFICES ASSUME NEW S \in SUBSET (1..0) PROVE \E s : Falls(s, S)
  BY DEF Orders
<1>1. S = {}
  OBVIOUS
<1>2. Falls(<< >>, S)
  BY <1>1 DEF Falls
<1> QED
  BY <1>2
LEMMA OrdersGoOn ==
  ASSUME NEW bound \in Nat, Orders(bound)
  PROVE  Orders(bound + 1)
<1> SUFFICES ASSUME NEW S \in SUBSET (1..(bound + 1)) PROVE \E s : Falls(s, S)
  BY DEF Orders
<1>1. CASE bound + 1 \notin S
  <2>1. S \in SUBSET (1..bound)
    BY <1>1
  <2> QED
    BY <2>1 DEF Orders
<1>2. CASE bound + 1 \in S
  <2>1. S \ {bound + 1} \in SUBSET (1..bound)
    <3>1. \A p \in S : p # bound + 1 => p \in 1..bound
      OBVIOUS
    <3> QED
      BY <3>1
  <2>2. PICK s : Falls(s, S \ {bound + 1})
    BY <2>1 DEF Orders
  <2> DEFINE t == <<bound + 1>> \o s
  <2>3. s \in Seq(Nat) /\ Len(s) \in Nat /\ <<bound + 1>> \in Seq(Nat) /\ Len(<<bound + 1>>) = 1
    BY <2>2 DEF Falls
  <2>4. t \in Seq(Nat) /\ Len(t) = Len(s) + 1 /\ t[1] = bound + 1
        /\ \A i \in 1..Len(s) : t[i + 1] = s[i]
    BY <2>3
  <2> HIDE DEF t
  <2>5. \A i \in 1..Len(s) : s[i] \in S /\ s[i] \in 1..bound
    BY <2>1, <2>2 DEF Falls
  <2>6. \A i \in 2..Len(t) : i - 1 \in 1..Len(s) /\ t[i] = s[i - 1]
    <3> SUFFICES ASSUME NEW i \in 2..Len(t) PROVE i - 1 \in 1..Len(s) /\ t[i] = s[i - 1]
      OBVIOUS
    <3>1. i - 1 \in 1..Len(s) /\ (i - 1) + 1 = i
      BY <2>3, <2>4
    <3> QED
      BY <2>4, <3>1
  <2>7. ASSUME NEW i \in 1..Len(t), NEW j \in 1..Len(t), i < j PROVE t[i] > t[j]
    <3>1. j \in 2..Len(t) /\ j - 1 \in 1..Len(s) /\ t[j] = s[j - 1]
      <4>1. PICK z \in Nat : z = Len(t)
        BY <2>4
      <4>2. j \in 2..z
        BY <2>7, <4>1
      <4> QED
        BY <2>6, <4>1, <4>2
    <3>2. CASE i = 1
      BY <2>4, <2>5, <3>1, <3>2
    <3>3. CASE i # 1
      <4>1. i - 1 \in 1..Len(s) /\ t[i] = s[i - 1] /\ i - 1 < j - 1
        <5>1. i \in 2..Len(t)
          BY <3>3
        <5>2. i \in Int /\ j \in Int /\ i - 1 < j - 1
          BY <2>7
        <5> QED
          BY <2>6, <5>1, <5>2
      <4>2. s[i - 1] > s[j - 1]
        BY <2>2, <3>1, <4>1 DEF Falls
      <4> QED
        BY <3>1, <4>1, <4>2
    <3> QED
      BY <3>2, <3>3
  <2>8. ASSUME NEW p PROVE p \in S <=> \E i \in 1..Len(t) : t[i] = p
    <3>1. ASSUME NEW i \in 1..Len(t), t[i] = p PROVE p \in S
      <4>1. CASE i = 1
        BY <1>2, <2>4, <3>1, <4>1
      <4>2. CASE i # 1
        <5>1. i - 1 \in 1..Len(s) /\ t[i] = s[i - 1]
          BY <2>3, <2>4, <2>6, <4>2
        <5> QED
          BY <2>5, <3>1, <5>1
      <4> QED
        BY <4>1, <4>2
    <3>2. ASSUME p \in S PROVE \E i \in 1..Len(t) : t[i] = p
      <4>1. CASE p = bound + 1
        BY <2>3, <2>4, <4>1
      <4>2. CASE p # bound + 1
        <5>1. PICK i \in 1..Len(s) : s[i] = p
          BY <2>2, <3>2, <4>2 DEF Falls
        <5>2. i + 1 \in 1..Len(t) /\ t[i + 1] = p
          BY <2>3, <2>4, <5>1
        <5> QED
          BY <5>2
      <4> QED
        BY <4>1, <4>2
    <3> QED
      BY <3>1, <3>2
  <2>9. Falls(t, S)
    BY <2>4, <2>7, <2>8 DEF Falls
  <2> QED
    BY <2>9
<1> QED
  BY <1>1, <1>2
LEMMA SomeOrder ==
  ASSUME NEW bound \in Nat, NEW S, S \subseteq 1..bound
  PROVE  \E s : Falls(s, S)
<1> DEFINE Missing == {n \in Nat : ~Orders(n)}
<1>1. Orders(bound)
  <2> SUFFICES ASSUME bound \in Missing PROVE FALSE
    OBVIOUS
  <2>1. Missing \subseteq Nat
    OBVIOUS
  <2>2. PICK k \in Missing : \A c \in Missing : ~(<<c, k>> \in OpToRel(<, Nat))
    <3> HIDE DEF Missing
    <3> QED
      BY <2>1, NatLessThanWellFounded, WFMin
  <2>3. k \in Nat /\ ~Orders(k)
    OBVIOUS
  <2>4. k # 0
    BY <2>3, OrdersBegin
  <2>5. k - 1 \in Nat /\ <<k - 1, k>> \in OpToRel(<, Nat)
    BY <2>3, <2>4 DEF OpToRel
  <2>6. Orders(k - 1)
    BY <2>2, <2>5
  <2>7. Orders((k - 1) + 1)
    BY <2>5, <2>6, OrdersGoOn
  <2> QED
    BY <2>3, <2>7
<1> QED
  BY <1>1 DEF Orders

\* So an answer's records are it.
LEMMA DescendingFalls ==
  ASSUME NEW bound \in Nat, NEW S, S \subseteq 1..bound
  PROVE  Falls(A!Descending(S), S)
<1>1. PICK s : Falls(s, S)
  BY SomeOrder
<1>2. s \in Seq(Nat) /\ Len(s) \in Nat /\ DOMAIN s = 1..Len(s)
  BY <1>1 DEF Falls
<1>13. IsFiniteSet(1..Len(s)) /\ Cardinality(1..Len(s)) = Len(s)
  <2>1. PICK n \in Nat : n = Len(s)
    BY <1>2
  <2>2. IsFiniteSet(1..n) /\ Cardinality(1..n) = IF 1 > n THEN 0 ELSE n - 1 + 1
    BY FS_Interval
  <2>3. Cardinality(1..n) = n
    BY <2>2
  <2> QED
    BY <2>1, <2>2, <2>3
<1>3. \A i, j \in 1..Len(s) : s[i] = s[j] => i = j
  <2> SUFFICES ASSUME NEW i \in 1..Len(s), NEW j \in 1..Len(s), i # j PROVE s[i] # s[j]
    OBVIOUS
  <2>1. s[i] \in Nat /\ s[j] \in Nat
    BY <1>2
  <2>2. i < j \/ j < i
    BY <1>2
  <2> QED
    BY <1>1, <2>1, <2>2 DEF Falls
<1>4. s \in [1..Len(s) -> S]
  BY <1>1, <1>2 DEF Falls
<1>5. s \in Bijection(1..Len(s), S)
  <2>1. s \in Injection(1..Len(s), S)
    BY <1>3, <1>4, Fun_IsInj
  <2>2. \A p \in S : \E i \in 1..Len(s) : s[i] = p
    BY <1>1 DEF Falls
  <2>3. s \in Surjection(1..Len(s), S)
    BY <1>4, <2>2, Fun_IsSurj
  <2> QED
    BY <2>1, <2>3 DEF Bijection
<1>6. IsFiniteSet(S) /\ Cardinality(S) = Len(s)
  <2>1. ExistsBijection(1..Len(s), S)
    BY <1>5 DEF ExistsBijection
  <2>2. IsFiniteSet(1..Len(s)) /\ Cardinality(1..Len(s)) = Len(s)
    BY <1>13
  <2> QED
    BY <2>1, <2>2, FS_Bijection
<1>7. A!Cardinality(S) = Len(s)
  BY <1>6 DEF A!Cardinality, Cardinality, A!IsFiniteSet, IsFiniteSet
<1> DEFINE d == A!Descending(S)
<1>8. /\ d \in [1..Len(s) -> S]
      /\ \A i, j \in DOMAIN d : i < j => d[i] > d[j]
  <2>1. \A i, j \in DOMAIN s : i < j => s[i] > s[j]
    BY <1>1, <1>2 DEF Falls
  <2> QED
    BY <1>4, <1>7, <2>1 DEF A!Descending
<1> HIDE DEF d
<1>9. d \in Seq(Nat) /\ Len(d) = Len(s) /\ DOMAIN d = 1..Len(d)
  <2>1. PICK n \in Nat : n = Len(s)
    BY <1>2
  <2>2. d \in [1..n -> Nat]
    <3>1. \A i \in 1..n : d[i] \in S
      BY <1>8, <2>1
    <3>2. \A p \in S : p \in Nat
      OBVIOUS
    <3> QED
      BY <1>8, <2>1, <3>1, <3>2
  <2> QED
    BY <2>1, <2>2
<1>10. \A i, j \in 1..Len(s) : d[i] = d[j] => i = j
  <2> SUFFICES ASSUME NEW i \in 1..Len(s), NEW j \in 1..Len(s), i # j PROVE d[i] # d[j]
    OBVIOUS
  <2>1. d[i] \in Nat /\ d[j] \in Nat
    BY <1>8, <1>9
  <2>2. i < j \/ j < i
    BY <1>2
  <2> QED
    BY <1>8, <1>9, <2>1, <2>2
<1>11. d \in Surjection(1..Len(s), S)
  <2>1. d \in Injection(1..Len(s), S)
    BY <1>8, <1>10, Fun_IsInj
  <2>2. Cardinality(1..Len(s)) = Cardinality(S)
    BY <1>6, <1>13
  <2> QED
    BY <1>6, <2>1, <2>2, FS_Injection
<1>12. \A p : p \in S <=> \E i \in 1..Len(d) : d[i] = p
  BY <1>8, <1>9, <1>11 DEF Surjection
<1> QED
  BY <1>8, <1>9, <1>12 DEF Falls, d

\* One page behind another.
LEMMA PagesJoin ==
  ASSUME NEW bound \in Nat, NEW S, S \subseteq 1..bound, NEW k \in Nat
  PROVE  A!Descending({p \in S : p >= k}) \o A!Descending({p \in S : p < k}) = A!Descending(S)
<1>0. PICK upper, lower : upper = {p \in S : p >= k} /\ lower = {p \in S : p < k}
  OBVIOUS
<1>1. PICK u : u = A!Descending(upper)
  OBVIOUS
<1>2. PICK l : l = A!Descending(lower)
  OBVIOUS
<1>3. Falls(u, upper) /\ Falls(l, lower) /\ Falls(A!Descending(S), S)
  BY <1>0, <1>1, <1>2, DescendingFalls
<1>4. u \in Seq(Nat) /\ l \in Seq(Nat)
  BY <1>3 DEF Falls
<1>5. PICK m \in Nat, n \in Nat : m = Len(u) /\ n = Len(l)
  BY <1>4
<1> DEFINE s == u \o l
<1>6. /\ s \in Seq(Nat) /\ Len(s) = m + n
      /\ \A i \in 1..m : s[i] = u[i]
      /\ \A i \in 1..n : s[m + i] = l[i]
  BY <1>4, <1>5
<1> HIDE DEF s
<1>7. (\A i \in 1..m : u[i] \in upper) /\ (\A i \in 1..n : l[i] \in lower)
  BY <1>3, <1>5 DEF Falls
<1>8. \A i \in (m + 1)..(m + n) : i - m \in 1..n /\ s[i] = l[i - m]
  <2> SUFFICES ASSUME NEW i \in (m + 1)..(m + n) PROVE i - m \in 1..n /\ s[i] = l[i - m]
    OBVIOUS
  <2>1. i - m \in 1..n /\ m + (i - m) = i
    OBVIOUS
  <2> QED
    BY <1>6, <2>1
<1>9. ASSUME NEW i \in 1..(m + n), NEW j \in 1..(m + n), i < j PROVE s[i] > s[j]
  <2>1. CASE j <= m
    <3>1. i \in 1..m /\ j \in 1..m /\ s[i] = u[i] /\ s[j] = u[j]
      BY <1>6, <1>9, <2>1
    <3> QED
      BY <1>3, <1>5, <1>9, <3>1 DEF Falls
  <2>2. CASE i <= m /\ j > m
    <3>1. s[i] \in upper
      BY <1>6, <1>7, <2>2
    <3>2. j \in (m + 1)..(m + n)
      BY <2>2
    <3>3. s[j] \in lower
      BY <1>7, <1>8, <3>2
    <3>4. s[i] \in Nat /\ s[j] \in Nat /\ s[i] >= k /\ s[j] < k
      <4>1. \A p \in upper : p \in Nat /\ p >= k
        BY <1>0
      <4>2. \A p \in lower : p \in Nat /\ p < k
        BY <1>0
      <4> QED
        BY <3>1, <3>3, <4>1, <4>2
    <3> QED
      BY <3>4
  <2>3. CASE i > m
    <3>1. i - m \in 1..n /\ j - m \in 1..n /\ i - m < j - m /\ s[i] = l[i - m] /\ s[j] = l[j - m]
      BY <1>8, <1>9, <2>3
    <3> QED
      BY <1>3, <1>5, <3>1 DEF Falls
  <2> QED
    BY <2>1, <2>2, <2>3
<1>10. ASSUME NEW p PROVE p \in S <=> \E i \in 1..(m + n) : s[i] = p
  <2>1. ASSUME NEW i \in 1..(m + n), s[i] = p PROVE p \in S
    <3>1. CASE i <= m
      BY <1>0, <1>6, <1>7, <2>1, <3>1
    <3>2. CASE i > m
      BY <1>0, <1>7, <1>8, <2>1, <3>2
    <3> QED
      BY <3>1, <3>2
  <2>2. CASE p \in upper
    <3>1. PICK i \in 1..m : u[i] = p
      BY <1>3, <1>5, <2>2 DEF Falls
    <3>2. i \in 1..(m + n) /\ s[i] = p
      BY <1>6, <3>1
    <3> QED
      BY <1>0, <2>2, <3>2
  <2>3. CASE p \in lower
    <3>1. PICK i \in 1..n : l[i] = p
      BY <1>3, <1>5, <2>3 DEF Falls
    <3>2. m + i \in 1..(m + n) /\ s[m + i] = p
      <4>1. i \in Nat /\ m + i \in Nat /\ 1 <= m + i /\ m + i <= m + n
        OBVIOUS
      <4>2. s[m + i] = l[i]
        BY <1>6
      <4> QED
        BY <3>1, <4>1, <4>2
    <3> QED
      BY <1>0, <2>3, <3>2
  <2>4. p \in S => p \in upper \/ p \in lower
    BY <1>0
  <2> QED
    BY <2>1, <2>2, <2>3, <2>4
<1>11. Falls(s, S)
  BY <1>6, <1>9, <1>10 DEF Falls
<1> QED
  BY <1>0, <1>1, <1>2, <1>3, <1>11, OneOrder DEF s

---------------------------------------------------------------------------
(* What requests, answers and the panel are. *)

Cursors == {A!End} \cup [boot : Nat, line : Nat]
Answers == [status : {0, 200, 422, 503}, records : Seq(Nat), next : Cursors]
Pinned == A!Filters \cup {"none"}
AuditRequests ==
  [token : Nat, before : Cursors, filter : Pinned, answered : BOOLEAN, answer : Answers, length : Nat]
Views == [rows : Seq(Nat), cursor : Cursors, filter : Pinned, more : BOOLEAN, empty : BOOLEAN]
AuditTypeOK ==
  /\ lines \in Seq(A!Kinds) /\ boots \in Nat /\ inputs \in A!Filters
  /\ view \in Views /\ token \in Nat /\ flight \subseteq AuditRequests /\ top \in Nat

\* A cursor names a line of the file behind its first.
InFile(c) == c = A!End \/ c.line \in 2..Len(lines)
\* An answer holds a page: what matches from the request's position down to
\* where its cursor resumes.
Upper(r) == IF r.before = A!End THEN r.length + 1 ELSE r.before.line
Page(r) ==
  /\ r.length <= Len(lines)
  /\ \E stop \in 1..Upper(r) :
       /\ Upper(r) > 1 => stop < Upper(r)
       /\ r.answer.records = A!Descending(A!Matching(stop, Upper(r) - 1, r.filter))
       /\ IF stop = 1 THEN r.answer.next = A!End
                      ELSE r.answer.next # A!End /\ r.answer.next.line = stop
Tokens ==
  \A r \in flight : r.token <= token /\ \A q \in flight : q.token = r.token => q = r
\* The last request asks for what the panel lacks.
Wanted ==
  \A r \in flight :
    /\ InFile(r.before)
    /\ r.token = token => r.before = view.cursor /\ r.filter = view.filter
    /\ r.answered /\ r.answer.status = 200 => Page(r)
\* Who waits for a first page has no rows.
Panel ==
  /\ top <= Len(lines)
  /\ view.cursor # A!End => view.cursor.line \in 2..top /\ ~view.empty
  /\ view.cursor = A!End /\ (view.more \/ \E r \in flight : r.token = token) =>
       view.rows = << >> /\ ~view.empty
AuditInv == AuditTypeOK /\ Tokens /\ Wanted /\ Panel /\ AuditRowsAreOneQuery

\* What the panel should show, without the names of the definition.
Reached == IF view.cursor = A!End THEN 1 ELSE view.cursor.line
LEMMA RowsAre ==
  AuditRowsAreOneQuery <=>
    /\ view.cursor # A!End \/ view.rows # << >> \/ view.empty =>
         view.rows = A!Descending(A!Matching(Reached, top, view.filter))
    /\ view.empty => view.rows = << >>
BY DEF AuditRowsAreOneQuery, A!AuditRowsAreOneQuery, Reached

LEMMA MaxIsMember ==
  ASSUME NEW n \in Nat, NEW S, S \subseteq 1..n, S # {}
  PROVE  A!Max(S) \in S
<1>1. PICK s : Falls(s, S)
  BY SomeOrder
<1>2. s \in Seq(Nat) /\ Len(s) \in Nat /\ \A i \in 1..Len(s) : s[i] \in S /\ s[i] \in Nat
  BY <1>1 DEF Falls
<1>3. PICK p : p \in S
  OBVIOUS
<1>4. PICK m \in 1..Len(s) : s[m] = p
  BY <1>1, <1>3 DEF Falls
<1>5. 1 \in 1..Len(s)
  BY <1>2, <1>4
<1>6. \A y \in S : s[1] >= y
  <2> SUFFICES ASSUME NEW y \in S PROVE s[1] >= y
    OBVIOUS
  <2>1. PICK i \in 1..Len(s) : s[i] = y
    BY <1>1 DEF Falls
  <2>2. i = 1 \/ 1 < i
    OBVIOUS
  <2>3. 1 < i => s[1] > s[i]
    BY <1>1, <1>5 DEF Falls
  <2> QED
    BY <1>2, <1>5, <2>1, <2>2, <2>3
<1> QED
  BY <1>2, <1>5, <1>6 DEF A!Max

\* The first page is read from the end of the file, a later one from its
\* cursor; readAuditPage stops at a line below that.
AnsweredAs(r, a, s) ==
  /\ a \in {A!ReadPage(r.before, r.filter)} \cup {[status |-> 503, records |-> << >>, next |-> A!End]}
  /\ s = [r EXCEPT !.answered = TRUE, !.answer = a, !.length = Len(lines)]
AnsweredWell(r, s) ==
  /\ s \in AuditRequests /\ s.token = r.token /\ s.before = r.before /\ s.filter = r.filter
  /\ s.answered /\ s.answer.status = 200 => Page(s)
LEMMA ReadPageIs ==
  ASSUME AuditTypeOK, NEW r \in AuditRequests, InFile(r.before), NEW a, NEW s, AnsweredAs(r, a, s)
  PROVE  AnsweredWell(r, s)
<1> SUFFICES /\ s \in AuditRequests /\ s.token = r.token /\ s.before = r.before /\ s.filter = r.filter
             /\ s.answered /\ s.answer.status = 200 => Page(s)
  BY DEF AnsweredWell
<1>0. /\ a \in {A!ReadPage(r.before, r.filter)} \cup {[status |-> 503, records |-> << >>, next |-> A!End]}
      /\ s = [r EXCEPT !.answered = TRUE, !.answer = a, !.length = Len(lines)]
  BY DEF AnsweredAs
<1> USE <1>0
<1>1. /\ s.token = r.token /\ s.before = r.before /\ s.filter = r.filter /\ s.answer = a
      /\ s.length = Len(lines) /\ s.answered = TRUE
  BY DEF AuditRequests
<1>2. Len(lines) \in Nat /\ boots \in Nat
  BY DEF AuditTypeOK
<1>3. r.before \in Cursors /\ r.filter \in Pinned /\ r.token \in Nat
  BY DEF AuditRequests
<1>4. a \in Answers => s \in AuditRequests
  <2> SUFFICES ASSUME a \in Answers PROVE s \in AuditRequests
    OBVIOUS
  <2>1. PICK l \in Nat : l = Len(lines)
    BY <1>2
  <2> QED
    BY <2>1 DEF AuditRequests
<1>5. A!End \in Cursors /\ << >> \in Seq(Nat)
  BY DEF Cursors
<1>6. CASE a.status # 200
  <2>1. a \in Answers
    <3>1. \/ a = [status |-> 503, records |-> << >>, next |-> A!End]
          \/ a = [status |-> 422, records |-> << >>, next |-> A!End]
          \/ a.status = 200
      BY DEF A!ReadPage
    <3>2. [status |-> 503, records |-> << >>, next |-> A!End] \in Answers
      BY <1>5 DEF Answers
    <3>3. [status |-> 422, records |-> << >>, next |-> A!End] \in Answers
      BY <1>5 DEF Answers
    <3> QED
      BY <1>6, <3>1, <3>2, <3>3
  <2> QED
    BY <1>1, <1>4, <1>6, <2>1
<1>7. CASE a.status = 200
  <2>1. PICK upper : upper = IF r.before = A!End THEN Len(lines) + 1 ELSE r.before.line
    OBVIOUS
  <2>2. upper \in Nat /\ upper >= 1 /\ upper - 1 \in Nat /\ upper = Upper(s)
    BY <1>1, <1>2, <2>1 DEF InFile, Upper
  <2>3. PICK stop : stop = A!Stop(upper, r.filter)
    OBVIOUS
  <2>4. /\ a.records = A!Descending(A!Matching(stop, upper - 1, r.filter))
        /\ a.next = IF stop = 1 THEN A!End ELSE A!Cursor(stop)
    <3>1. a = A!ReadPage(r.before, r.filter)
      BY <1>7
    <3>2. ~(r.before # A!End /\ r.before.boot # boots)
      BY <1>7, <3>1 DEF A!ReadPage
    <3>3. a = [status |-> 200,
               records |-> A!Descending(A!Matching(stop, upper - 1, r.filter)),
               next |-> IF stop = 1 THEN A!End ELSE A!Cursor(stop)]
      BY <2>1, <2>3, <3>1, <3>2 DEF A!ReadPage
    <3> QED
      BY <3>3
  <2>5. stop \in 1..upper /\ (upper > 1 => stop < upper)
    <3>1. PICK S : S = {1} \cup {p \in 1..(upper - 1) : A!Examined(p, upper) \/ A!Full(p, upper, r.filter)}
      OBVIOUS
    <3>2. S \subseteq 1..upper /\ S # {} /\ (\A p \in S : p = 1 \/ p < upper)
      BY <2>2, <3>1
    <3>3. stop = A!Max(S)
      BY <2>3, <3>1 DEF A!Stop
    <3>4. stop \in S
      BY <2>2, <3>2, <3>3, MaxIsMember
    <3> QED
      BY <2>2, <3>2, <3>4
  <2>6. a.records \in Seq(Nat)
    <3>1. A!Matching(stop, upper - 1, r.filter) \subseteq 1..(upper - 1)
      BY <2>2, <2>5 DEF A!Matching
    <3> QED
      BY <2>2, <2>4, <3>1, DescendingFalls DEF Falls
  <2>7. stop # 1 => a.next \in Cursors /\ a.next # A!End /\ a.next.line = stop
    BY <1>2, <2>2, <2>4, <2>5 DEF A!Cursor, A!End, Cursors
  <2>8. a \in Answers
    <3>1. a = [status |-> 200, records |-> a.records, next |-> a.next]
      BY <1>7 DEF A!ReadPage
    <3>2. a.next \in Cursors
      BY <1>5, <2>4, <2>7
    <3> QED
      BY <2>6, <3>1, <3>2 DEF Answers
  <2>9. Page(s)
    <3>1. s.length <= Len(lines)
      BY <1>1, <1>2
    <3>2. /\ Upper(s) > 1 => stop < Upper(s)
          /\ s.answer.records = A!Descending(A!Matching(stop, Upper(s) - 1, s.filter))
          /\ IF stop = 1 THEN s.answer.next = A!End
                         ELSE s.answer.next # A!End /\ s.answer.next.line = stop
      BY <1>1, <2>2, <2>4, <2>5, <2>7
    <3> QED
      BY <2>2, <2>5, <3>1, <3>2 DEF Page
  <2> QED
    BY <1>1, <1>4, <2>8, <2>9
<1> QED
  BY <1>6, <1>7

---------------------------------------------------------------------------
(* The steps. *)

\* Records behind a page's change nothing of it.
LEMMA PageStays ==
  ASSUME AuditTypeOK,
         UNCHANGED lines \/ \E k \in A!Kinds : lines' = Append(lines, k)
  PROVE  /\ Len(lines) <= Len(lines')
         /\ \A low, high \in Nat, filter \in Pinned :
              1 <= low /\ high <= Len(lines) =>
                (A!Matching(low, high, filter))' = A!Matching(low, high, filter)
         /\ \A c \in Cursors : InFile(c) => InFile(c)'
         /\ \A r \in AuditRequests : InFile(r.before) /\ Page(r) => Page(r)'
<1>1. /\ lines \in Seq(A!Kinds) /\ Len(lines) \in Nat /\ Len(lines') \in Nat
      /\ Len(lines) <= Len(lines') /\ \A p \in 1..Len(lines) : lines'[p] = lines[p]
  BY DEF AuditTypeOK
<1>2. ASSUME NEW low \in Nat, NEW high \in Nat, NEW filter \in Pinned, 1 <= low, high <= Len(lines)
      PROVE  (A!Matching(low, high, filter))' = A!Matching(low, high, filter)
  <2>1. \A p \in low..high : p \in 1..Len(lines)
    BY <1>1, <1>2
  <2>2. \A p \in low..high : A!Matches(p, filter)' <=> A!Matches(p, filter)
    BY <1>1, <2>1 DEF A!Matches
  <2> QED
    BY <2>2 DEF A!Matching
<1>3. ASSUME NEW c \in Cursors, InFile(c) PROVE InFile(c)'
  BY <1>1, <1>3 DEF InFile, A!End, Cursors
<1>4. ASSUME NEW r \in AuditRequests, InFile(r.before), Page(r) PROVE Page(r)'
  <2>1. /\ r.length \in Nat /\ r.length <= Len(lines) /\ r.filter \in Pinned
    BY <1>4 DEF Page, AuditRequests
  <2>2. PICK upper \in Nat : upper = Upper(r) /\ upper = Upper(r)' /\ upper >= 1 /\ upper - 1 <= Len(lines)
    BY <1>1, <1>4, <2>1 DEF Upper, InFile, A!End
  <2>3. PICK stop \in 1..upper :
          /\ upper > 1 => stop < upper
          /\ r.answer.records = A!Descending(A!Matching(stop, upper - 1, r.filter))
          /\ IF stop = 1 THEN r.answer.next = A!End
                         ELSE r.answer.next # A!End /\ r.answer.next.line = stop
    BY <1>4, <2>2 DEF Page
  <2>4. (A!Matching(stop, upper - 1, r.filter))' = A!Matching(stop, upper - 1, r.filter)
    BY <1>2, <2>1, <2>2, <2>3
  <2>5. A!Descending(A!Matching(stop, upper - 1, r.filter)') = A!Descending(A!Matching(stop, upper - 1, r.filter))
    BY <2>4
  <2>6. r.length <= Len(lines')
    BY <1>1, <2>1
  <2> QED
    BY <2>2, <2>3, <2>5, <2>6 DEF Page
<1> QED
  BY <1>1, <1>2, <1>3, <1>4

\* The rows on screen stay the query's.
LEMMA RowsStay ==
  ASSUME AuditInv, UNCHANGED <<view, top>>,
         UNCHANGED lines \/ \E k \in A!Kinds : lines' = Append(lines, k)
  PROVE  AuditRowsAreOneQuery'
<1>1. /\ view \in Views /\ top \in Nat /\ top <= Len(lines)
      /\ view.cursor # A!End => view.cursor.line \in 2..top
  BY DEF AuditInv, AuditTypeOK, Panel
<1>2. PICK reached \in Nat : reached = Reached /\ reached = Reached' /\ 1 <= reached
  BY <1>1 DEF Reached
<1>3. PICK filter \in Pinned : filter = view.filter
  BY <1>1 DEF Views
<1>4. PICK t \in Nat : t = top /\ t <= Len(lines)
  BY <1>1
<1>5. (A!Matching(reached, t, filter))' = A!Matching(reached, t, filter)
  BY <1>2, <1>3, <1>4, PageStays DEF AuditInv
<1>6. /\ view.cursor # A!End \/ view.rows # << >> \/ view.empty =>
           view.rows = A!Descending(A!Matching(reached, t, filter))
      /\ view.empty => view.rows = << >>
  BY <1>2, <1>3, <1>4, RowsAre DEF AuditInv
<1>7. A!Matching(Reached, top, view.filter)' = A!Matching(reached, t, filter)
  BY <1>2, <1>3, <1>4, <1>5 DEF A!Matching, A!Matches
<1> QED
  BY <1>6, <1>7 DEF AuditRowsAreOneQuery, A!AuditRowsAreOneQuery, Reached

\* The file grows, the server restarts, the filter inputs change.
LEMMA OutsideStep ==
  ASSUME AuditInv, AuditTypeOK', UNCHANGED <<view, token, flight, top>>,
         UNCHANGED lines \/ \E k \in A!Kinds : lines' = Append(lines, k)
  PROVE  AuditInv'
<1>1. Tokens'
  BY DEF AuditInv, Tokens
<1>2. Wanted'
  <2> SUFFICES ASSUME NEW r \in flight
               PROVE  /\ InFile(r.before)'
                      /\ r.token = token => r.before = view.cursor /\ r.filter = view.filter
                      /\ r.answered /\ r.answer.status = 200 => Page(r)'
    BY DEF Wanted
  <2>1. r \in AuditRequests /\ r.before \in Cursors
    BY DEF AuditInv, AuditTypeOK, AuditRequests
  <2> QED
    BY <2>1, PageStays DEF AuditInv, Wanted
<1>3. Panel'
  <2>1. top \in Nat /\ Len(lines) \in Nat /\ Len(lines') \in Nat /\ Len(lines) <= Len(lines')
    BY PageStays DEF AuditInv, AuditTypeOK
  <2> QED
    BY <2>1 DEF AuditInv, Panel
<1> QED
  BY <1>1, <1>2, <1>3, RowsStay DEF AuditInv

\* A request is made for what the panel, as it is from now on, lacks.
LEMMA AskStep ==
  ASSUME AuditInv, A!Asks(view'.cursor, view'.filter), UNCHANGED <<lines, boots, inputs, top>>,
         view' \in Views, view'.cursor = A!End \/ view'.cursor.line \in 2..top,
         ~view'.empty, view'.cursor = A!End => view'.rows = << >>, AuditRowsAreOneQuery'
  PROVE  AuditInv'
<1>1. PICK new : new = A!Request(view'.cursor, view'.filter)
  OBVIOUS
<1>2. token' = token + 1 /\ flight' = flight \cup {new}
  BY <1>1 DEF A!Asks
<1>3. /\ new \in AuditRequests /\ new.token = token + 1 /\ new.before = view'.cursor
      /\ new.filter = view'.filter /\ new.answered = FALSE
  <2>1. PICK c \in Cursors, f \in Pinned, t \in Nat : c = view'.cursor /\ f = view'.filter /\ t = token + 1
    BY DEF Views, AuditInv, AuditTypeOK
  <2>2. A!Nothing \in Answers
    BY DEF A!Nothing, Answers, Cursors
  <2>3. new = [token |-> t, before |-> c, filter |-> f, answered |-> FALSE, answer |-> A!Nothing, length |-> 0]
    BY <1>1, <2>1 DEF A!Request
  <2> QED
    BY <2>1, <2>2, <2>3 DEF AuditRequests
<1>4. token \in Nat /\ top \in Nat /\ top <= Len(lines) /\ Len(lines) \in Nat /\ flight \subseteq AuditRequests
  BY DEF AuditInv, AuditTypeOK, Panel
<1>5. \A r \in flight : r.token \in Nat /\ r.token <= token
  BY <1>4 DEF AuditRequests, AuditInv, Tokens
<1>6. AuditTypeOK'
  BY <1>2, <1>3, <1>4 DEF AuditInv, AuditTypeOK
<1>7. Tokens'
  BY <1>2, <1>3, <1>4, <1>5 DEF AuditInv, Tokens
<1>8. Wanted'
  <2> SUFFICES ASSUME NEW r \in flight'
               PROVE  /\ InFile(r.before)'
                      /\ r.token = token' => r.before = view'.cursor /\ r.filter = view'.filter
                      /\ r.answered /\ r.answer.status = 200 => Page(r)'
    BY DEF Wanted
  <2>1. CASE r = new
    BY <1>3, <1>4, <2>1 DEF InFile
  <2>2. CASE r \in flight
    <3>1. r.token # token'
      BY <1>2, <1>4, <1>5, <2>2
    <3>2. r \in AuditRequests /\ r.before \in Cursors
      BY <1>4, <2>2 DEF AuditRequests
    <3> QED
      BY <2>2, <3>1, <3>2, PageStays DEF AuditInv, Wanted
  <2> QED
    BY <1>2, <2>1, <2>2
<1>9. Panel'
  BY <1>4 DEF Panel
<1> QED
  BY <1>6, <1>7, <1>8, <1>9 DEF AuditInv

LEMMA ResetStep ==
  ASSUME AuditInv, A!Reset
  PROVE  AuditInv'
<1>1. /\ view \in Views /\ inputs \in Pinned
  BY DEF AuditInv, AuditTypeOK, Pinned
<1>2. view' = [rows |-> << >>, cursor |-> A!End, filter |-> inputs, more |-> view.more, empty |-> FALSE]
  BY <1>1 DEF A!Reset, Views
<1>3. view' \in Views /\ view'.cursor = A!End /\ view'.filter = inputs /\ view'.rows = << >> /\ view'.empty = FALSE
  <2>1. A!End \in Cursors /\ << >> \in Seq(Nat) /\ view.more \in BOOLEAN
    BY <1>1 DEF Cursors, Views
  <2> QED
    BY <1>1, <1>2, <2>1 DEF Views
<1>4. AuditRowsAreOneQuery'
  BY <1>3 DEF AuditRowsAreOneQuery, A!AuditRowsAreOneQuery
<1> QED
  BY <1>3, <1>4, AskStep DEF A!Reset

LEMMA LoadOlderStep ==
  ASSUME AuditInv, A!LoadOlder
  PROVE  AuditInv'
<1>1. AuditRowsAreOneQuery'
  BY RowsStay DEF A!LoadOlder
<1>2. /\ view \in Views /\ view' = view
      /\ view.cursor = A!End => view.rows = << >> /\ ~view.empty
      /\ view.cursor # A!End => view.cursor.line \in 2..top /\ ~view.empty
  BY DEF AuditInv, AuditTypeOK, Panel, A!LoadOlder
<1> QED
  BY <1>1, <1>2, AskStep DEF A!LoadOlder

LEMMA HandleAuditStep ==
  ASSUME AuditInv, NEW r \in flight, A!handleAudit(r)
  PROVE  AuditInv'
<1>1. PICK a \in {A!ReadPage(r.before, r.filter)} \cup
                 {[status |-> 503, records |-> << >>, next |-> A!End]} :
        flight' = (flight \ {r}) \cup {[r EXCEPT !.answered = TRUE, !.answer = a, !.length = Len(lines)]}
  BY DEF A!handleAudit
<1>2. PICK s : s = [r EXCEPT !.answered = TRUE, !.answer = a, !.length = Len(lines)]
  OBVIOUS
<1>3. UNCHANGED <<lines, boots, inputs, view, token, top>> /\ flight' = (flight \ {r}) \cup {s}
  BY <1>1, <1>2 DEF A!handleAudit
<1>4. r \in AuditRequests /\ InFile(r.before)
  BY DEF AuditInv, AuditTypeOK, Wanted
<1>5. /\ s \in AuditRequests /\ s.token = r.token /\ s.before = r.before /\ s.filter = r.filter
      /\ s.answered /\ s.answer.status = 200 => Page(s)
  <2>1. AuditTypeOK
    BY DEF AuditInv
  <2>2. AnsweredAs(r, a, s)
    BY <1>2 DEF AnsweredAs
  <2>3. AnsweredWell(r, s)
    BY <1>4, <2>1, <2>2, ReadPageIs, ZenonT(60)
  <2> QED
    BY <2>3 DEF AnsweredWell
<1>6. AuditTypeOK'
  BY <1>3, <1>5 DEF AuditInv, AuditTypeOK
<1>7. Tokens'
  <2> SUFFICES ASSUME NEW p \in flight', NEW q \in flight'
               PROVE  p.token <= token' /\ (q.token = p.token => q = p)
    BY DEF Tokens
  <2>1. /\ \A o \in flight : o.token <= token
        /\ \A o, m \in flight : m.token = o.token => m = o
    BY DEF AuditInv, Tokens
  <2>2. p.token <= token'
    BY <1>3, <1>5, <2>1
  <2>3. (p = s /\ q = s) \/ (p = s /\ q \in flight \ {r}) \/ (p \in flight \ {r} /\ q = s)
        \/ (p \in flight \ {r} /\ q \in flight \ {r})
    BY <1>3
  <2>4. q.token = p.token => q = p
    BY <1>5, <2>1, <2>3
  <2> QED
    BY <2>2, <2>4
<1>8. Wanted'
  <2> SUFFICES ASSUME NEW q \in flight'
               PROVE  /\ InFile(q.before)'
                      /\ q.token = token' => q.before = view'.cursor /\ q.filter = view'.filter
                      /\ q.answered /\ q.answer.status = 200 => Page(q)'
    BY DEF Wanted
  <2>1. InFile(q.before) /\ (q.answered /\ q.answer.status = 200 => Page(q))
    BY <1>3, <1>4, <1>5 DEF AuditInv, Wanted
  <2>2. q.token = token => q.before = view.cursor /\ q.filter = view.filter
    BY <1>3, <1>5 DEF AuditInv, Wanted
  <2>3. q \in AuditRequests /\ q.before \in Cursors
    BY <1>6 DEF AuditTypeOK, AuditRequests
  <2> QED
    BY <1>3, <2>1, <2>2, <2>3, PageStays DEF AuditInv
<1>9. Panel'
  <2>1. (\E q \in flight' : q.token = token) => \E q \in flight : q.token = token
    BY <1>3, <1>5
  <2> QED
    BY <1>3, <2>1 DEF AuditInv, Panel
<1> QED
  BY <1>3, <1>6, <1>7, <1>8, <1>9, RowsStay DEF AuditInv

LEMMA AnswerStep ==
  ASSUME AuditInv, NEW r \in flight, A!Answer(r)
  PROVE  AuditInv'
<1>1. flight' = flight \ {r} /\ UNCHANGED <<lines, boots, inputs, token>>
  BY DEF A!Answer
<1>2. /\ view \in Views /\ top \in Nat /\ top <= Len(lines) /\ Len(lines) \in Nat /\ boots \in Nat
      /\ r \in AuditRequests /\ InFile(r.before) /\ flight \subseteq AuditRequests
  BY DEF AuditInv, AuditTypeOK, Wanted, Panel
<1>3. Tokens'
  BY <1>1 DEF AuditInv, Tokens
<1>4. CASE UNCHANGED <<view, top>>
  <2>1. AuditTypeOK'
    BY <1>1, <1>4 DEF AuditInv, AuditTypeOK
  <2>2. Wanted'
    <3> SUFFICES ASSUME NEW q \in flight'
                 PROVE  /\ InFile(q.before)'
                        /\ q.token = token' => q.before = view'.cursor /\ q.filter = view'.filter
                        /\ q.answered /\ q.answer.status = 200 => Page(q)'
      BY DEF Wanted
    <3>1. q \in flight /\ q \in AuditRequests /\ q.before \in Cursors
      BY <1>1, <1>2 DEF AuditRequests
    <3> QED
      BY <1>1, <1>4, <3>1, PageStays DEF AuditInv, Wanted
  <2>3. Panel'
    BY <1>1, <1>4 DEF AuditInv, Panel
  <2> QED
    BY <1>1, <1>3, <1>4, <2>1, <2>2, <2>3, RowsStay DEF AuditInv
<1>5. CASE r.token = token /\ r.answer.status = 200
  <2>1. r.answered /\ r.before = view.cursor /\ r.filter = view.filter /\ Page(r)
    BY <1>5 DEF AuditInv, Wanted, A!Answer
  <2>2. PICK records, next : records = r.answer.records /\ next = r.answer.next
    OBVIOUS
  <2>3. /\ view' = [view EXCEPT !.rows = view.rows \o records, !.cursor = next, !.more = next # A!End,
                                !.empty = @ \/ (view.rows \o records = << >> /\ next = A!End)]
        /\ top' = IF r.before = A!End THEN r.length ELSE top
    BY <1>5, <2>2 DEF A!Answer, A!Superseded
  <2>4. PICK stop \in 1..Upper(r) :
          /\ Upper(r) > 1 => stop < Upper(r)
          /\ records = A!Descending(A!Matching(stop, Upper(r) - 1, view.filter))
          /\ IF stop = 1 THEN next = A!End ELSE next # A!End /\ next.line = stop
    BY <2>1, <2>2 DEF Page
  <2>5. /\ records \in Seq(Nat) /\ next \in Cursors /\ view.rows \in Seq(Nat)
        /\ view.filter \in Pinned /\ view.empty \in BOOLEAN /\ view.cursor \in Cursors
        /\ r.length \in Nat /\ r.length <= Len(lines)
    BY <1>2, <2>1, <2>2 DEF AuditRequests, Answers, Views, Page
  <2>6. PICK upper \in Nat : upper = Upper(r) /\ upper >= 1
    BY <1>2, <2>5 DEF Upper, InFile
  <2>7. top' \in Nat /\ top' <= Len(lines) /\ upper - 1 <= top'
    <3>1. CASE view.cursor = A!End
      BY <2>1, <2>3, <2>5, <2>6, <3>1 DEF Upper
    <3>2. CASE view.cursor # A!End
      <4>1. view.cursor.line \in 2..top
        BY <3>2 DEF AuditInv, Panel
      <4> QED
        BY <1>2, <2>1, <2>3, <2>6, <3>2, <4>1 DEF Upper
    <3> QED
      BY <3>1, <3>2
  <2>8. PICK t \in Nat : t = top' /\ t <= Len(lines) /\ upper - 1 <= t
    BY <2>7
  <2>9. PICK f \in Pinned : f = view.filter
    BY <2>5
  <2>10. ~view.empty /\ (view.cursor = A!End => view.rows = << >>)
    BY <1>5 DEF AuditInv, Panel
  <2>11. view.rows \o records = A!Descending(A!Matching(stop, t, f))
    <3>1. CASE view.cursor = A!End
      <4>1. upper - 1 = t
        BY <2>1, <2>3, <2>5, <2>6, <2>8, <3>1 DEF Upper
      <4>2. view.rows \o records = records
        BY <2>5, <2>10, <3>1, ConcatEmptySeq
      <4> QED
        BY <2>4, <2>6, <2>9, <4>1, <4>2
    <3>2. CASE view.cursor # A!End
      <4>1. /\ view.cursor.line \in 2..top /\ upper = view.cursor.line /\ t = top /\ stop < upper
        BY <2>1, <2>3, <2>4, <2>6, <2>8, <3>2 DEF AuditInv, Panel, Upper
      <4>2. view.rows = A!Descending(A!Matching(upper, t, f))
        BY <2>9, <3>2, <4>1, RowsAre DEF AuditInv, Reached
      <4> DEFINE all == A!Matching(stop, t, f)
                 newer == A!Matching(upper, t, f)
                 older == A!Matching(stop, upper - 1, f)
      <4>3. all \subseteq 1..t
        BY <2>4, <2>6 DEF A!Matching
      <4>4. newer = {p \in all : p >= upper}
        BY <2>4, <2>6, <4>1 DEF A!Matching
      <4>5. older = {p \in all : p < upper}
        BY <2>4, <2>6, <2>8, <4>1 DEF A!Matching
      <4>6. A!Descending(newer) \o A!Descending(older) = A!Descending(all)
        <5>1. PICK a, n, o : a = all /\ n = newer /\ o = older
          OBVIOUS
        <5> HIDE DEF all, newer, older
        <5>2. a \subseteq 1..t /\ n = {p \in a : p >= upper} /\ o = {p \in a : p < upper}
          BY <4>3, <4>4, <4>5, <5>1
        <5>3. A!Descending(n) \o A!Descending(o) = A!Descending(a)
          BY <5>2, PagesJoin
        <5> QED
          BY <5>1, <5>3
      <4> QED
        BY <2>4, <2>6, <2>9, <4>2, <4>6
    <3> QED
      BY <3>1, <3>2
  <2>12. PICK shown \in Seq(Nat) : shown = view.rows \o records
    BY <2>5, ConcatProperties
  <2>13. PICK none \in BOOLEAN : none = (view.empty \/ (shown = << >> /\ next = A!End))
    BY <2>5, <2>12
  <2>14. PICK more \in BOOLEAN : more = (next # A!End)
    OBVIOUS
  <2>15. view' = [view EXCEPT !.rows = shown, !.cursor = next, !.more = more, !.empty = none]
    BY <2>3, <2>12, <2>13, <2>14
  <2>16. /\ view' \in Views /\ view'.rows = shown /\ view'.cursor = next /\ view'.filter = f
         /\ view'.more = more /\ view'.empty = none
    BY <1>2, <2>5, <2>9, <2>15 DEF Views
  <2>17. AuditTypeOK'
    BY <1>1, <2>7, <2>16 DEF AuditInv, AuditTypeOK
  <2>18. \A q \in flight' : q.token # token
    BY <1>1, <1>5 DEF AuditInv, Tokens
  <2>19. Wanted'
    <3> SUFFICES ASSUME NEW q \in flight'
                 PROVE  InFile(q.before)' /\ (q.answered /\ q.answer.status = 200 => Page(q)')
      BY <1>1, <2>18 DEF Wanted
    <3>1. q \in flight /\ q \in AuditRequests /\ q.before \in Cursors
      BY <1>1, <1>2 DEF AuditRequests
    <3> QED
      BY <1>1, <3>1, PageStays DEF AuditInv, Wanted
  <2>20. next # A!End => next.line \in 2..t /\ next.line = stop /\ ~none
    <3> SUFFICES ASSUME next # A!End PROVE next.line \in 2..t /\ next.line = stop /\ ~none
      OBVIOUS
    <3>1. stop # 1 /\ next.line = stop
      BY <2>4
    <3>2. stop < upper /\ stop >= 2
      BY <2>4, <2>6, <3>1
    <3>3. ~none
      BY <2>10, <2>13, Zenon
    <3> QED
      BY <2>6, <2>8, <3>1, <3>2, <3>3
  <2>21. Panel'
    BY <1>1, <2>7, <2>8, <2>14, <2>16, <2>18, <2>20 DEF Panel
  <2>22. AuditRowsAreOneQuery'
    <3>1. Reached' = stop
      BY <2>4, <2>16, <2>20 DEF Reached
    <3>2. (A!Matching(Reached, top, view.filter))' = A!Matching(stop, t, f)
      BY <1>1, <2>8, <2>16, <3>1 DEF A!Matching, A!Matches
    <3>3. view'.rows = A!Descending(A!Matching(stop, t, f))
      BY <2>11, <2>12, <2>16
    <3>4. view'.empty => view'.rows = << >>
      BY <2>10, <2>13, <2>16
    <3> QED
      BY <3>2, <3>3, <3>4 DEF AuditRowsAreOneQuery, A!AuditRowsAreOneQuery, Reached
  <2> QED
    BY <1>3, <2>17, <2>19, <2>21, <2>22 DEF AuditInv
<1> QED
  BY <1>4, <1>5 DEF A!Answer, A!Superseded

LEMMA AuditStep ==
  ASSUME AuditInv, [A!Next]_A!vars
  PROVE  AuditInv'
<1>1. ASSUME NEW k \in A!Kinds, A!RecordAppended(k) PROVE AuditInv'
  <2>1. lines' = Append(lines, k) /\ UNCHANGED <<boots, inputs, view, token, flight, top>>
    BY <1>1 DEF A!RecordAppended
  <2>2. AuditTypeOK'
    BY <2>1 DEF AuditInv, AuditTypeOK
  <2> QED
    BY <2>1, <2>2, OutsideStep
<1>2. CASE A!Restart \/ (\E f \in A!Filters : A!FilterChanges(f)) \/ UNCHANGED A!vars
  <2>1. UNCHANGED <<lines, view, token, flight, top>> /\ boots' \in {boots, boots + 1}
        /\ inputs' \in A!Filters
    BY <1>2 DEF A!Restart, A!FilterChanges, A!vars, AuditInv, AuditTypeOK
  <2>2. AuditTypeOK'
    BY <2>1 DEF AuditInv, AuditTypeOK
  <2> QED
    BY <2>1, <2>2, OutsideStep
<1>3. CASE A!Reset \/ A!LoadOlder
  BY <1>3, ResetStep, LoadOlderStep
<1>4. ASSUME NEW r \in flight, A!handleAudit(r) \/ A!Answer(r) PROVE AuditInv'
  BY <1>4, HandleAuditStep, AnswerStep
<1> QED
  BY <1>1, <1>2, <1>3, <1>4 DEF A!Next

LEMMA AuditBegin == A!Init => AuditInv
<1> SUFFICES ASSUME A!Init PROVE AuditInv
  OBVIOUS
<1>1. /\ lines = << >> /\ boots = 0 /\ inputs = "all" /\ token = 0 /\ flight = {} /\ top = 0
      /\ view = [rows |-> << >>, cursor |-> A!End, filter |-> "none", more |-> FALSE, empty |-> FALSE]
  BY DEF A!Init
<1>2. view \in Views
  <2>1. A!End \in Cursors /\ << >> \in Seq(Nat) /\ "none" \in Pinned
    BY DEF Cursors, Pinned
  <2> QED
    BY <1>1, <2>1 DEF Views
<1>3. AuditTypeOK
  BY <1>1, <1>2 DEF AuditTypeOK, A!Filters
<1>4. Tokens /\ Wanted /\ Panel
  BY <1>1 DEF Tokens, Wanted, Panel
<1>5. AuditRowsAreOneQuery
  BY <1>1 DEF AuditRowsAreOneQuery, A!AuditRowsAreOneQuery
<1> QED
  BY <1>3, <1>4, <1>5 DEF AuditInv

\* Whatever the operator clicks while answers are out, and whatever is appended
\* or restarted between two pages, the audit panel's rows are those of the query
\* it pinned, as the log stood at its first page: newest first, down to the
\* cursor, none twice and none missing (loadAuditPage, app.js:1236-1290).
THEOREM RowsAreOneQuery == A!Spec => []AuditRowsAreOneQuery
<1>1. AuditInv => AuditRowsAreOneQuery
  BY DEF AuditInv
<1> QED
  BY <1>1, AuditBegin, AuditStep, PTL DEF A!Spec
====
