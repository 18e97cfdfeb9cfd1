------------------------------- MODULE Merge -------------------------------
(***************************************************************************)
(* The deterministic three-way manifest merge of crates/core/src/merge.rs, *)
(* the decision half of a converge pass.                                   *)
(*                                                                         *)
(* A manifest is a function from the paths it lists to their entries.  A   *)
(* path is the sequence of its components; `.git` is the component Git.    *)
(* An entry is [data, mtime]: data stands for everything the merge         *)
(* compares for equality only (chunks, size, mode), mtime for the pair     *)
(* (mtime_secs, mtime_nanos), which it also orders.  A path a manifest     *)
(* does not list has the entry Absent.                                     *)
(***************************************************************************)
EXTENDS Integers, Sequences, FiniteSets

CONSTANTS
    Absent,     \* the "entry" of a path that a manifest does not list
    Git,        \* the path component `.git`
    Remote      \* the label `remote` in the name of a copy of the remote side

(***************************************************************************)
(* Manifests.                                                              *)
(***************************************************************************)

\* data numbers the contents the users have saved.
Entry == [data : Nat, mtime : Int]

ASSUME AbsentAssumption == Absent \notin Entry

\* A manifest whose entries are in E.
IsManifest(m, E) == m \in [DOMAIN m -> E]

\* A path has at least the name of its file.
IsPath(p) == p \in Seq({p[i] : i \in DOMAIN p}) /\ Len(p) > 0

\* The manifest of a directory tree: finitely many files.
IsTree(m, E) ==
    IsManifest(m, E) /\ IsFiniteSet(DOMAIN m) /\ \A p \in DOMAIN m : IsPath(p)

Empty == [p \in {} |-> Absent]

At(m, p) == IF p \in DOMAIN m THEN m[p] ELSE Absent

\* Every directory a file path implies.
Ancestors(p) == {SubSeq(p, 1, i) : i \in 1 .. Len(p) - 1}

\* A file and its own subdirectory cannot both exist.
Validates(m) == \A p \in DOMAIN m : Ancestors(p) \cap DOMAIN m = {}

\* The paths an apply from old to new writes or deletes.
Diff(old, new) ==
    {p \in DOMAIN old \cup DOMAIN new : At(old, p) # At(new, p)}

(***************************************************************************)
(* The rule table for one path: the winning entry, and the side that       *)
(* loses a last-writer-wins race, if any.                                  *)
(***************************************************************************)

Wins(e)          == [win |-> e, lose |-> "none"]
Races(winner, s) == [win |-> winner, lose |-> s]

\* Mutant: ties go to the local side.
ClashTieToLocal(l, r) ==
    CASE l.data = r.data  -> Wins(IF r.mtime >= l.mtime THEN r ELSE l)
      [] l.data # r.data /\ r.mtime >  l.mtime -> Races(r, "local")
      [] l.data # r.data /\ r.mtime <= l.mtime -> Races(l, "remote")

\* Both sides changed an existing file: equal contents differ in mtime only
\* and the newer mtime stands; otherwise the last writer wins and the other
\* content becomes a conflict copy.  Ties go to the remote.
Clash(l, r) ==
    CASE l.data = r.data  -> Wins(IF r.mtime >= l.mtime THEN r ELSE l)
      [] l.data # r.data /\ r.mtime >= l.mtime -> Races(r, "local")
      [] l.data # r.data /\ r.mtime <  l.mtime -> Races(l, "remote")

\* Mutants: a remote delete beats a local edit; the base is not consulted.
DecideDeleteWins(b, l, r) ==
    CASE l = r \/ r = b \/ l = b -> Wins(IF l = b THEN r ELSE l)
      [] OTHER -> IF l = Absent \/ r = Absent THEN Wins(r) ELSE Clash(l, r)

DecideTwoWay(b, l, r) ==
    IF l = Absent \/ l = r THEN Wins(r)
    ELSE IF r = Absent THEN Wins(l)
    ELSE Clash(l, r)

\* Nobody, or one side only, changed the path; an edit beats a delete.
Decide(b, l, r) ==
    CASE l = r \/ r = b             -> Wins(l)
      [] l # r /\ r # b /\ l = b    -> Wins(r)
      [] l # r /\ r # b /\ l # b    ->
            IF l = Absent THEN Wins(r)
            ELSE IF r = Absent THEN Wins(l)
            ELSE Clash(l, r)

IsGitPath(p) == p[1] = Git

(***************************************************************************)
(* Names of conflict copies.  `stem (conflict from <device> <stamp>)       *)
(* <n>.ext` is the record of its parts, so the rendering is injective: two *)
(* contested paths never claim the same name, and the names claimed        *)
(* earlier in the same merge need not be remembered.                       *)
(***************************************************************************)

CopyName(name, who, stamp, n) ==
    [name |-> name, who |-> who, stamp |-> stamp, n |-> n]

CopyPath(p, who, stamp, n) ==
    [p EXCEPT ![Len(p)] = CopyName(p[Len(p)], who, stamp, n)]

\* Mutant: the remote's names are not reserved.
TakenLocally(local, remote) ==
    LET keys == DOMAIN local
    IN  keys \cup UNION {Ancestors(p) : p \in keys}

Taken(local, remote) ==
    LET keys == DOMAIN local \cup DOMAIN remote
    IN  keys \cup UNION {Ancestors(p) : p \in keys}

\* The smallest ordinal whose name is free.
Claim(taken, p, who, stamp) ==
    LET Free(n) == CopyPath(p, who, stamp, n) \notin taken
        ordinal == CHOOSE n \in 1 .. Cardinality(taken) + 1 :
                      Free(n) /\ \A k \in 1 .. n - 1 : ~Free(k)
    IN  CopyPath(p, who, stamp, ordinal)

(***************************************************************************)
(* The merge.                                                              *)
(***************************************************************************)

MergePaths(base, local, remote) ==
    DOMAIN base \cup DOMAIN local \cup DOMAIN remote

Verdict(base, local, remote, p) ==
    Decide(At(base, p), At(local, p), At(remote, p))

\* The paths that stay in the merged manifest under their own name.
Surviving(base, local, remote) ==
    {p \in MergePaths(base, local, remote) :
        Verdict(base, local, remote, p).win # Absent}

Contested(base, local, remote) ==
    {p \in MergePaths(base, local, remote) :
        Verdict(base, local, remote, p).lose # "none"}

\* The conflict copy a contested path gives rise to.
ConflictCopy(base, local, remote, device, stamp, p) ==
    LET side == Verdict(base, local, remote, p).lose
    IN  [side      |-> side,
         path      |-> p,
         copy      |-> Claim(Taken(local, remote), p,
                             IF side = "local" THEN device ELSE Remote, stamp),
         localOnly |-> IsGitPath(p),
         entry     |-> IF side = "local" THEN local[p] ELSE remote[p]]

Conflicts(base, local, remote, device, stamp) ==
    {ConflictCopy(base, local, remote, device, stamp, p) :
        p \in Contested(base, local, remote)}

\* The manifest to publish: the winners, and the copies that may sync.
MergedWith(base, local, remote, conflicts) ==
    LET synced == {c \in conflicts : ~c.localOnly}
        own    == Surviving(base, local, remote)
    IN  [p \in own \cup {c.copy : c \in synced} |->
            IF p \in own THEN Verdict(base, local, remote, p).win
            ELSE (CHOOSE c \in synced : c.copy = p).entry]

Merge3(base, local, remote, device, stamp) ==
    LET conflicts == Conflicts(base, local, remote, device, stamp)
    IN  [merged    |-> MergedWith(base, local, remote, conflicts),
         conflicts |-> conflicts]

\* What the tree takes from the remote to become the merged manifest: the
\* copies of local losers are made from the file on disk instead.
ApplyFromRemote(local, outcome) ==
    Diff(local, outcome.merged)
        \ {c.copy : c \in {k \in outcome.conflicts :
                              k.side = "local" /\ ~k.localOnly}}
=============================================================================
