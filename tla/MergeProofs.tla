----------------------------- MODULE MergeProofs -----------------------------
(***************************************************************************)
(* Facts about the operators of Merge, and theorems about its runs, for    *)
(* all manifests.                                                          *)
(***************************************************************************)
EXTENDS MergeRuns, TLAPS, SequenceTheorems, FiniteSetTheorems

(***************************************************************************)
(* Manifests.                                                              *)
(***************************************************************************)

\* The empty manifest is a manifest over any entries (Manifest::new).
LEMMA EmptyIsManifest == ASSUME NEW E PROVE IsManifest(Empty, E)
  BY DEF IsManifest, Empty

\* A manifest stays one when more entries are allowed.
LEMMA ManifestMonotonic ==
  ASSUME NEW E, NEW F, E \subseteq F, NEW m, IsManifest(m, E)
  PROVE  IsManifest(m, F)
  BY DEF IsManifest

\* files.get(path): an entry of the manifest, or nothing.
LEMMA AtIsEntry ==
  ASSUME NEW E, NEW m, IsManifest(m, E), NEW p, At(m, p) # Absent
  PROVE  p \in DOMAIN m /\ At(m, p) = m[p] /\ m[p] \in E
  BY DEF IsManifest, At

(***************************************************************************)
(* The rule table.                                                         *)
(***************************************************************************)

\* decide invents no entry, and what it says loses is an existing entry that
\* differs from the winner, which is the other side.
LEMMA DecideIsASide ==
  ASSUME NEW b, NEW l, NEW r,
         l # Absent => l \in Entry,
         r # Absent => r \in Entry
  PROVE  LET v == Decide(b, l, r)
         IN  /\ v.win \in {l, r}
             /\ v.lose \in {"none", "local", "remote"}
             /\ v.lose # "none" => l # Absent /\ r # Absent /\ l.data # r.data
             /\ v.lose = "local" => v.win = r
             /\ v.lose = "remote" => v.win = l
  <1>1. CASE l = r \/ r = b
    BY <1>1 DEF Decide, Wins
  <1>2. CASE l # r /\ r # b /\ l = b
    BY <1>2 DEF Decide, Wins
  <1>3. CASE l # r /\ r # b /\ l # b
    <2>1. CASE l = Absent \/ r = Absent
      BY <1>3, <2>1 DEF Decide, Wins
    <2>2. CASE l # Absent /\ r # Absent
      <3>1. Decide(b, l, r) = Clash(l, r)
        BY <1>3, <2>2 DEF Decide
      <3>2. l.mtime \in Int /\ r.mtime \in Int
        BY <2>2 DEF Entry
      <3>3. CASE l.data = r.data
        BY <2>2, <3>1, <3>3 DEF Clash, Wins, Races
      <3>4. CASE l.data # r.data /\ r.mtime >= l.mtime
        BY <2>2, <3>1, <3>4 DEF Clash, Wins, Races
      <3>5. CASE l.data # r.data /\ r.mtime < l.mtime
        BY <2>2, <3>1, <3>2, <3>5 DEF Clash, Wins, Races
      <3>. QED  BY <3>2, <3>3, <3>4, <3>5
    <2>. QED  BY <2>1, <2>2
  <1>. QED  BY <1>1, <1>2, <1>3

\* Either side's change outlives decide: it wins, or it is the loser that is
\* to be copied, or the winner has the same content.
LEMMA DecideKeeps ==
  ASSUME NEW b, NEW l, NEW r,
         l # Absent => l \in Entry,
         r # Absent => r \in Entry
  PROVE  LET v == Decide(b, l, r)
         IN  /\ l # Absent /\ l # b =>
                   \/ v.win # Absent /\ v.win.data = l.data
                   \/ v.lose = "local"
             /\ r # Absent /\ r # b =>
                   \/ v.win # Absent /\ v.win.data = r.data
                   \/ v.lose = "remote"
  <1>1. CASE l = r \/ r = b
    BY <1>1 DEF Decide, Wins
  <1>2. CASE l # r /\ r # b /\ l = b
    BY <1>2 DEF Decide, Wins
  <1>3. CASE l # r /\ r # b /\ l # b
    <2>1. CASE l = Absent \/ r = Absent
      BY <1>3, <2>1 DEF Decide, Wins
    <2>2. CASE l # Absent /\ r # Absent
      <3>1. Decide(b, l, r) = Clash(l, r)
        BY <1>3, <2>2 DEF Decide
      <3>2. l.mtime \in Int /\ r.mtime \in Int
        BY <2>2 DEF Entry
      <3>3. CASE l.data = r.data
        BY <2>2, <3>1, <3>3 DEF Clash, Wins, Races
      <3>4. CASE l.data # r.data /\ r.mtime >= l.mtime
        BY <2>2, <3>1, <3>4 DEF Clash, Wins, Races
      <3>5. CASE l.data # r.data /\ r.mtime < l.mtime
        BY <2>2, <3>1, <3>2, <3>5 DEF Clash, Wins, Races
      <3>. QED  BY <3>2, <3>3, <3>4, <3>5
    <2>. QED  BY <2>1, <2>2
  <1>. QED  BY <1>1, <1>2, <1>3

(***************************************************************************)
(* The merge.                                                              *)
(***************************************************************************)

\* The winner of every path is an entry of one of the two sides.
LEMMA WinnerIsEntry ==
  ASSUME NEW E, E \subseteq Entry, NEW base, NEW local, NEW remote, NEW p,
         IsManifest(local, E), IsManifest(remote, E),
         Verdict(base, local, remote, p).win # Absent
  PROVE  Verdict(base, local, remote, p).win \in E
  <1>. DEFINE l == At(local, p)  r == At(remote, p)  b == At(base, p)
  <1>1. (l # Absent => l \in E) /\ (r # Absent => r \in E)
    BY AtIsEntry
  <1>2. Verdict(base, local, remote, p) = Decide(b, l, r)
    BY DEF Verdict
  <1>. HIDE DEF l, r, b
  <1>3. Decide(b, l, r).win \in {l, r}
    BY <1>1, DecideIsASide
  <1>. QED  BY <1>1, <1>2, <1>3

\* Only a path that both sides have, with different contents, is contested.
LEMMA ContestedIsShared ==
  ASSUME NEW E, E \subseteq Entry, NEW base, NEW local, NEW remote, NEW p,
         IsManifest(local, E), IsManifest(remote, E),
         Verdict(base, local, remote, p).lose # "none"
  PROVE  /\ p \in DOMAIN local /\ local[p] \in E
         /\ p \in DOMAIN remote /\ remote[p] \in E
         /\ local[p].data # remote[p].data
  <1>. DEFINE l == At(local, p)  r == At(remote, p)  b == At(base, p)
  <1>1. /\ l # Absent => p \in DOMAIN local /\ l = local[p] /\ l \in E
        /\ r # Absent => p \in DOMAIN remote /\ r = remote[p] /\ r \in E
    BY AtIsEntry
  <1>2. Verdict(base, local, remote, p) = Decide(b, l, r)
    BY DEF Verdict
  <1>. HIDE DEF l, r, b
  <1>3. l # Absent /\ r # Absent /\ l.data # r.data
    BY <1>1, <1>2, DecideIsASide
  <1>. QED  BY <1>1, <1>3

\* Every conflict copy holds the entry of one of the sides.
LEMMA ConflictsHoldEntries ==
  ASSUME NEW E, E \subseteq Entry, NEW base, NEW local, NEW remote,
         IsManifest(local, E), IsManifest(remote, E), NEW device, NEW stamp,
         NEW c \in Conflicts(base, local, remote, device, stamp)
  PROVE  c.entry \in E
  <1>1. PICK p \in Contested(base, local, remote) :
           c = ConflictCopy(base, local, remote, device, stamp, p)
    BY DEF Conflicts
  <1>2. Verdict(base, local, remote, p).lose # "none"
    BY DEF Contested
  <1>3. local[p] \in E /\ remote[p] \in E
    BY <1>2, ContestedIsShared
  <1>. QED  BY <1>1, <1>3 DEF ConflictCopy

\* merge returns a manifest of entries that one of the sides had.
LEMMA MergedIsManifest ==
  ASSUME NEW E, E \subseteq Entry, NEW base, NEW local, NEW remote,
         IsManifest(local, E), IsManifest(remote, E), NEW device, NEW stamp
  PROVE  IsManifest(Merge3(base, local, remote, device, stamp).merged, E)
  <1>. DEFINE conflicts == Conflicts(base, local, remote, device, stamp)
              synced == {c \in conflicts : ~c.localOnly}
              own == Surviving(base, local, remote)
              dom == own \cup {c.copy : c \in synced}
              m == MergedWith(base, local, remote, conflicts)
  <1>1. Merge3(base, local, remote, device, stamp).merged = m
    BY DEF Merge3
  <1>2. m = [p \in dom |->
               IF p \in own THEN Verdict(base, local, remote, p).win
               ELSE (CHOOSE c \in synced : c.copy = p).entry]
    BY DEF MergedWith
  <1>3. ASSUME NEW p \in own PROVE Verdict(base, local, remote, p).win \in E
    BY WinnerIsEntry DEF Surviving
  <1>4. ASSUME NEW c \in conflicts PROVE c.entry \in E
    BY ConflictsHoldEntries
  <1>5. ASSUME NEW p \in dom, p \notin own
        PROVE  (CHOOSE c \in synced : c.copy = p).entry \in E
    <2>. HIDE DEF conflicts
    <2>1. \E c \in synced : c.copy = p
      BY <1>5
    <2>2. (CHOOSE c \in synced : c.copy = p) \in synced
      BY <2>1
    <2>. QED  BY <2>2, <1>4
  <1>. HIDE DEF m, dom, own, synced
  <1>6. DOMAIN m = dom /\ \A p \in dom : m[p] \in E
    BY <1>2, <1>3, <1>5
  <1>7. m \in [DOMAIN m -> E]
    BY <1>2, <1>6
  <1>. QED  BY <1>1, <1>7 DEF IsManifest

(***************************************************************************)
(* The names of conflict copies.                                           *)
(***************************************************************************)

\* The image of a finite set under a function.
LEMMA ImageIsFinite ==
  ASSUME NEW S, IsFiniteSet(S), NEW f, DOMAIN f = S
  PROVE  IsFiniteSet({f[x] : x \in S})
  <1>. DEFINE T == {f[x] : x \in S}
           g == [x \in S |-> f[x]]
  <1>1. g \in Surjection(S, T)
    BY DEF Surjection
  <1>. QED  BY <1>1, FS_Surjection

\* A set of numbers that has an element has a least one.
LEMMA LeastNumber ==
  ASSUME NEW T, T \subseteq Nat, T # {}
  PROVE  \E n \in T : \A k \in T : ~(k < n)
  <1>1. PICK n \in T : \A k \in T : ~(<<k, n>> \in OpToRel(<, Nat))
    BY NatLessThanWellFounded, WFMin
  <1>2. ASSUME NEW k \in T, k < n PROVE FALSE
    <2>1. <<k, n>> \in OpToRel(<, Nat)
      BY <1>2 DEF OpToRel
    <2>. QED  BY <1>1, <2>1
  <1>. QED  BY <1>2

\* A path is a function on its components.
LEMMA PathIsFunction ==
  ASSUME NEW p, IsPath(p)
  PROVE  /\ Len(p) \in Nat \ {0} /\ DOMAIN p = 1 .. Len(p)
         /\ p = [i \in 1 .. Len(p) |-> p[i]]
  <1>1. p \in Seq({p[i] : i \in DOMAIN p})
    BY DEF IsPath
  <1>2. Len(p) \in Nat /\ DOMAIN p = 1 .. Len(p) /\ p \in [1 .. Len(p) -> {p[i] : i \in DOMAIN p}]
    BY <1>1, LenProperties
  <1>. QED  BY <1>2 DEF IsPath

\* Two intervals from 1 are equal only if their ends are.
LEMMA SameInterval ==
  ASSUME NEW a \in Nat \ {0}, NEW b \in Nat \ {0}, 1 .. a = 1 .. b
  PROVE  a = b
  <1>1. a \in 1 .. a /\ b \in 1 .. b
    OBVIOUS
  <1>2. a \in 1 .. b /\ b \in 1 .. a
    BY <1>1
  <1>. QED  BY <1>2

\* NameSpace::claim: the name tells which path it is a copy of, whose, of which pass
\* and the how-manieth.
LEMMA CopyPathInjective ==
  ASSUME NEW p, IsPath(p), NEW q, IsPath(q), NEW v, NEW w, NEW s, NEW t, NEW m, NEW n,
         CopyPath(p, v, s, m) = CopyPath(q, w, t, n)
  PROVE  p = q /\ v = w /\ s = t /\ m = n
  <1>. DEFINE c == CopyPath(p, v, s, m)  e == CopyPath(q, w, t, n)
  <1>1. /\ Len(p) \in Nat \ {0} /\ DOMAIN p = 1 .. Len(p)
        /\ p = [i \in 1 .. Len(p) |-> p[i]]
        /\ Len(q) \in Nat \ {0} /\ DOMAIN q = 1 .. Len(q)
        /\ q = [i \in 1 .. Len(q) |-> q[i]]
    BY PathIsFunction
  <1>2. /\ DOMAIN c = 1 .. Len(p) /\ c[Len(p)] = CopyName(p[Len(p)], v, s, m)
        /\ \A i \in 1 .. Len(p) : i # Len(p) => c[i] = p[i]
    BY <1>1 DEF CopyPath
  <1>3. /\ DOMAIN e = 1 .. Len(q) /\ e[Len(q)] = CopyName(q[Len(q)], w, t, n)
        /\ \A i \in 1 .. Len(q) : i # Len(q) => e[i] = q[i]
    BY <1>1 DEF CopyPath
  <1>4. c = e
    OBVIOUS
  <1>. HIDE DEF c, e
  <1>5. Len(p) = Len(q)
    <2>1. 1 .. Len(p) = 1 .. Len(q)
      BY <1>2, <1>3, <1>4
    <2>2. Len(p) \in Nat \ {0} /\ Len(q) \in Nat \ {0}
      BY <1>1
    <2>. QED  BY <2>1, <2>2, SameInterval
  <1>6. CopyName(p[Len(p)], v, s, m) = CopyName(q[Len(p)], w, t, n)
    BY <1>2, <1>3, <1>4, <1>5
  <1>7. p[Len(p)] = q[Len(p)] /\ v = w /\ s = t /\ m = n
    BY <1>6 DEF CopyName
  <1>8. \A i \in 1 .. Len(p) : p[i] = q[i]
    BY <1>2, <1>3, <1>4, <1>5, <1>7
  <1>9. p = q
    BY <1>1, <1>5, <1>8
  <1>. QED  BY <1>7, <1>9

\* NameSpace::claim: some ordinal is free, for finitely many names are taken.
LEMMA ClaimIsFree ==
  ASSUME NEW taken, IsFiniteSet(taken), NEW p, IsPath(p), NEW who, NEW stamp
  PROVE  /\ Claim(taken, p, who, stamp) \notin taken
         /\ \E n \in Nat : Claim(taken, p, who, stamp) = CopyPath(p, who, stamp, n)
  <1>. DEFINE N == Cardinality(taken) + 1
              Free(n) == CopyPath(p, who, stamp, n) \notin taken
              frees == {n \in 1 .. N : Free(n)}
              First(n) == Free(n) /\ \A k \in 1 .. n - 1 : ~Free(k)
  <1>1. Cardinality(taken) \in Nat /\ N \in Nat
    BY FS_CardinalityType
  <1>2. frees # {}
    <2>. SUFFICES ASSUME \A n \in 1 .. N : ~Free(n) PROVE FALSE
      OBVIOUS
    <2>. DEFINE f == [n \in 1 .. N |-> CopyPath(p, who, stamp, n)]
    <2>1. f \in [1 .. N -> taken]
      OBVIOUS
    <2>2. IsFiniteSet(1 .. N) /\ Cardinality(taken) < Cardinality(1 .. N)
      BY <1>1, FS_Interval
    <2>. HIDE DEF N, f
    <2>3. PICK x \in 1 .. N, y \in 1 .. N : x # y /\ f[x] = f[y]
      BY <2>1, <2>2, FS_PigeonHole
    <2>4. CopyPath(p, who, stamp, x) = CopyPath(p, who, stamp, y)
      BY <2>3 DEF f
    <2>. QED  BY <2>3, <2>4, CopyPathInjective
  <1>3. \E n \in 1 .. N : First(n)
    <2>0. frees \subseteq Nat
      BY <1>1
    <2>1. PICK n \in frees : \A k \in frees : ~(k < n)
      <3>. HIDE DEF frees
      <3>. QED  BY <1>2, <2>0, LeastNumber
    <2>2. ASSUME NEW k \in 1 .. n - 1 PROVE ~Free(k)
      <3>1. k \in 1 .. N /\ k < n
        BY <1>1
      <3>. QED  BY <2>1, <3>1
    <2>. QED  BY <2>1, <2>2
  <1>. DEFINE ordinal == CHOOSE n \in 1 .. N : First(n)
  <1>4. First(ordinal) /\ ordinal \in 1 .. N
    <2>. HIDE DEF First, N
    <2>. QED  BY <1>3
  <1>6. ordinal \in Nat
    <2>. HIDE DEF ordinal
    <2>. QED  BY <1>1, <1>4
  <1>5. Claim(taken, p, who, stamp) = CopyPath(p, who, stamp, ordinal)
    BY DEF Claim
  <1>. QED  BY <1>4, <1>5, <1>6

\* NameSpace::new: the files and directories of two trees are finitely many.
LEMMA TakenIsFinite ==
  ASSUME NEW local, NEW remote, IsFiniteSet(DOMAIN local), IsFiniteSet(DOMAIN remote),
         \A p \in DOMAIN local \cup DOMAIN remote : IsPath(p)
  PROVE  IsFiniteSet(Taken(local, remote))
  <1>. DEFINE keys == DOMAIN local \cup DOMAIN remote
              dirs == [p \in keys |-> Ancestors(p)]
  <1>1. IsFiniteSet(keys)
    BY FS_Union
  <1>2. ASSUME NEW p \in keys PROVE IsFiniteSet(Ancestors(p))
    <2>. DEFINE f == [i \in 1 .. Len(p) - 1 |-> SubSeq(p, 1, i)]
    <2>1. Len(p) \in Nat
      BY <1>2, PathIsFunction
    <2>2. IsFiniteSet(1 .. Len(p) - 1)
      BY <2>1, FS_Interval
    <2>3. IsFiniteSet({f[i] : i \in 1 .. Len(p) - 1})
      BY <2>2, ImageIsFinite
    <2>. QED  BY <2>3 DEF Ancestors
  <1>3. {Ancestors(p) : p \in keys} = {dirs[p] : p \in keys} /\ DOMAIN dirs = keys
    OBVIOUS
  <1>4. IsFiniteSet({Ancestors(p) : p \in keys})
    <2>. HIDE DEF dirs, keys
    <2>. QED  BY <1>1, <1>3, ImageIsFinite
  <1>5. IsFiniteSet(UNION {Ancestors(p) : p \in keys})
    BY <1>2, <1>4, FS_UNION
  <1>. QED  BY <1>1, <1>5, FS_Union DEF Taken

\* A conflict copy: of which path, of whose content, under a name that no file
\* and no directory of either tree has.
LEMMA ConflictFacts ==
  ASSUME NEW E, E \subseteq Entry, NEW base, NEW local, NEW remote,
         IsTree(local, E), IsTree(remote, E), NEW device, NEW stamp,
         NEW c \in Conflicts(base, local, remote, device, stamp)
  PROVE  /\ c.path \in Contested(base, local, remote)
         /\ c = ConflictCopy(base, local, remote, device, stamp, c.path)
         /\ c.path \in DOMAIN local /\ c.path \in DOMAIN remote
         /\ c.side = Verdict(base, local, remote, c.path).lose
         /\ c.side \in {"local", "remote"}
         /\ c.entry = (IF c.side = "local" THEN local[c.path] ELSE remote[c.path])
         /\ c.localOnly = IsGitPath(c.path)
         /\ c.copy \notin Taken(local, remote)
         /\ \E w \in {device, Remote}, n \in Nat : c.copy = CopyPath(c.path, w, stamp, n)
  <1>. DEFINE v(p) == Verdict(base, local, remote, p)
              who(p) == IF v(p).lose = "local" THEN device ELSE Remote
              taken == Taken(local, remote)
  <1>1. PICK p \in Contested(base, local, remote) :
           c = ConflictCopy(base, local, remote, device, stamp, p)
    BY DEF Conflicts
  <1>2. /\ c.path = p /\ c.side = v(p).lose /\ c.localOnly = IsGitPath(p)
        /\ c.copy = Claim(taken, p, who(p), stamp)
        /\ c.entry = IF c.side = "local" THEN local[p] ELSE remote[p]
    BY <1>1 DEF ConflictCopy
  <1>3. v(p).lose # "none"
    BY DEF Contested
  <1>4. p \in DOMAIN local /\ p \in DOMAIN remote
    BY <1>3, ContestedIsShared DEF IsTree
  <1>5. v(p).lose \in {"local", "remote"}
    <2>. DEFINE l == At(local, p)  r == At(remote, p)  b == At(base, p)
    <2>1. (l # Absent => l \in Entry) /\ (r # Absent => r \in Entry)
      BY AtIsEntry DEF IsTree
    <2>2. v(p) = Decide(b, l, r)
      BY DEF Verdict
    <2>. HIDE DEF v, l, r, b
    <2>3. Decide(b, l, r).lose \in {"none", "local", "remote"}
      BY <2>1, DecideIsASide
    <2>. QED  BY <1>3, <2>2, <2>3
  <1>6. IsFiniteSet(taken) /\ IsPath(p)
    BY <1>4, TakenIsFinite DEF IsTree
  <1>8. who(p) \in {device, Remote}
    OBVIOUS
  <1>. HIDE DEF taken, who, v
  <1>7. c.copy \notin taken /\ \E n \in Nat : c.copy = CopyPath(p, who(p), stamp, n)
    BY <1>2, <1>6, ClaimIsFree
  <1>. QED  BY <1>1, <1>2, <1>4, <1>5, <1>7, <1>8 DEF taken, v

\* Two contested paths never claim the same name.
LEMMA CopiesAreDistinct ==
  ASSUME NEW E, E \subseteq Entry, NEW base, NEW local, NEW remote,
         IsTree(local, E), IsTree(remote, E), NEW device, NEW stamp,
         NEW c \in Conflicts(base, local, remote, device, stamp),
         NEW k \in Conflicts(base, local, remote, device, stamp),
         c.copy = k.copy
  PROVE  c = k
  <1>1. /\ c = ConflictCopy(base, local, remote, device, stamp, c.path)
        /\ c.path \in DOMAIN local
        /\ \E w \in {device, Remote}, n \in Nat : c.copy = CopyPath(c.path, w, stamp, n)
    BY ConflictFacts
  <1>2. /\ k = ConflictCopy(base, local, remote, device, stamp, k.path)
        /\ k.path \in DOMAIN local
        /\ \E w \in {device, Remote}, n \in Nat : k.copy = CopyPath(k.path, w, stamp, n)
    BY ConflictFacts
  <1>3. IsPath(c.path) /\ IsPath(k.path)
    BY <1>1, <1>2 DEF IsTree
  <1>4. PICK w, n : c.copy = CopyPath(c.path, w, stamp, n)
    BY <1>1
  <1>5. PICK x, m : k.copy = CopyPath(k.path, x, stamp, m)
    BY <1>2
  <1>6. CopyPath(c.path, w, stamp, n) = CopyPath(k.path, x, stamp, m)
    BY <1>4, <1>5
  <1>7. c.path = k.path
    BY <1>3, <1>6, CopyPathInjective
  <1>. QED  BY <1>1, <1>2, <1>7

\* A path of either side is in the merge what the rule table says; all else
\* in the merge are the copies that may sync.
MergeFacts(base, local, remote, out) ==
  /\ \A p \in DOMAIN local \cup DOMAIN remote :
        At(out.merged, p) = Verdict(base, local, remote, p).win
  /\ \A c \in out.conflicts :
        ~c.localOnly => c.copy \in DOMAIN out.merged /\ out.merged[c.copy] = c.entry
  /\ \A p \in DOMAIN out.merged :
        \/ p \in DOMAIN local \cup DOMAIN remote
        \/ \E c \in out.conflicts : ~c.localOnly /\ p = c.copy

LEMMA MergedAt ==
  ASSUME NEW E, E \subseteq Entry, NEW base, NEW local, NEW remote,
         IsTree(local, E), IsTree(remote, E), NEW device, NEW stamp
  PROVE  MergeFacts(base, local, remote, Merge3(base, local, remote, device, stamp))
  <1>. DEFINE conflicts == Conflicts(base, local, remote, device, stamp)
              synced == {c \in conflicts : ~c.localOnly}
              own == Surviving(base, local, remote)
              sides == DOMAIN local \cup DOMAIN remote
              win(p) == Verdict(base, local, remote, p).win
              m == MergedWith(base, local, remote, conflicts)
  <1>1. Merge3(base, local, remote, device, stamp) = [merged |-> m, conflicts |-> conflicts]
    BY DEF Merge3
  <1>2. /\ DOMAIN m = own \cup {c.copy : c \in synced}
        /\ \A p \in own : m[p] = win(p)
        /\ \A p \in DOMAIN m \ own : m[p] = (CHOOSE c \in synced : c.copy = p).entry
    BY DEF MergedWith
  <1>3. own \subseteq sides
    <2>. SUFFICES ASSUME NEW p \in own, p \notin sides PROVE FALSE
      OBVIOUS
    <2>1. At(local, p) = Absent /\ At(remote, p) = Absent
      BY DEF At
    <2>2. win(p) # Absent
      BY DEF Surviving
    <2>. QED  BY <2>1, <2>2 DEF Verdict, Decide, Wins
  <1>4. \A c \in conflicts : c.copy \notin sides
    BY ConflictFacts DEF Taken
  <1>5. \A p \in sides : p \notin own => win(p) = Absent
    BY DEF Surviving, MergePaths
  <1>6. \A p \in own : win(p) # Absent
    BY DEF Surviving
  <1>7. \A c \in conflicts, k \in conflicts : c.copy = k.copy => c = k
    BY CopiesAreDistinct
  <1>. HIDE DEF m, own, conflicts, sides, win
  <1>8. ASSUME NEW p \in sides PROVE At(m, p) = win(p)
    <2>1. CASE p \in own
      BY <1>2, <2>1 DEF At
    <2>2. CASE p \notin own
      <3>1. p \notin DOMAIN m
        BY <1>2, <1>4, <2>2
      <3>. QED  BY <1>5, <2>2, <3>1 DEF At
    <2>. QED  BY <2>1, <2>2
  <1>9. ASSUME NEW c \in conflicts, ~c.localOnly
        PROVE  c.copy \in DOMAIN m /\ m[c.copy] = c.entry
    <2>1. c \in synced /\ c.copy \in DOMAIN m \ own
      BY <1>2, <1>3, <1>4, <1>9
    <2>2. \A k \in synced : k.copy = c.copy => k = c
      BY <1>7
    <2>3. (CHOOSE k \in synced : k.copy = c.copy) = c
      <3>. HIDE DEF synced
      <3>. QED  BY <2>1, <2>2
    <2>4. m[c.copy] = (CHOOSE k \in synced : k.copy = c.copy).entry
      BY <1>2, <2>1
    <2>. QED  BY <2>1, <2>3, <2>4
  <1>10. ASSUME NEW p \in DOMAIN m
         PROVE  p \in sides \/ \E c \in conflicts : ~c.localOnly /\ p = c.copy
    BY <1>2, <1>3
  <1>. QED  BY <1>1, <1>8, <1>9, <1>10 DEF MergeFacts, sides, win

\* merge.rs, "a converge never loses a byte of user data": a file that either
\* side added or changed keeps its content in the merge, under its own path
\* or as the entry of a conflict copy made for that path.
THEOREM MergeKeepsEdits ==
  ASSUME NEW base, NEW local, NEW remote, NEW device, NEW stamp,
         IsManifest(local, Entry), IsManifest(remote, Entry),
         NEW m \in {local, remote}, NEW p \in DOMAIN m, m[p] # At(base, p)
  PROVE  LET out == Merge3(base, local, remote, device, stamp)
         IN  \/ p \in DOMAIN out.merged /\ out.merged[p].data = m[p].data
             \/ \E c \in out.conflicts : c.path = p /\ c.entry = m[p]
  <1>. DEFINE v == Verdict(base, local, remote, p)
              conflicts == Conflicts(base, local, remote, device, stamp)
              merged == MergedWith(base, local, remote, conflicts)
              l == At(local, p)  r == At(remote, p)  b == At(base, p)
  <1>1. p \in MergePaths(base, local, remote)
    BY DEF MergePaths
  <1>2. /\ l # Absent => l \in Entry
        /\ r # Absent => r \in Entry
    BY AtIsEntry
  <1>3. m[p] \in Entry /\ m[p] # Absent
    BY AbsentAssumption DEF IsManifest
  <1>4. \/ v.win # Absent /\ v.win.data = m[p].data
        \/ m = local /\ v.lose = "local"
        \/ m = remote /\ v.lose = "remote"
    <2>1. v = Decide(b, l, r)
      BY DEF Verdict
    <2>2. (m = local => l = m[p]) /\ (m = remote => r = m[p])
      BY DEF At
    <2>. HIDE DEF v, l, r
    <2>. QED  BY <1>2, <1>3, <2>1, <2>2, DecideKeeps
  <1>5. CASE v.win # Absent /\ v.win.data = m[p].data
    <2>1. p \in Surviving(base, local, remote)
      BY <1>1, <1>5 DEF Surviving
    <2>2. p \in DOMAIN merged /\ merged[p] = v.win
      BY <2>1 DEF MergedWith
    <2>. QED  BY <1>5, <2>2 DEF Merge3
  <1>6. CASE (m = local /\ v.lose = "local") \/ (m = remote /\ v.lose = "remote")
    <2>1. p \in Contested(base, local, remote)
      BY <1>1, <1>6 DEF Contested
    <2>. DEFINE c == ConflictCopy(base, local, remote, device, stamp, p)
    <2>2. c \in conflicts
      BY <2>1 DEF Conflicts
    <2>3. c.path = p /\ c.entry = m[p]
      BY <1>6 DEF ConflictCopy
    <2>. HIDE DEF c, conflicts
    <2>4. Merge3(base, local, remote, device, stamp).conflicts = conflicts
      BY DEF Merge3, conflicts
    <2>. QED  BY <2>2, <2>3, <2>4
  <1>. QED  BY <1>4, <1>5, <1>6

\* Merging the head a tree was merged with into that tree again gives the tree:
\* with the remote as the base, decide keeps the local side everywhere.
LEMMA MergeIsIdempotent ==
  ASSUME NEW local, NEW remote, IsManifest(local, Entry), NEW device, NEW stamp
  PROVE  Merge3(remote, local, remote, device, stamp) = [merged |-> local, conflicts |-> {}]
  <1>. DEFINE v(p) == Verdict(remote, local, remote, p)
              own == Surviving(remote, local, remote)
              m == MergedWith(remote, local, remote, {})
  <1>1. ASSUME NEW p PROVE v(p) = Wins(At(local, p))
    BY DEF Verdict, Decide
  <1>2. Contested(remote, local, remote) = {}
    BY <1>1 DEF Contested, Wins
  <1>3. Conflicts(remote, local, remote, device, stamp) = {}
    BY <1>2 DEF Conflicts
  <1>4. own = DOMAIN local
    <2>1. ASSUME NEW p \in DOMAIN local PROVE p \in own
      <3>1. At(local, p) # Absent
        BY AbsentAssumption DEF At, IsManifest
      <3>. QED  BY <1>1, <3>1 DEF Surviving, MergePaths, Wins
    <2>2. ASSUME NEW p \in own PROVE p \in DOMAIN local
      BY <1>1 DEF Surviving, Wins, At
    <2>. QED  BY <2>1, <2>2
  <1>5. m = [p \in own |-> v(p).win]
    <2>. DEFINE f == [p \in own |-> v(p).win]
    <2>1. m = [p \in own \cup {} |-> IF p \in own THEN v(p).win
                 ELSE (CHOOSE c \in {} : c.copy = p).entry]
      BY DEF MergedWith
    <2>. HIDE DEF own, v
    <2>. QED  BY <2>1
  <1>6. m = [p \in DOMAIN local |-> local[p]]
    <2>1. ASSUME NEW p \in DOMAIN local PROVE v(p).win = local[p]
      BY <1>1 DEF Wins, At
    <2>. HIDE DEF own, v, m
    <2>. QED  BY <1>4, <1>5, <2>1
  <1>7. local = [p \in DOMAIN local |-> local[p]]
    BY DEF IsManifest
  <1>8. Merge3(remote, local, remote, device, stamp) = [merged |-> m, conflicts |-> {}]
    BY <1>3 DEF Merge3
  <1>. QED  BY <1>6, <1>7, <1>8

\* The rule table read from the other side: the same entry wins, except that
\* of two contents of the same age the one that is called remote does.
LEMMA DecideIsSymmetric ==
  ASSUME NEW b, NEW l, NEW r,
         l # Absent => l \in Entry,
         r # Absent => r \in Entry
  PROVE  \/ Decide(b, l, r).win = Decide(b, r, l).win
         \/ /\ l # Absent /\ r # Absent /\ l.mtime = r.mtime
            /\ Decide(b, l, r).win = r
  <1>1. CASE l = r \/ l = b \/ r = b
    BY <1>1 DEF Decide, Wins
  <1>2. CASE l # r /\ l # b /\ r # b
    <2>1. CASE l = Absent \/ r = Absent
      BY <1>2, <2>1 DEF Decide, Wins
    <2>2. CASE l # Absent /\ r # Absent
      <3>1. Decide(b, l, r) = Clash(l, r) /\ Decide(b, r, l) = Clash(r, l)
        BY <1>2, <2>2 DEF Decide
      <3>2. /\ l.mtime \in Int /\ r.mtime \in Int
            /\ l = [data |-> l.data, mtime |-> l.mtime]
            /\ r = [data |-> r.data, mtime |-> r.mtime]
        BY <2>2 DEF Entry
      <3>3. CASE l.data = r.data
        <4>1. l.mtime # r.mtime
          BY <1>2, <3>2, <3>3
        <4>2. Clash(l, r) = Wins(IF r.mtime >= l.mtime THEN r ELSE l)
          BY <3>3 DEF Clash
        <4>3. Clash(r, l) = Wins(IF l.mtime >= r.mtime THEN l ELSE r)
          BY <3>3 DEF Clash
        <4>. QED  BY <3>1, <3>2, <4>1, <4>2, <4>3 DEF Wins
      <3>4. CASE l.data # r.data /\ r.mtime = l.mtime
        <4>1. Clash(l, r) = Races(r, "local")
          BY <3>2, <3>4 DEF Clash
        <4>. QED  BY <2>2, <3>1, <3>4, <4>1 DEF Races
      <3>5. CASE l.data # r.data /\ r.mtime > l.mtime
        <4>1. Clash(l, r) = Races(r, "local") /\ Clash(r, l) = Races(r, "remote")
          BY <3>2, <3>5 DEF Clash
        <4>. QED  BY <3>1, <4>1 DEF Races
      <3>6. CASE l.data # r.data /\ r.mtime < l.mtime
        <4>1. Clash(l, r) = Races(l, "remote") /\ Clash(r, l) = Races(l, "local")
          BY <3>2, <3>6 DEF Clash
        <4>. QED  BY <3>1, <4>1 DEF Races
      <3>. QED  BY <3>2, <3>3, <3>4, <3>5, <3>6
    <2>. QED  BY <2>1, <2>2
  <1>. QED  BY <1>1, <1>2

(***************************************************************************)
(* The runs of the merge.  The invariant says what the outcome is at every *)
(* stage: the merge of the inputs, then that of the tree it left with the  *)
(* head it was merged with.                                                *)
(***************************************************************************)

Inputs == IsTree(ancestor, Entry) /\ IsTree(ours, Entry) /\ IsTree(theirs, Entry)

MergeInv ==
  \/ outcome = NotYet /\ Inputs
  \/ outcome = Merged(ancestor, ours, theirs, 1) /\ Inputs
  \/ /\ outcome = Merged(theirs, ours, theirs, 2)
     /\ ancestor = theirs /\ IsManifest(ours, Entry)

LEMMA MergeInvStep ==
  ASSUME MergeInv, [MergeNext]_mergeVars
  PROVE  MergeInv'
  <1>1. CASE MergeOnce
    <2>1. outcome = NotYet /\ Inputs
      BY <1>1 DEF MergeInv, MergeOnce, Merged
    <2>. QED  BY <1>1, <2>1 DEF MergeInv, MergeOnce, Merged, Inputs
  <1>2. CASE MergeAgain
    <2>1. outcome = Merged(ancestor, ours, theirs, 1) /\ Inputs
      BY <1>2 DEF MergeInv, MergeAgain, Merged, NotYet
    <2>2. IsManifest(Merge3(ancestor, ours, theirs, Merger, PassStamp).merged, Entry)
      BY <2>1, MergedIsManifest DEF Inputs, IsTree
    <2>3. outcome.merged = Merge3(ancestor, ours, theirs, Merger, PassStamp).merged
      BY <2>1 DEF Merged
    <2>4. IsManifest(ours', Entry) /\ ancestor' = theirs' /\ theirs' = theirs
      BY <1>2, <2>2, <2>3 DEF MergeAgain
    <2>5. outcome' = Merged(theirs', ours', theirs', 2)
      BY <1>2 DEF MergeAgain
    <2>. QED  BY <2>4, <2>5 DEF MergeInv
  <1>3. CASE UNCHANGED mergeVars
    BY <1>3 DEF MergeInv, mergeVars, Merged, Inputs
  <1>. QED  BY <1>1, <1>2, <1>3 DEF MergeNext

LEMMA MergeInvariant == MergeSpec => []MergeInv
  <1>1. MergeInit => MergeInv
    BY TreesAssumption DEF MergeInit, MergeInv, Inputs
  <1>. QED  BY <1>1, MergeInvStep, PTL DEF MergeSpec

\* What the outcome is when the merge has run, in the terms of the lemmas.
LEMMA OutcomeIsMerge ==
  ASSUME MergeInv
  PROVE  /\ outcome.done \in {0, 1, 2}
         /\ outcome.done = 1 =>
               /\ Inputs
               /\ outcome.merged = Merge3(ancestor, ours, theirs, Merger, PassStamp).merged
               /\ outcome.conflicts = Merge3(ancestor, ours, theirs, Merger, PassStamp).conflicts
         /\ outcome.done = 2 => outcome.merged = ours /\ outcome.conflicts = {}
  <1>1. CASE outcome = NotYet
    BY <1>1 DEF NotYet
  <1>2. CASE outcome = Merged(ancestor, ours, theirs, 1) /\ Inputs
    BY <1>2 DEF Merged
  <1>3. CASE outcome = Merged(theirs, ours, theirs, 2) /\ IsManifest(ours, Entry)
    <2>1. Merge3(theirs, ours, theirs, Merger, PassStamp) = [merged |-> ours, conflicts |-> {}]
      BY <1>3, MergeIsIdempotent
    <2>. QED  BY <1>3, <2>1 DEF Merged
  <1>. QED  BY <1>1, <1>2, <1>3 DEF MergeInv

\* The merge loses no edit: KeepsEveryEdit, for every base and every two trees.
THEOREM EveryEditIsKept == MergeSpec => []KeepsEveryEdit
  <1>1. ASSUME MergeInv PROVE KeepsEveryEdit
    <2>. SUFFICES ASSUME outcome.done = 1,
                         NEW p \in MergePaths(ancestor, ours, theirs),
                         NEW m \in {ours, theirs}, Changed(m, p)
                  PROVE  Preserved(p, m[p])
      BY DEF KeepsEveryEdit
    <2>. DEFINE out == Merge3(ancestor, ours, theirs, Merger, PassStamp)
    <2>1. /\ Inputs
          /\ outcome.merged = out.merged /\ outcome.conflicts = out.conflicts
      BY <1>1, OutcomeIsMerge
    <2>2. /\ IsManifest(ours, Entry) /\ IsManifest(theirs, Entry)
          /\ IsManifest(out.merged, Entry)
      BY <2>1, MergedIsManifest DEF Inputs, IsTree
    <2>3. p \in DOMAIN m /\ m[p] # At(ancestor, p)
      BY DEF Changed, At
    <2>4. \/ p \in DOMAIN out.merged /\ out.merged[p].data = m[p].data
          \/ \E c \in out.conflicts : c.path = p /\ c.entry = m[p]
      BY <2>2, <2>3, MergeKeepsEdits
    <2>. HIDE DEF out
    <2>5. p \in DOMAIN out.merged => At(out.merged, p) = out.merged[p] /\ out.merged[p] # Absent
      BY <2>2, AbsentAssumption DEF At, IsManifest
    <2>. QED  BY <2>1, <2>4, <2>5 DEF Preserved
  <1>. QED  BY <1>1, MergeInvariant, PTL

\* NameSpace::claim and is_git_internal: every copy has a name of its own that
\* no file and no directory of either side had, and is published exactly when
\* it is not a copy of a file under `.git`.
THEOREM EveryCopyIsNew == MergeSpec => []CopiesAreNew
  <1>1. ASSUME MergeInv PROVE CopiesAreNew
    <2>. SUFFICES ASSUME outcome.done > 0, NEW c \in outcome.conflicts
                  PROVE  /\ \A p \in DOMAIN ours \cup DOMAIN theirs :
                               c.copy # p /\ c.copy \notin Ancestors(p)
                         /\ \A k \in outcome.conflicts : k.copy = c.copy => k = c
                         /\ c.localOnly <=> c.copy \notin DOMAIN outcome.merged
      BY DEF CopiesAreNew
    <2>. DEFINE out == Merge3(ancestor, ours, theirs, Merger, PassStamp)
                all == Conflicts(ancestor, ours, theirs, Merger, PassStamp)
    <2>1. outcome.done = 1
      BY <1>1, OutcomeIsMerge
    <2>2. /\ Inputs
          /\ outcome.merged = out.merged /\ outcome.conflicts = out.conflicts
      BY <1>1, <2>1, OutcomeIsMerge
    <2>3. MergeFacts(ancestor, ours, theirs, out) /\ out.conflicts = all
      <3>1. IsTree(ours, Entry) /\ IsTree(theirs, Entry) /\ Entry \subseteq Entry
        BY <2>2 DEF Inputs
      <3>2. MergeFacts(ancestor, ours, theirs, out)
        BY <3>1, MergedAt
      <3>. QED  BY <3>2 DEF Merge3
    <2>4. \A k \in all : k.copy \notin Taken(ours, theirs)
      BY <2>2, ConflictFacts DEF Inputs
    <2>5. \A k \in all : k.copy = c.copy => k = c
      BY <2>2, <2>3, CopiesAreDistinct DEF Inputs
    <2>6. c \in all
      BY <2>2, <2>3
    <2>. HIDE DEF out, all
    <2>8. \A p \in DOMAIN ours \cup DOMAIN theirs : c.copy # p /\ c.copy \notin Ancestors(p)
      BY <2>4, <2>6 DEF Taken
    <2>9. c.localOnly <=> c.copy \notin DOMAIN outcome.merged
      <3>1. CASE ~c.localOnly
        BY <2>2, <2>3, <2>6, <3>1 DEF MergeFacts
      <3>2. CASE c.localOnly
        <4>1. c.copy \notin DOMAIN ours \cup DOMAIN theirs
          BY <2>8
        <4>2. \A k \in out.conflicts : k.copy = c.copy => k.localOnly
          BY <2>3, <2>5, <3>2 DEF MergeFacts
        <4>3. c.copy \notin DOMAIN out.merged
          BY <2>3, <4>1, <4>2 DEF MergeFacts
        <4>. QED  BY <2>2, <3>2, <4>3
      <3>. QED  BY <3>1, <3>2
    <2>. QED  BY <2>2, <2>3, <2>5, <2>8, <2>9
  <1>. QED  BY <1>1, MergeInvariant, PTL

\* A pass that failed before its push and runs again changes nothing.
THEOREM RetryChangesNothing == MergeSpec => []RetryIsStable
  <1>1. ASSUME MergeInv PROVE RetryIsStable
    BY <1>1, OutcomeIsMerge DEF RetryIsStable
  <1>. QED  BY <1>1, MergeInvariant, PTL

\* Two devices that merge the same pair of trees from either side publish the
\* same entry under every name that is not a tie.
THEOREM EitherOrderAgrees == MergeSpec => []OrderDoesNotMatter
  <1>1. ASSUME MergeInv PROVE OrderDoesNotMatter
    <2>. DEFINE out == Merge3(ancestor, ours, theirs, Merger, PassStamp)
                other == Merge3(ancestor, theirs, ours, Merger, PassStamp)
    <2>. SUFFICES ASSUME outcome.done = 1, NEW p \in DOMAIN ours \cup DOMAIN theirs
                  PROVE  \/ At(outcome.merged, p) = At(other.merged, p)
                         \/ /\ At(ours, p) # Absent /\ At(theirs, p) # Absent
                            /\ ours[p].mtime = theirs[p].mtime
                            /\ outcome.merged[p] = theirs[p]
      BY DEF OrderDoesNotMatter
    <2>. DEFINE b == At(ancestor, p)  l == At(ours, p)  r == At(theirs, p)
    <2>1. Inputs /\ outcome.merged = out.merged
      BY <1>1, OutcomeIsMerge
    <2>2. At(out.merged, p) = Verdict(ancestor, ours, theirs, p).win
      <3>1. IsTree(ours, Entry) /\ IsTree(theirs, Entry) /\ Entry \subseteq Entry
        BY <2>1 DEF Inputs
      <3>2. MergeFacts(ancestor, ours, theirs, out)
        BY <3>1, MergedAt
      <3>. QED  BY <3>2 DEF MergeFacts
    <2>3. At(other.merged, p) = Verdict(ancestor, theirs, ours, p).win
      <3>1. IsTree(ours, Entry) /\ IsTree(theirs, Entry) /\ Entry \subseteq Entry
        BY <2>1 DEF Inputs
      <3>2. MergeFacts(ancestor, theirs, ours, other)
        BY <3>1, MergedAt
      <3>. QED  BY <3>2 DEF MergeFacts
    <2>4. /\ l # Absent => l \in Entry /\ l = ours[p]
          /\ r # Absent => r \in Entry /\ r = theirs[p]
      BY <2>1, AtIsEntry DEF Inputs, IsTree
    <2>5. /\ Verdict(ancestor, ours, theirs, p) = Decide(b, l, r)
          /\ Verdict(ancestor, theirs, ours, p) = Decide(b, r, l)
      BY DEF Verdict
    <2>6. At(out.merged, p) # Absent => At(out.merged, p) = out.merged[p]
      BY DEF At
    <2>. HIDE DEF out, other, b, l, r
    <2>7. \/ Decide(b, l, r).win = Decide(b, r, l).win
          \/ /\ l # Absent /\ r # Absent /\ l.mtime = r.mtime
             /\ Decide(b, l, r).win = r
      BY <2>4, DecideIsSymmetric
    <2>8. CASE Decide(b, l, r).win = Decide(b, r, l).win
      BY <2>1, <2>2, <2>3, <2>5, <2>8
    <2>9. CASE l # Absent /\ r # Absent /\ l.mtime = r.mtime /\ Decide(b, l, r).win = r
      <3>1. outcome.merged[p] = theirs[p]
        BY <2>1, <2>2, <2>4, <2>5, <2>6, <2>9
      <3>. QED  BY <2>4, <2>9, <3>1 DEF l, r
    <2>. QED  BY <2>7, <2>8, <2>9
  <1>. QED  BY <1>1, MergeInvariant, PTL
=============================================================================
