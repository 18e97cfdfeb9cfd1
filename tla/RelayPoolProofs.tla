-------------------------- MODULE RelayPoolProofs --------------------------
(***************************************************************************)
(* The database of the relay never refers to a chunk that the pool lost:   *)
(* proofs about module RelayPool for any number of chunks, workspaces and  *)
(* writers and any retention.                                              *)
(*                                                                         *)
(* RowsAreWhole is not inductive: a row is committed some steps after its  *)
(* chunks were checked.  The argument is that the mutex, which the sweep   *)
(* also needs, is held from the check to the commit, so that the chunks of *)
(* a committing push stay in the pool (Checked).                           *)
(***************************************************************************)
EXTENDS RelayPool, TLAPS, SequenceTheorems

Checked ==
    \A u \in Writer : push[u].stage = "committing" => push[u].want \subseteq blobs

PoolInv == PoolTypeOK /\ Checked /\ RowsAreWhole

\* insert_head: retention only drops rows, and keeps at most HeadKeep.
LEMMA RetainKeeps ==
    ASSUME NEW S, NEW s \in Seq(S)
    PROVE  /\ Retain(s) \in Seq(S)
           /\ Len(Retain(s)) <= HeadKeep
           /\ \A i \in DOMAIN Retain(s) : \E j \in DOMAIN s : Retain(s)[i] = s[j]
<1> DEFINE m == IF Len(s) > HeadKeep THEN Len(s) - HeadKeep + 1 ELSE 1
<1>1. Len(s) \in Nat /\ HeadKeep \in Nat \ {0} /\ DOMAIN s = 1 .. Len(s)
  BY LenProperties, PoolAssumption
<1>2. m \in 1 .. Len(s) + 1 /\ m \in Nat \ {0} /\ Len(s) - m + 1 <= HeadKeep
  BY <1>1
<1>3. \A i \in m .. Len(s) : s[i] \in S
  BY <1>1, <1>2, ElementOfSeq
<1>4. /\ SubSeq(s, m, Len(s)) \in Seq(S)
      /\ Len(SubSeq(s, m, Len(s))) = IF m <= Len(s) THEN Len(s) - m + 1 ELSE 0
      /\ \A i \in 1 .. Len(s) - m + 1 : SubSeq(s, m, Len(s))[i] = s[m + i - 1]
  BY <1>1, <1>2, <1>3, SubSeqProperties
<1>5. DOMAIN SubSeq(s, m, Len(s)) = 1 .. Len(SubSeq(s, m, Len(s)))
  BY <1>4, LenProperties
<1> DEFINE t == SubSeq(s, m, Len(s))
<1>6. Retain(s) = t
  BY DEF Retain
<1>7. t \in Seq(S) /\ Len(t) = (IF m <= Len(s) THEN Len(s) - m + 1 ELSE 0)
  BY <1>4
<1>8. \A i \in 1 .. Len(s) - m + 1 : t[i] = s[m + i - 1]
  BY <1>4
<1>9. DOMAIN t = 1 .. Len(t)
  BY <1>5
<1> HIDE DEF m, t
<1>10. Len(t) <= HeadKeep
  BY <1>1, <1>2, <1>7
<1>11. ASSUME NEW i \in DOMAIN t PROVE \E j \in DOMAIN s : t[i] = s[j]
  <2>1. i \in 1 .. Len(s) - m + 1 /\ m + i - 1 \in 1 .. Len(s)
    BY <1>1, <1>2, <1>7, <1>9
  <2> QED
    BY <2>1, <1>1, <1>8
<1> QED
  BY <1>6, <1>7, <1>10, <1>11

\* What all actions that leave the pool's files, the database and the
\* committing pushes alone have in common.
LEMMA PushStep ==
    ASSUME PoolInv, NEW u \in Writer, NEW x \in Push,
           push' = [push EXCEPT ![u] = x],
           x.stage = "committing" =>
               push[u].stage = "committing" /\ x.want = push[u].want,
           UNCHANGED <<rows, snaps, seq>>,
           blobs \subseteq blobs', blobs' \subseteq Chunk,
           refs \subseteq refs', refs' \subseteq Workspace \X Chunk,
           synced' \subseteq blobs', aged' \subseteq blobs',
           queue' \subseteq Chunk, draining' \subseteq Chunk
    PROVE  PoolInv'
<1>1. PoolTypeOK'
  BY DEF PoolInv, PoolTypeOK
<1>2. \A v \in Writer : push'[v] = IF v = u THEN x ELSE push[v]
  BY DEF PoolInv, PoolTypeOK
<1>3. Checked'
  BY <1>2 DEF PoolInv, Checked
<1>4. \A w \in Workspace : Retained(w)' = Retained(w)
  BY DEF Retained
<1>5. RowsAreWhole'
  BY <1>4 DEF PoolInv, RowsAreWhole
<1> QED
  BY <1>1, <1>3, <1>5 DEF PoolInv

\* The relay starts with whole rows.
LEMMA PoolInit == Init => PoolInv
<1> SUFFICES ASSUME Init PROVE PoolInv
  OBVIOUS
<1>1. NoPush \in Push
  BY DEF NoPush, Push, Stage
<1>2. PoolTypeOK
  <2>1. refs \subseteq Workspace \X Chunk /\ blobs \subseteq Chunk
    BY DEF Init
  <2>2. \A w \in Workspace : rows[w] \in Seq(SUBSET Chunk) /\ Len(rows[w]) <= HeadKeep
    BY EmptySeq, PoolAssumption DEF Init
  <2> QED
    BY <1>1, <2>1, <2>2, PoolAssumption DEF Init, PoolTypeOK
<1>3. Checked
  BY DEF Init, Checked, NoPush
<1>4. RowsAreWhole
  <2> SUFFICES ASSUME NEW w \in Workspace, NEW m \in Retained(w), NEW c \in m
               PROVE  c \in blobs /\ <<w, c>> \in refs
    BY DEF RowsAreWhole
  <2>1. m \in snaps[w]
    BY DEF Retained, Init
  <2>2. PICK d \in Chunk : m = {d}
    BY <2>1 DEF Init
  <2>3. c \in Chunk /\ m = {c}
    BY <2>2
  <2>4. <<w, c>> \in Workspace \X Chunk /\ <<w, c>>[1] = w /\ <<w, c>>[2] = c
    BY <2>3
  <2> QED
    BY <2>1, <2>3, <2>4 DEF Init
<1> QED
  BY <1>2, <1>3, <1>4 DEF PoolInv

\* The steps of a push up to its commit.
LEMMA UploadStep ==
    ASSUME PoolInv, NEW u \in Writer, StartPush(u) \/ Upload(u)
    PROVE  PoolInv'
<1>1. push[u] \in Push /\ seq[Home[u]] \in Nat /\ Home[u] \in Workspace
  BY PoolAssumption DEF PoolInv, PoolTypeOK
<1>2. /\ blobs \subseteq Chunk /\ synced \subseteq blobs /\ aged \subseteq blobs
      /\ queue \subseteq Chunk /\ draining \subseteq Chunk
      /\ refs \subseteq Workspace \X Chunk
  BY DEF PoolInv, PoolTypeOK
<1>3. CASE StartPush(u)
  <2>1. PICK want \in SUBSET Chunk, kind \in {"head", "snapshot"} :
           push' = [push EXCEPT ![u] =
                      [NoPush EXCEPT !.stage = "checking", !.want = want,
                                     !.kind = kind, !.base = seq[Home[u]]]]
    BY <1>3 DEF StartPush
  <2> DEFINE x == [NoPush EXCEPT !.stage = "checking", !.want = want,
                                 !.kind = kind, !.base = seq[Home[u]]]
  <2>2. x \in Push /\ x.stage = "checking"
    BY <1>1 DEF NoPush, Push, Stage
  <2> HIDE DEF x
  <2> QED
    BY <1>2, <1>3, <2>1, <2>2, PushStep DEF StartPush, poolVars, dbVars, x
<1>4. CASE LookUp(u)
  <2> DEFINE x == [push[u] EXCEPT !.stage = "looking", !.todo = Unseen(u)]
  <2>1. x \in Push /\ x.stage = "looking"
    BY <1>1 DEF Push, Stage, Unseen
  <2>2. push' = [push EXCEPT ![u] = x]
    BY <1>4 DEF LookUp
  <2> HIDE DEF x
  <2> QED
    BY <1>2, <1>4, <2>1, <2>2, PushStep DEF LookUp, poolVars, dbVars
<1>9. CASE Answer(u)
  <2> DEFINE x == [push[u] EXCEPT !.stage = "uploading",
                       !.todo = push[u].todo \cup (push[u].want \ blobs),
                       !.swept = push[u].swept
                                   \ (push[u].todo \cup (push[u].want \ blobs))]
  <2>1. x \in Push /\ x.stage = "uploading"
    BY <1>1 DEF Push, Stage
  <2>2. push' = [push EXCEPT ![u] = x]
    BY <1>9 DEF Answer
  <2> HIDE DEF x
  <2> QED
    BY <1>2, <1>9, <2>1, <2>2, PushStep DEF Answer, poolVars, dbVars
<1>5. CASE PutPresent(u)
  <2>1. PICK c \in push[u].todo :
           push' = [push EXCEPT ![u] =
                      [push[u] EXCEPT !.todo = push[u].todo \ {c},
                                      !.stored = push[u].stored \cup {c}]]
    BY <1>5 DEF PutPresent
  <2> DEFINE x == [push[u] EXCEPT !.todo = push[u].todo \ {c},
                                      !.stored = push[u].stored \cup {c}]
  <2>2. x \in Push /\ x.stage = push[u].stage /\ x.want = push[u].want
    BY <1>1 DEF Push, Stage
  <2> HIDE DEF x
  <2> QED
    BY <1>2, <1>5, <2>1, <2>2, PushStep DEF PutPresent, poolVars, dbVars, x
<1>6. CASE PutNew(u)
  <2>1. PICK c \in push[u].todo :
           /\ blobs' = blobs \cup {c}
           /\ push' = [push EXCEPT ![u] =
                         [push[u] EXCEPT !.stage = "queueing", !.chunk = {c}]]
    BY <1>6 DEF PutNew
  <2> DEFINE x == [push[u] EXCEPT !.stage = "queueing", !.chunk = {c}]
  <2>2. x \in Push /\ x.stage = "queueing" /\ c \in Chunk
    BY <1>1 DEF Push, Stage
  <2> HIDE DEF x
  <2> QED
    BY <1>2, <1>6, <2>1, <2>2, PushStep DEF PutNew, dbVars, x
<1>7. CASE Enqueue(u)
  <2> DEFINE x == [push[u] EXCEPT !.stage = "uploading", !.chunk = {},
                                  !.todo = push[u].todo \ push[u].chunk,
                                  !.stored = push[u].stored \cup push[u].chunk]
  <2>1. x \in Push /\ x.stage = "uploading" /\ push[u].chunk \subseteq Chunk
    BY <1>1 DEF Push, Stage
  <2>2. push' = [push EXCEPT ![u] = x]
    BY <1>7 DEF Enqueue
  <2> HIDE DEF x
  <2> QED
    BY <1>2, <1>7, <2>1, <2>2, PushStep DEF Enqueue, dbVars
<1>8. CASE RecordRefs(u)
  <2> DEFINE x == [push[u] EXCEPT !.stored = {},
                       !.stage =
                         IF push[u].todo = {} THEN "ready" ELSE "uploading"]
  <2>1. x \in Push /\ x.stage \in {"ready", "uploading"}
        /\ push[u].stored \subseteq Chunk
    BY <1>1, <1>8 DEF RecordRefs, Push, Stage
  <2>2. push' = [push EXCEPT ![u] = x]
    BY <1>8 DEF RecordRefs
  <2>3. refs \subseteq refs' /\ refs' \subseteq Workspace \X Chunk
    BY <1>1, <1>2, <1>8, <2>1 DEF RecordRefs
  <2> HIDE DEF x
  <2> QED
    BY <1>2, <1>8, <2>1, <2>2, <2>3, PushStep DEF RecordRefs, poolVars
<1> QED
  BY <1>3, <1>4, <1>5, <1>6, <1>7, <1>8, <1>9 DEF Upload

\* The answers of a commit that change no row.
LEMMA RefusalStep ==
    ASSUME PoolInv, NEW u \in Writer, Reject(u) \/ Conflict(u) \/ CommitFails(u)
    PROVE  PoolInv'
<1>1. push[u] \in Push
  BY DEF PoolInv, PoolTypeOK
<1>2. /\ blobs \subseteq Chunk /\ synced \subseteq blobs /\ aged \subseteq blobs
      /\ queue \subseteq Chunk /\ draining \subseteq Chunk
      /\ refs \subseteq Workspace \X Chunk
  BY DEF PoolInv, PoolTypeOK
<1>3. NoPush \in Push /\ NoPush.stage = "idle"
  BY DEF NoPush, Push, Stage
<1>4. CASE Reject(u)
  <2> DEFINE x == [push[u] EXCEPT !.stage = "rejected"]
  <2>1. x \in Push /\ x.stage = "rejected"
    BY <1>1 DEF Push, Stage
  <2>2. push' = [push EXCEPT ![u] = x]
    BY <1>4 DEF Reject
  <2> HIDE DEF x
  <2> QED
    BY <1>2, <1>4, <2>1, <2>2, PushStep DEF Reject, poolVars, dbVars
<1>5. CASE Conflict(u)
  BY <1>2, <1>3, <1>5, PushStep DEF Conflict, poolVars, dbVars
<1>6. CASE CommitFails(u)
  <2>1. push[u].batch \subseteq Chunk
    BY <1>1 DEF Push
  <2> QED
    BY <1>2, <1>3, <1>6, <2>1, PushStep DEF CommitFails, dbVars
<1> QED
  BY <1>4, <1>5, <1>6

\* put_head takes the mutex: the chunks it has just checked are in the pool.
LEMMA StartCommitStep ==
    ASSUME PoolInv, NEW u \in Writer, StartCommit(u)
    PROVE  PoolInv'
<1> DEFINE x == [push[u] EXCEPT !.stage = "committing", !.batch = queue]
<1>0. push[u] \in Push /\ queue \subseteq Chunk
  BY DEF PoolInv, PoolTypeOK
<1>1. x \in Push /\ x.stage = "committing" /\ x.want = push[u].want
  BY <1>0 DEF Push, Stage
<1>2. push' = [push EXCEPT ![u] = x] /\ push \in [Writer -> Push]
  BY DEF StartCommit, PoolInv, PoolTypeOK
<1> HIDE DEF x
<1>3. \A v \in Writer : push'[v] = IF v = u THEN x ELSE push[v]
  BY <1>2
<1>4. PoolTypeOK'
  BY <1>1, <1>2 DEF StartCommit, dbVars, PoolInv, PoolTypeOK
<1>6. Checked'
  BY <1>1, <1>3 DEF StartCommit, Accepts, PoolInv, Checked
<1>7. RowsAreWhole'
  BY DEF StartCommit, dbVars, PoolInv, RowsAreWhole, Retained
<1> QED
  BY <1>4, <1>6, <1>7 DEF PoolInv

\* insert_head and insert_snapshot: the row enters with its references.
LEMMA CommitStep ==
    ASSUME PoolInv, NEW u \in Writer, CommitHead(u) \/ CommitSnapshot(u)
    PROVE  PoolInv'
<1> DEFINE w == Home[u]
           m == push[u].want
<1>1. w \in Workspace /\ m \in SUBSET Chunk /\ push[u] \in Push
  BY PoolAssumption DEF PoolInv, PoolTypeOK, Push
<1>2. NoPush \in Push /\ NoPush.stage = "idle"
  BY DEF NoPush, Push, Stage
<1>3. push' = [push EXCEPT ![u] = NoPush] /\ push \in [Writer -> Push]
  BY DEF CommitHead, CommitSnapshot, PoolInv, PoolTypeOK
<1>4. Checked'
  <2>1. \A v \in Writer : push'[v] = IF v = u THEN NoPush ELSE push[v]
    BY <1>3
  <2>2. blobs' = blobs
    BY DEF CommitHead, CommitSnapshot
  <2> QED
    BY <1>2, <2>1, <2>2 DEF PoolInv, Checked
<1>5. m \subseteq blobs
  BY DEF CommitHead, CommitSnapshot, PoolInv, Checked
<1>6. refs' = refs \cup {<<w, c>> : c \in m} /\ blobs' = blobs /\ aged' = aged
      /\ queue' = queue /\ draining' = draining
      /\ synced' = synced \cup (push[u].batch \cap blobs)
  BY DEF CommitHead, CommitSnapshot, NewRefs
<1>7. /\ rows' \in [Workspace -> Seq(SUBSET Chunk)]
      /\ \A v \in Workspace : Len(rows'[v]) <= HeadKeep
      /\ snaps' \in [Workspace -> SUBSET SUBSET Chunk]
      /\ seq' \in [Workspace -> Nat]
      /\ \A v \in Workspace : Retained(v)' \subseteq
             Retained(v) \cup (IF v = w THEN {m} ELSE {})
  <2>1. CASE CommitHead(u)
    <3> DEFINE a == Append(rows[w], m)
    <3>1. rows[w] \in Seq(SUBSET Chunk)
      BY <1>1 DEF PoolInv, PoolTypeOK
    <3>2. a \in Seq(SUBSET Chunk) /\ Len(a) = Len(rows[w]) + 1
          /\ \A i \in 1 .. Len(a) :
                 a[i] = IF i <= Len(rows[w]) THEN rows[w][i] ELSE m
      BY <1>1, <3>1, AppendProperties
    <3>3. DOMAIN a = 1 .. Len(a) /\ DOMAIN rows[w] = 1 .. Len(rows[w])
          /\ Len(rows[w]) \in Nat
      BY <3>1, <3>2, LenProperties
    <3> HIDE DEF a
    <3>4. \A i \in DOMAIN a :
             a[i] \in {rows[w][j] : j \in DOMAIN rows[w]} \cup {m}
      BY <3>2, <3>3
    <3>5. rows' = [rows EXCEPT ![w] = Retain(a)] /\ snaps' = snaps
      BY <2>1 DEF CommitHead, a
    <3>6. /\ Retain(a) \in Seq(SUBSET Chunk) /\ Len(Retain(a)) <= HeadKeep
          /\ \A i \in DOMAIN Retain(a) : \E j \in DOMAIN a : Retain(a)[i] = a[j]
      BY <3>2, RetainKeeps
    <3>7. seq' \in [Workspace -> Nat]
      BY <2>1, <1>1 DEF CommitHead, PoolInv, PoolTypeOK
    <3>8. rows' \in [Workspace -> Seq(SUBSET Chunk)]
          /\ \A v \in Workspace : Len(rows'[v]) <= HeadKeep
      BY <1>1, <3>5, <3>6 DEF PoolInv, PoolTypeOK
    <3>9. ASSUME NEW v \in Workspace
          PROVE  Retained(v)' \subseteq Retained(v) \cup (IF v = w THEN {m} ELSE {})
      <4>1. CASE v # w
        <5>1. rows'[v] = rows[v]
          BY <1>1, <3>5, <4>1 DEF PoolInv, PoolTypeOK
        <5> QED
          BY <3>5, <5>1 DEF Retained
      <4>2. CASE v = w
        <5>1. rows'[v] = Retain(a)
          BY <1>1, <3>5, <4>2 DEF PoolInv, PoolTypeOK
        <5>2. \A i \in DOMAIN Retain(a) :
                 Retain(a)[i] \in {rows[w][j] : j \in DOMAIN rows[w]} \cup {m}
          BY <3>4, <3>6
        <5> QED
          BY <3>5, <4>2, <5>1, <5>2 DEF Retained
      <4> QED
        BY <4>1, <4>2
    <3> QED
      BY <3>5, <3>7, <3>8, <3>9 DEF PoolInv, PoolTypeOK
  <2>2. CASE CommitSnapshot(u)
    <3>1. snaps' = [snaps EXCEPT ![w] = @ \cup {m}] /\ rows' = rows /\ seq' = seq
      BY <2>2 DEF CommitSnapshot
    <3>2. \A v \in Workspace :
             snaps'[v] = IF v = w THEN snaps[v] \cup {m} ELSE snaps[v]
      BY <1>1, <3>1 DEF PoolInv, PoolTypeOK
    <3>3. snaps' \in [Workspace -> SUBSET SUBSET Chunk]
      BY <1>1, <3>1 DEF PoolInv, PoolTypeOK
    <3>4. \A v \in Workspace : Retained(v)' \subseteq
             Retained(v) \cup (IF v = w THEN {m} ELSE {})
      BY <3>1, <3>2 DEF Retained
    <3> QED
      BY <3>1, <3>3, <3>4 DEF PoolInv, PoolTypeOK
  <2> QED
    BY <2>1, <2>2
<1>8. PoolTypeOK'
  <2>1. refs' \subseteq Workspace \X Chunk
    BY <1>1, <1>6 DEF PoolInv, PoolTypeOK
  <2> QED
    BY <1>2, <1>3, <1>6, <1>7, <2>1 DEF PoolInv, PoolTypeOK
<1>9. RowsAreWhole'
  <2> SUFFICES ASSUME NEW v \in Workspace, NEW n \in Retained(v)', NEW c \in n
               PROVE  c \in blobs' /\ <<v, c>> \in refs'
    BY DEF RowsAreWhole
  <2>1. CASE n \in Retained(v)
    BY <1>6, <2>1 DEF PoolInv, RowsAreWhole
  <2>2. CASE v = w /\ n = m
    BY <1>5, <1>6, <2>2
  <2> QED
    BY <1>7, <2>1, <2>2
<1> QED
  BY <1>4, <1>8, <1>9 DEF PoolInv

\* Flushes and the passage of time move no chunk out of the pool.
LEMMA FlushStep ==
    ASSUME PoolInv, Drain \/ Fsync \/ \E c \in Chunk : Age(c)
    PROVE  PoolInv'
<1>1. /\ UNCHANGED <<blobs, refs, rows, snaps, seq, push>>
      /\ synced' \subseteq blobs /\ aged' \subseteq blobs
      /\ queue' \subseteq Chunk /\ draining' \subseteq Chunk
  BY DEF Drain, Fsync, Age, dbVars, PoolInv, PoolTypeOK
<1>2. PoolTypeOK'
  BY <1>1 DEF PoolInv, PoolTypeOK
<1>3. Checked'
  BY <1>1 DEF PoolInv, Checked
<1>4. RowsAreWhole'
  BY <1>1 DEF PoolInv, RowsAreWhole, Retained
<1> QED
  BY <1>2, <1>3, <1>4 DEF PoolInv

\* A restart of the relay loses the flush queue and the pushes under way, and no
\* row, blob or reference.
LEMMA RestartStep ==
    ASSUME PoolInv, Restart
    PROVE  PoolInv'
<1>1. /\ UNCHANGED <<blobs, synced, aged, refs, rows, snaps, seq>>
      /\ queue' = {} /\ draining' = {} /\ push' = [u \in Writer |-> NoPush]
  BY DEF Restart, dbVars
<1>2. NoPush \in Push /\ NoPush.stage = "idle"
  BY DEF NoPush, Push, Stage
<1>3. PoolTypeOK'
  BY <1>1, <1>2 DEF PoolInv, PoolTypeOK
<1>4. Checked'
  BY <1>1, <1>2 DEF Checked
<1>5. RowsAreWhole'
  BY <1>1 DEF PoolInv, RowsAreWhole, Retained
<1> QED
  BY <1>3, <1>4, <1>5 DEF PoolInv

\* run_pool_gc: the rebuilt table holds every chunk of every retained row,
\* and the sweep deletes only what that table does not hold.
LEMMA CollectStep ==
    ASSUME PoolInv, Collect
    PROVE  PoolInv'
<1>1. /\ UNCHANGED <<queue, draining, rows, snaps, seq>>
      /\ refs' = Rebuilt /\ blobs' = blobs \ (aged \ Referenced(refs'))
      /\ synced' = synced \cap blobs' /\ aged' = aged \cap blobs'
  BY DEF Collect
<1>2. push' \in [Writer -> Push]
      /\ \A u \in Writer : push'[u].stage = push[u].stage
  <2> DEFINE x(u) == [push[u] EXCEPT !.swept = push[u].swept \cup Taken(u)]
  <2>1. ASSUME NEW u \in Writer PROVE x(u) \in Push /\ x(u).stage = push[u].stage
    <3>1. push[u] \in Push
      BY DEF PoolInv, PoolTypeOK
    <3>2. Taken(u) \subseteq Chunk
      BY <3>1 DEF Taken, Settled, Push
    <3> QED
      BY <3>1, <3>2 DEF Push
  <2>2. push' = [u \in Writer |-> x(u)]
    BY DEF Collect
  <2> HIDE DEF x
  <2> QED
    BY <2>1, <2>2
<1>3. PoolTypeOK'
  <2>1. refs' \subseteq Workspace \X Chunk
    BY <1>1 DEF Rebuilt
  <2> QED
    BY <1>1, <1>2, <2>1 DEF PoolInv, PoolTypeOK
<1>4. Checked'
  BY <1>2 DEF Collect, MutexFree, Checked
<1>5. RowsAreWhole'
  <2> SUFFICES ASSUME NEW w \in Workspace, NEW m \in Retained(w)', NEW c \in m
               PROVE  c \in blobs' /\ <<w, c>> \in refs'
    BY DEF RowsAreWhole
  <2>1. m \in Retained(w)
    BY <1>1 DEF Retained
  <2>2. c \in blobs /\ <<w, c>> \in refs /\ c \in Chunk
    BY <2>1 DEF PoolInv, RowsAreWhole, PoolTypeOK
  <2>3. c \in LiveSet(w)
    BY <2>1, <2>2 DEF LiveSet, Justified, Retained
  <2>4. <<w, c>> \in Rebuilt
    BY <2>2, <2>3 DEF Rebuilt
  <2>5. c \in Referenced(refs')
    BY <1>1, <2>2, <2>4 DEF Referenced
  <2> QED
    BY <1>1, <2>2, <2>4, <2>5
<1> QED
  BY <1>3, <1>4, <1>5 DEF PoolInv

\* No step of any push, flush, sweep or restart breaks the invariant.
LEMMA PoolStep == PoolInv /\ [Next]_vars => PoolInv'
<1> SUFFICES ASSUME PoolInv, [Next]_vars PROVE PoolInv'
  OBVIOUS
<1>1. ASSUME NEW u \in Writer, StartPush(u) \/ Upload(u) \/ Commit(u) PROVE PoolInv'
  BY <1>1, UploadStep, RefusalStep, StartCommitStep, CommitStep DEF Commit
<1>2. CASE Drain \/ Fsync \/ \E c \in Chunk : Age(c)
  BY <1>2, FlushStep
<1>3. CASE Collect \/ Restart
  BY <1>3, CollectStep, RestartStep
<1>4. CASE UNCHANGED vars
  <2>1. UNCHANGED <<blobs, synced, aged, queue, draining, refs, rows, seq, snaps, push>>
    BY <1>4 DEF vars, poolVars, dbVars
  <2>2. PoolTypeOK'
    BY <2>1 DEF PoolInv, PoolTypeOK
  <2>3. Checked'
    BY <2>1 DEF PoolInv, Checked
  <2>4. RowsAreWhole'
    BY <2>1 DEF PoolInv, RowsAreWhole, Retained
  <2> QED
    BY <2>2, <2>3, <2>4 DEF PoolInv
<1> QED
  BY <1>1, <1>2, <1>3, <1>4 DEF Next

\* run_pool_gc, put_head and create_snapshot: whatever uploads, commits,
\* sweeps, failed flushes and restarts interleave, every chunk that a
\* retained head or snapshot refers to is in the pool and visible to the
\* readers of its workspace.
THEOREM RowsStayWhole == Spec => []RowsAreWhole
<1>1. PoolInv => RowsAreWhole
  BY DEF PoolInv
<1> QED
  BY PoolInit, PoolStep, <1>1, PTL DEF Spec

\* The types of the pool, with at most HeadKeep rows per workspace.
THEOREM PoolTypeCorrect == Spec => []PoolTypeOK
<1>1. PoolInv => PoolTypeOK
  BY DEF PoolInv
<1> QED
  BY PoolInit, PoolStep, <1>1, PTL DEF Spec
(***************************************************************************)
(* What a push was told is there is still there, unless a sweep took it.   *)
(*                                                                         *)
(* A push is refused for a chunk that chunks_missing did not name.  So the *)
(* induction follows, chunk by chunk, what a push no longer means to       *)
(* upload and no sweep took from it: it is visible once looked up, present *)
(* once answered, and both from then on, through the reference that is     *)
(* written after the file.                                                 *)
(***************************************************************************)

Present(u, c) == c \in blobs /\ (Visible(u, c) \/ c \in push[u].stored)

Kept(u) == Settled(u) \ push[u].swept

PushBacked(u) ==
    /\ push[u].stage = "looking" => \A c \in Kept(u) : Visible(u, c)
    /\ push[u].stage \in {"uploading", "queueing"} => \A c \in Kept(u) : Present(u, c)
    /\ push[u].stage = "queueing" => push[u].chunk \subseteq blobs \cup push[u].swept
    /\ push[u].stage = "ready" =>
          /\ push[u].todo = {}
          /\ \A c \in Kept(u) : c \in blobs /\ Visible(u, c)
    /\ push[u].stage = "rejected" => push[u].swept # {}

Backed == \A u \in Writer : PushBacked(u)

\* The pool and the references only grow, and one push moves.
LEMMA BackedStep ==
    ASSUME PoolTypeOK, Backed, NEW u \in Writer, NEW x,
           push' = [push EXCEPT ![u] = x],
           blobs \subseteq blobs', refs \subseteq refs',
           PushBacked(u)'
    PROVE  Backed'
<1>1. \A v \in Writer : push'[v] = IF v = u THEN x ELSE push[v]
  BY DEF PoolTypeOK
<1>2. \A v, c : Visible(v, c) => Visible(v, c)'
  BY DEF Visible
<1>3. ASSUME NEW v \in Writer, v # u, PushBacked(v) PROVE PushBacked(v)'
  BY <1>1, <1>2, <1>3 DEF PushBacked, Present, Kept, Settled
<1> QED
  BY <1>1, <1>3 DEF Backed

\* A push from its look-up to its last reference.
LEMMA BackedUpload ==
    ASSUME PoolTypeOK, Backed, NEW u \in Writer, Upload(u)
    PROVE  Backed'
<1>1. push[u] \in Push /\ push \in [Writer -> Push] /\ Home[u] \in Reads[u]
  BY PoolAssumption DEF PoolTypeOK
<1>2. \A c : Visible(u, c) => (refs \subseteq refs' => Visible(u, c)')
  BY DEF Visible
<1>3. CASE LookUp(u)
  <2> DEFINE x == [push[u] EXCEPT !.stage = "looking", !.todo = Unseen(u)]
  <2>1. /\ push' = [push EXCEPT ![u] = x] /\ UNCHANGED <<blobs, refs>>
        /\ x.stage = "looking" /\ x.want = push[u].want /\ x.todo = Unseen(u)
    BY <1>1, <1>3 DEF LookUp, poolVars, dbVars, Push
  <2> HIDE DEF x
  <2>2. push'[u] = x
    BY <1>1, <2>1
  <2>3. PushBacked(u)'
    BY <1>2, <2>1, <2>2 DEF PushBacked, Kept, Settled, Unseen
  <2> QED
    BY <2>1, <2>3, BackedStep
<1>4. CASE Answer(u)
  <2> DEFINE x == [push[u] EXCEPT !.stage = "uploading",
                       !.todo = push[u].todo \cup (push[u].want \ blobs),
                       !.swept = push[u].swept
                                   \ (push[u].todo \cup (push[u].want \ blobs))]
  <2>1. /\ push' = [push EXCEPT ![u] = x] /\ UNCHANGED <<blobs, refs>>
        /\ x.stage = "uploading" /\ x.want = push[u].want
        /\ x.todo = push[u].todo \cup (push[u].want \ blobs)
        /\ x.swept = push[u].swept \ x.todo /\ push[u].stage = "looking"
    BY <1>1, <1>4 DEF Answer, poolVars, dbVars, Push
  <2> HIDE DEF x
  <2>2. push'[u] = x
    BY <1>1, <2>1
  <2>3. ASSUME PushBacked(u) PROVE PushBacked(u)'
    BY <1>2, <2>1, <2>2, <2>3 DEF PushBacked, Kept, Settled, Present
  <2> QED
    BY <2>1, <2>3, BackedStep DEF Backed
<1>5. CASE PutPresent(u)
  <2>1. PICK c \in push[u].todo \cap blobs :
           push' = [push EXCEPT ![u] =
                      [push[u] EXCEPT !.todo = push[u].todo \ {c},
                                      !.stored = push[u].stored \cup {c}]]
    BY <1>5 DEF PutPresent
  <2> DEFINE x == [push[u] EXCEPT !.todo = push[u].todo \ {c},
                                  !.stored = push[u].stored \cup {c}]
  <2>2. /\ push' = [push EXCEPT ![u] = x] /\ UNCHANGED <<blobs, refs>>
        /\ push[u].stage = "uploading" /\ x.stage = "uploading"
        /\ x.want = push[u].want /\ x.todo = push[u].todo \ {c}
        /\ x.stored = push[u].stored \cup {c} /\ x.swept = push[u].swept
    BY <1>1, <1>5, <2>1 DEF PutPresent, poolVars, dbVars, Push
  <2> HIDE DEF x
  <2>3. push'[u] = x
    BY <1>1, <2>2
  <2>4. ASSUME PushBacked(u) PROVE PushBacked(u)'
    BY <1>2, <2>2, <2>3, <2>4 DEF PushBacked, Kept, Settled, Present
  <2> QED
    BY <2>2, <2>4, BackedStep DEF Backed
<1>6. CASE PutNew(u)
  <2>1. PICK c \in push[u].todo :
           /\ blobs' = blobs \cup {c}
           /\ push' = [push EXCEPT ![u] =
                         [push[u] EXCEPT !.stage = "queueing", !.chunk = {c}]]
    BY <1>6 DEF PutNew
  <2> DEFINE x == [push[u] EXCEPT !.stage = "queueing", !.chunk = {c}]
  <2>2. /\ push' = [push EXCEPT ![u] = x] /\ UNCHANGED refs
        /\ push[u].stage = "uploading" /\ x.stage = "queueing" /\ x.chunk = {c}
        /\ x.want = push[u].want /\ x.todo = push[u].todo
        /\ x.stored = push[u].stored /\ x.swept = push[u].swept
    BY <1>1, <1>6, <2>1 DEF PutNew, dbVars, Push
  <2> HIDE DEF x
  <2>3. push'[u] = x
    BY <1>1, <2>2
  <2>4. ASSUME PushBacked(u) PROVE PushBacked(u)'
    BY <1>2, <2>1, <2>2, <2>3, <2>4 DEF PushBacked, Kept, Settled, Present
  <2> QED
    BY <2>1, <2>2, <2>4, BackedStep DEF Backed
<1>7. CASE Enqueue(u)
  <2> DEFINE x == [push[u] EXCEPT !.stage = "uploading", !.chunk = {},
                                  !.todo = push[u].todo \ push[u].chunk,
                                  !.stored = push[u].stored \cup push[u].chunk]
  <2>1. /\ push' = [push EXCEPT ![u] = x] /\ UNCHANGED <<blobs, refs>>
        /\ push[u].stage = "queueing" /\ x.stage = "uploading"
        /\ x.want = push[u].want /\ x.todo = push[u].todo \ push[u].chunk
        /\ x.stored = push[u].stored \cup push[u].chunk
        /\ x.swept = push[u].swept
    BY <1>1, <1>7 DEF Enqueue, dbVars, Push
  <2> HIDE DEF x
  <2>2. push'[u] = x
    BY <1>1, <2>1
  <2>3. ASSUME PushBacked(u) PROVE PushBacked(u)'
    BY <1>2, <2>1, <2>2, <2>3 DEF PushBacked, Kept, Settled, Present
  <2> QED
    BY <2>1, <2>3, BackedStep DEF Backed
<1>8. CASE RecordRefs(u)
  <2> DEFINE x == [push[u] EXCEPT !.stored = {},
                       !.stage =
                         IF push[u].todo = {} THEN "ready" ELSE "uploading"]
  <2>1. /\ push' = [push EXCEPT ![u] = x] /\ UNCHANGED blobs
        /\ refs' = refs \cup {<<Home[u], c>> : c \in push[u].stored}
        /\ push[u].stage = "uploading"
        /\ x.stage = (IF push[u].todo = {} THEN "ready" ELSE "uploading")
        /\ x.want = push[u].want /\ x.todo = push[u].todo
        /\ x.stored = {} /\ x.swept = push[u].swept
    BY <1>1, <1>8 DEF RecordRefs, poolVars, Push
  <2> HIDE DEF x
  <2>2. push'[u] = x
    BY <1>1, <2>1
  <2>3. \A c : Visible(u, c) \/ c \in push[u].stored => Visible(u, c)'
    BY <1>1, <2>1 DEF Visible
  <2>4. ASSUME PushBacked(u) PROVE PushBacked(u)'
    BY <2>1, <2>2, <2>3, <2>4 DEF PushBacked, Kept, Settled, Present
  <2> QED
    BY <2>1, <2>4, BackedStep DEF Backed
<1> QED
  BY <1>3, <1>4, <1>5, <1>6, <1>7, <1>8 DEF Upload

\* No step makes a push miss a chunk that no sweep took from it.
LEMMA BackedNext == PoolTypeOK /\ Backed /\ [Next]_vars => Backed'
<1> SUFFICES ASSUME PoolTypeOK, Backed, [Next]_vars PROVE Backed'
  OBVIOUS
<1>1. push \in [Writer -> Push]
  BY DEF PoolTypeOK
<1>2. NoPush.stage = "idle"
  BY DEF NoPush
<1>3. ASSUME NEW u \in Writer, NEW x, push' = [push EXCEPT ![u] = x],
             UNCHANGED blobs, refs \subseteq refs',
             x.stage \in {"idle", "checking", "committing"}
      PROVE  Backed'
  <2>1. push'[u] = x
    BY <1>1, <1>3
  <2>2. PushBacked(u)'
    BY <1>3, <2>1 DEF PushBacked
  <2> QED
    BY <1>3, <2>2, BackedStep
<1>4. ASSUME NEW u \in Writer, StartPush(u) PROVE Backed'
  <2>1. PICK want \in SUBSET Chunk, kind \in {"head", "snapshot"} :
           push' = [push EXCEPT ![u] =
                      [NoPush EXCEPT !.stage = "checking", !.want = want,
                                     !.kind = kind, !.base = seq[Home[u]]]]
    BY <1>4 DEF StartPush
  <2> DEFINE x == [NoPush EXCEPT !.stage = "checking", !.want = want,
                                 !.kind = kind, !.base = seq[Home[u]]]
  <2>2. x.stage = "checking"
    BY DEF NoPush
  <2> HIDE DEF x
  <2> QED
    BY <1>3, <1>4, <2>1, <2>2 DEF StartPush, poolVars, dbVars, x
<1>5. ASSUME NEW u \in Writer, StartCommit(u) PROVE Backed'
  <2> DEFINE x == [push[u] EXCEPT !.stage = "committing", !.batch = queue]
  <2>1. push' = [push EXCEPT ![u] = x] /\ x.stage = "committing"
    BY <1>1, <1>5 DEF StartCommit, Push
  <2> HIDE DEF x
  <2> QED
    BY <1>3, <1>5, <2>1 DEF StartCommit, dbVars
<1>6. ASSUME NEW u \in Writer,
             Conflict(u) \/ CommitHead(u) \/ CommitSnapshot(u) \/ CommitFails(u)
      PROVE  Backed'
  BY <1>2, <1>3, <1>6
     DEF Conflict, CommitHead, CommitSnapshot, CommitFails, poolVars, dbVars
<1>7. ASSUME NEW u \in Writer, Reject(u) PROVE Backed'
  <2> DEFINE x == [push[u] EXCEPT !.stage = "rejected"]
  <2>1. push' = [push EXCEPT ![u] = x] /\ UNCHANGED <<blobs, refs>>
    BY <1>7 DEF Reject, poolVars, dbVars
  <2>2. /\ x.stage = "rejected" /\ x.swept = push[u].swept /\ push'[u] = x
        /\ push[u].stage = "ready" /\ ~Accepts(u)
    BY <1>1, <1>7, <2>1 DEF Reject, Push
  <2> HIDE DEF x
  <2>3. PushBacked(u)
    BY DEF Backed
  <2>4. x.swept # {}
    BY <2>2, <2>3 DEF PushBacked, Kept, Settled, Accepts
  <2>5. PushBacked(u)'
    BY <2>2, <2>4 DEF PushBacked
  <2> QED
    BY <2>1, <2>5, BackedStep
<1>8. CASE Collect
  <2> DEFINE x(u) == [push[u] EXCEPT !.swept = push[u].swept \cup Taken(u)]
  <2>1. push' = [u \in Writer |-> x(u)]
    BY <1>8 DEF Collect
  <2>2. ASSUME NEW u \in Writer
        PROVE  /\ x(u).stage = push[u].stage /\ x(u).want = push[u].want
               /\ x(u).todo = push[u].todo /\ x(u).chunk = push[u].chunk
               /\ x(u).stored = push[u].stored
               /\ x(u).swept = push[u].swept \cup Taken(u)
    <3>1. push[u] \in Push
      BY <1>1
    <3> QED
      BY <3>1 DEF Push
  <2> HIDE DEF x
  <2>3. ASSUME NEW u \in Writer, PushBacked(u) PROVE PushBacked(u)'
    <3>1. /\ push'[u].stage = push[u].stage /\ push'[u].want = push[u].want
          /\ push'[u].todo = push[u].todo /\ push'[u].chunk = push[u].chunk
          /\ push'[u].stored = push[u].stored
          /\ push'[u].swept = push[u].swept \cup Taken(u)
      BY <2>1, <2>2
    <3>2. /\ Settled(u)' = Settled(u)
          /\ \A c : c \in Kept(u)' <=> c \in Kept(u) /\ c \notin Taken(u)
      BY <3>1 DEF Settled, Kept
    <3>3. ASSUME push[u].stage # "checking", NEW c,
                 c \in Settled(u) \cup push[u].chunk, c \notin Taken(u)
          PROVE  (c \in blobs => c \in blobs') /\ (Visible(u, c) => Visible(u, c)')
      BY <3>3 DEF Taken
    <3>4. push[u].stage = "looking" => (\A c \in Kept(u) : Visible(u, c))'
      BY <2>3, <3>2, <3>3 DEF PushBacked, Kept
    <3>5. push[u].stage \in {"uploading", "queueing"} =>
             (\A c \in Kept(u) : Present(u, c))'
      BY <2>3, <3>1, <3>2, <3>3 DEF PushBacked, Kept, Present
    <3>6. push[u].stage = "queueing" =>
             (push[u].chunk \subseteq blobs \cup push[u].swept)'
      BY <2>3, <3>1, <3>3 DEF PushBacked
    <3>7. push[u].stage = "ready" =>
             (\A c \in Kept(u) : c \in blobs /\ Visible(u, c))'
      BY <2>3, <3>2, <3>3 DEF PushBacked, Kept
    <3> QED
      BY <2>3, <3>1, <3>4, <3>5, <3>6, <3>7 DEF PushBacked
  <2> QED
    BY <2>3 DEF Backed
<1>9. CASE Restart
  BY <1>2, <1>9 DEF Restart, Backed, PushBacked
<1>10. CASE Drain \/ Fsync \/ (\E c \in Chunk : Age(c)) \/ UNCHANGED vars
  <2>1. UNCHANGED <<blobs, refs, push>>
    BY <1>10 DEF Drain, Fsync, Age, dbVars, vars, poolVars
  <2> QED
    BY <2>1 DEF Backed, PushBacked, Present, Kept, Settled, Visible
<1> QED
  BY <1>4, <1>5, <1>6, <1>7, <1>8, <1>9, <1>10, BackedUpload DEF Next, Commit

\* chunks_missing, put_many_chunks and put_head: for any number of writers,
\* the relay finds every chunk of a manifest that is ready to be committed,
\* but for those whose file or row a sweep took after the push had found or
\* stored them, and a manifest is refused only when there are such chunks.
THEOREM RefusedOnlyAfterSweep == Spec => []RejectedOnlyAfterSweep
<1>1. Init => Backed
  BY DEF Init, Backed, PushBacked, NoPush
<1>2. Backed => RejectedOnlyAfterSweep
  BY DEF Backed, PushBacked, Kept, Settled, RejectedOnlyAfterSweep
<1> QED
  BY <1>1, <1>2, PoolTypeCorrect, BackedNext, PTL DEF Spec

(***************************************************************************)
(* Until the relay restarts, a chunk without a synced directory entry is   *)
(* in somebody's hands: a put's, the queue's, a drain's or a commit's.     *)
(* NoFlushForgotten speaks of the chunks of retained rows only; it is the  *)
(* same fact about every blob that is inductive.                           *)
(***************************************************************************)

Carries(u) ==
    /\ push[u].batch # {} => push[u].stage = "committing"
    /\ push[u].chunk # {} => push[u].stage = "queueing"

OnTheWay ==
    /\ restarts \in Nat
    /\ \A u \in Writer : Carries(u)
    /\ restarts = 0 => blobs \subseteq synced \cup BeingFlushed

InHand(u) == push[u].batch \cup push[u].chunk

\* One push moves: a blob the step does not sync or take over was, and stays,
\* in the hands of somebody else.
LEMMA HandsStep ==
    ASSUME PoolTypeOK, OnTheWay, NEW u \in Writer, NEW x,
           push' = [push EXCEPT ![u] = x], UNCHANGED restarts, Carries(u)',
           \A c \in blobs' :
               \/ c \in synced' \cup queue' \cup draining' \cup x.batch \cup x.chunk
               \/ c \in blobs \ (synced \cup queue \cup draining \cup InHand(u))
    PROVE  OnTheWay'
<1>1. \A v \in Writer : push'[v] = IF v = u THEN x ELSE push[v]
  BY DEF PoolTypeOK
<1>2. \A v \in Writer : Carries(v)'
  BY <1>1 DEF OnTheWay, Carries
<1>3. ASSUME restarts = 0, NEW c \in blobs' PROVE c \in (synced \cup BeingFlushed)'
  <2>1. CASE c \in synced' \cup queue' \cup draining'
    BY <2>1 DEF BeingFlushed
  <2>2. CASE c \in x.batch \cup x.chunk
    <3>1. c \in push'[u].batch \cup push'[u].chunk
      BY <1>1, <2>2
    <3> QED
      BY <3>1 DEF BeingFlushed
  <2>3. CASE c \in blobs \ (synced \cup queue \cup draining \cup InHand(u))
    <3>1. PICK v \in Writer : c \in push[v].batch \cup push[v].chunk
      BY <1>3, <2>3 DEF OnTheWay, BeingFlushed
    <3>2. v # u
      BY <2>3, <3>1 DEF InHand
    <3>3. c \in push'[v].batch \cup push'[v].chunk
      BY <1>1, <3>1, <3>2
    <3> QED
      BY <3>3 DEF BeingFlushed
  <2> QED
    BY <2>1, <2>2, <2>3
<1> QED
  BY <1>2, <1>3 DEF OnTheWay

\* The steps of one writer; a put renames its file before it queues the chunk.
LEMMA HandsWriter ==
    ASSUME PoolTypeOK, OnTheWay, NEW u \in Writer,
           StartPush(u) \/ Upload(u) \/ Commit(u)
    PROVE  OnTheWay'
<1>1. push[u] \in Push /\ push \in [Writer -> Push] /\ Carries(u)
  BY DEF PoolTypeOK, OnTheWay
<1>2. NoPush.batch = {} /\ NoPush.chunk = {}
  BY DEF NoPush
<1>3. ASSUME NEW x, push' = [push EXCEPT ![u] = x], x.batch = {}, x.chunk = {},
             InHand(u) = {},
             UNCHANGED <<blobs, synced, queue, draining, restarts>>
      PROVE  OnTheWay'
  <2>1. push'[u] = x
    BY <1>1, <1>3
  <2>2. Carries(u)'
    BY <1>3, <2>1 DEF Carries
  <2> QED
    BY <1>3, <2>2, HandsStep
<1>4. push[u].stage \notin {"queueing", "committing"} => InHand(u) = {}
  BY <1>1 DEF Carries, InHand
<1>5. CASE StartPush(u)
  <2>1. PICK want \in SUBSET Chunk, kind \in {"head", "snapshot"} :
           push' = [push EXCEPT ![u] =
                      [NoPush EXCEPT !.stage = "checking", !.want = want,
                                     !.kind = kind, !.base = seq[Home[u]]]]
    BY <1>5 DEF StartPush
  <2> DEFINE x == [NoPush EXCEPT !.stage = "checking", !.want = want,
                                 !.kind = kind, !.base = seq[Home[u]]]
  <2>2. x.batch = {} /\ x.chunk = {}
    BY DEF NoPush
  <2> HIDE DEF x
  <2> QED
    BY <1>3, <1>4, <1>5, <2>1, <2>2 DEF StartPush, poolVars, x
<1>6. CASE LookUp(u) \/ Answer(u) \/ PutPresent(u) \/ RecordRefs(u) \/ Reject(u)
  <2>1. \E st, td, sd, sw :
           push' = [push EXCEPT ![u] = [push[u] EXCEPT !.stage = st, !.todo = td,
                                                       !.stored = sd, !.swept = sw]]
    <3>1. CASE LookUp(u)
      <4>1. push' = [push EXCEPT ![u] =
               [push[u] EXCEPT !.stage = "looking", !.todo = Unseen(u),
                               !.stored = push[u].stored, !.swept = push[u].swept]]
        BY <1>1, <3>1 DEF LookUp, Push
      <4> QED
        BY <4>1
    <3>2. CASE Answer(u)
      <4>1. push' = [push EXCEPT ![u] =
               [push[u] EXCEPT !.stage = "uploading",
                               !.todo = push[u].todo \cup (push[u].want \ blobs),
                               !.stored = push[u].stored,
                               !.swept = push[u].swept
                                   \ (push[u].todo \cup (push[u].want \ blobs))]]
        BY <1>1, <3>2 DEF Answer, Push
      <4> QED
        BY <4>1
    <3>3. CASE PutPresent(u)
      <4>1. PICK c : push' = [push EXCEPT ![u] =
               [push[u] EXCEPT !.todo = push[u].todo \ {c},
                               !.stored = push[u].stored \cup {c}]]
        BY <3>3 DEF PutPresent
      <4>2. push' = [push EXCEPT ![u] =
               [push[u] EXCEPT !.stage = push[u].stage, !.todo = push[u].todo \ {c},
                               !.stored = push[u].stored \cup {c},
                               !.swept = push[u].swept]]
        BY <1>1, <4>1 DEF Push
      <4> QED
        BY <4>2
    <3>4. CASE RecordRefs(u)
      <4>1. push' = [push EXCEPT ![u] =
               [push[u] EXCEPT !.stage = IF push[u].todo = {} THEN "ready" ELSE "uploading",
                               !.todo = push[u].todo, !.stored = {},
                               !.swept = push[u].swept]]
        BY <1>1, <3>4 DEF RecordRefs, Push
      <4> QED
        BY <4>1
    <3>5. CASE Reject(u)
      <4>1. push' = [push EXCEPT ![u] =
               [push[u] EXCEPT !.stage = "rejected", !.todo = push[u].todo,
                               !.stored = push[u].stored, !.swept = push[u].swept]]
        BY <1>1, <3>5 DEF Reject, Push
      <4> QED
        BY <4>1
    <3> QED
      BY <1>6, <3>1, <3>2, <3>3, <3>4, <3>5
  <2>2. PICK st, td, sd, sw :
           push' = [push EXCEPT ![u] = [push[u] EXCEPT !.stage = st, !.todo = td,
                                                       !.stored = sd, !.swept = sw]]
    BY <2>1
  <2> DEFINE x == [push[u] EXCEPT !.stage = st, !.todo = td, !.stored = sd,
                                  !.swept = sw]
  <2>3. InHand(u) = {}
    BY <1>4, <1>6 DEF LookUp, Answer, PutPresent, RecordRefs, Reject
  <2>4. x.batch = {} /\ x.chunk = {}
    BY <1>1, <2>3 DEF InHand, Push
  <2>5. UNCHANGED <<blobs, synced, queue, draining, restarts>>
    BY <1>6 DEF LookUp, Answer, PutPresent, RecordRefs, Reject, poolVars
  <2> HIDE DEF x
  <2> QED
    BY <1>3, <2>2, <2>3, <2>4, <2>5 DEF x
<1>7. CASE PutNew(u)
  <2>1. PICK c \in push[u].todo :
           /\ blobs' = blobs \cup {c}
           /\ push' = [push EXCEPT ![u] =
                         [push[u] EXCEPT !.stage = "queueing", !.chunk = {c}]]
    BY <1>7 DEF PutNew
  <2> DEFINE x == [push[u] EXCEPT !.stage = "queueing", !.chunk = {c}]
  <2>2. InHand(u) = {}
    BY <1>4, <1>7 DEF PutNew
  <2>3. x.stage = "queueing" /\ x.chunk = {c} /\ x.batch = {}
    BY <1>1, <2>2 DEF InHand, Push
  <2>4. push' = [push EXCEPT ![u] = x]
    BY <2>1
  <2> HIDE DEF x
  <2>5. push'[u] = x
    BY <1>1, <2>4
  <2>6. Carries(u)'
    BY <2>3, <2>5 DEF Carries
  <2>7. UNCHANGED <<synced, queue, draining, restarts>>
    BY <1>7 DEF PutNew
  <2> QED
    BY <2>1, <2>2, <2>3, <2>4, <2>6, <2>7, HandsStep
<1>8. CASE Enqueue(u)
  <2> DEFINE x == [push[u] EXCEPT !.stage = "uploading", !.chunk = {},
                                  !.todo = push[u].todo \ push[u].chunk,
                                  !.stored = push[u].stored \cup push[u].chunk]
  <2>1. push' = [push EXCEPT ![u] = x] /\ queue' = queue \cup push[u].chunk
        /\ UNCHANGED <<blobs, synced, draining, restarts>>
    BY <1>8 DEF Enqueue
  <2>2. push[u].batch = {} /\ InHand(u) = push[u].chunk
    BY <1>1, <1>8 DEF Enqueue, Carries, InHand
  <2>3. x.chunk = {} /\ x.batch = {}
    BY <1>1, <2>2 DEF Push
  <2> HIDE DEF x
  <2>4. push'[u] = x
    BY <1>1, <2>1
  <2>5. Carries(u)'
    BY <2>3, <2>4 DEF Carries
  <2> QED
    BY <2>1, <2>2, <2>5, HandsStep
<1>9. CASE Conflict(u)
  BY <1>2, <1>3, <1>4, <1>9 DEF Conflict, poolVars
<1>10. CASE StartCommit(u)
  <2> DEFINE x == [push[u] EXCEPT !.stage = "committing", !.batch = queue]
  <2>1. push' = [push EXCEPT ![u] = x] /\ queue' = {}
        /\ UNCHANGED <<blobs, synced, draining, restarts>>
    BY <1>10 DEF StartCommit
  <2>2. InHand(u) = {}
    BY <1>4, <1>10 DEF StartCommit
  <2>3. x.stage = "committing" /\ x.chunk = {} /\ x.batch = queue
    BY <1>1, <2>2 DEF InHand, Push
  <2> HIDE DEF x
  <2>4. push'[u] = x
    BY <1>1, <2>1
  <2>5. Carries(u)'
    BY <2>3, <2>4 DEF Carries
  <2> QED
    BY <2>1, <2>2, <2>3, <2>5, HandsStep
<1>11. CASE CommitHead(u) \/ CommitSnapshot(u) \/ CommitFails(u)
  <2>1. /\ push' = [push EXCEPT ![u] = NoPush]
        /\ UNCHANGED <<blobs, draining, restarts>>
        /\ \/ synced' = synced \cup (push[u].batch \cap blobs) /\ queue' = queue
           \/ synced' = synced /\ queue' = queue \cup push[u].batch
    BY <1>11 DEF CommitHead, CommitSnapshot, CommitFails
  <2>2. push[u].chunk = {} /\ InHand(u) = push[u].batch
    BY <1>1, <1>11 DEF CommitHead, CommitSnapshot, CommitFails, Carries, InHand
  <2>3. push'[u] = NoPush
    BY <1>1, <2>1
  <2>4. Carries(u)'
    BY <1>2, <2>3 DEF Carries
  <2> QED
    BY <2>1, <2>2, <2>4, HandsStep
<1> QED
  BY <1>5, <1>6, <1>7, <1>8, <1>9, <1>10, <1>11 DEF Upload, Commit

\* Nobody's step drops a chunk on its way to the disk.
LEMMA HandsNext == PoolTypeOK /\ OnTheWay /\ [Next]_vars => OnTheWay'
<1> SUFFICES ASSUME PoolTypeOK, OnTheWay, [Next]_vars PROVE OnTheWay'
  OBVIOUS
<1>1. CASE Drain \/ Fsync \/ (\E c \in Chunk : Age(c)) \/ UNCHANGED vars
  <2>1. UNCHANGED <<blobs, push, restarts>>
    BY <1>1 DEF Drain, Fsync, Age, dbVars, vars, poolVars
  <2>2. blobs \cap (synced \cup queue \cup draining)
            \subseteq synced' \cup queue' \cup draining'
    BY <1>1 DEF Drain, Fsync, Age, vars, poolVars
  <2> QED
    BY <2>1, <2>2 DEF OnTheWay, Carries, BeingFlushed
<1>2. CASE Collect
  <2>1. /\ UNCHANGED <<queue, draining, restarts>> /\ blobs' \subseteq blobs
        /\ synced' = synced \cap blobs'
    BY <1>2 DEF Collect
  <2> DEFINE x(u) == [push[u] EXCEPT !.swept = push[u].swept \cup Taken(u)]
  <2>2. push' = [u \in Writer |-> x(u)]
    BY <1>2 DEF Collect
  <2>3. ASSUME NEW u \in Writer
        PROVE  /\ x(u).stage = push[u].stage /\ x(u).batch = push[u].batch
               /\ x(u).chunk = push[u].chunk
    <3>1. push[u] \in Push
      BY DEF PoolTypeOK
    <3> QED
      BY <3>1 DEF Push
  <2> HIDE DEF x
  <2>4. \A u \in Writer : /\ push'[u].stage = push[u].stage
                          /\ push'[u].batch = push[u].batch
                          /\ push'[u].chunk = push[u].chunk
    BY <2>2, <2>3
  <2>5. BeingFlushed' = BeingFlushed
    BY <2>1, <2>4 DEF BeingFlushed
  <2> QED
    BY <2>1, <2>4, <2>5 DEF OnTheWay, Carries
<1>3. CASE Restart
  <2>1. restarts' = restarts + 1 /\ push' = [u \in Writer |-> NoPush]
    BY <1>3 DEF Restart
  <2>2. restarts' \in Nat /\ restarts' # 0
    BY <2>1 DEF OnTheWay
  <2> QED
    BY <2>1, <2>2 DEF OnTheWay, Carries, NoPush
<1> QED
  BY <1>1, <1>2, <1>3, HandsWriter DEF Next

\* store.rs flush: whatever flushes fail, race each other and race a commit,
\* every chunk of a retained row is on the disk or still queued, being synced
\* or in the hands of the request that will queue it.
THEOREM FlushForgetsNothing == Spec => []NoFlushForgotten
<1>1. Init => OnTheWay
  BY DEF Init, OnTheWay, Carries, NoPush
<1>2. OnTheWay /\ RowsAreWhole => NoFlushForgotten
  BY DEF OnTheWay, RowsAreWhole, NoFlushForgotten
<1> QED
  BY <1>1, <1>2, PoolTypeCorrect, RowsStayWhole, HandsNext, PTL DEF Spec

=============================================================================
