---------------------------- MODULE MirrorProofs ----------------------------
(***************************************************************************)
(* A mirror that is idle is right, and an apply never runs out of chunks:  *)
(* proofs about module Mirror for any paths, contents and chunks, any      *)
(* retention and any number of commits, losses and interruptions.          *)
(*                                                                         *)
(* Neither is inductive.  What an interrupted apply can have touched are   *)
(* the paths in which its head differs from the base: as long as no other  *)
(* head was applied in between (scars has at most one element), every path *)
(* on which that head and the base agree still holds the base (TreeInv).   *)
(* Pulling the same head again rewrites exactly the others.  A fetch knows *)
(* that what is neither planned nor fetched was there (StoreInv).          *)
(***************************************************************************)
EXTENDS Mirror, TLAPS, SequenceTheorems

\* The paths the apply in progress has done.
Applied == IF phase = "apply" THEN Diff(Base, wire.files) \ todo ELSE {}

TreeInv ==
    /\ phase = "apply" => todo \subseteq Diff(Base, wire.files)
    /\ \A p \in Applied : disk[p] = wire.files[p]
    /\ \A w \in Row : scars \subseteq {w} =>
          \A p \in Path : Base[p] = w.files[p] =>
             /\ p \notin Applied => disk[p] = Base[p]
             /\ synced[p] = Base[p]

\* What manifest.json and remote.json say of each other.
RecordInv ==
    /\ phase \in {"record", "sweep"} => base = wire.files
    /\ phase # "record" /\ scars = {} /\ base # None /\ remote # None =>
          base = remote.files

StoreInv ==
    /\ phase = "fetching" => Needed \ want \subseteq Has(store)
    /\ phase = "apply" =>
          \A p \in todo : Chunks(wire.files[p]) \subseteq Has(store)

MirrorInv == TypeOK /\ TreeInv /\ RecordInv /\ StoreInv

-----------------------------------------------------------------------------
(***************************************************************************)
(* Lemmas about the operators.                                             *)
(***************************************************************************)

\* put_head keeps a sequence of at most HEAD_KEEP rows.
LEMMA RetainKeeps ==
    ASSUME rows \in Seq(Row), Len(rows) <= HeadKeep, NEW r \in Row
    PROVE  /\ Retain(Append(rows, r)) \in Seq(Row)
           /\ Len(Retain(Append(rows, r))) <= HeadKeep
<1> DEFINE s == Append(rows, r)
<1>1. s \in Seq(Row) /\ Len(s) = Len(rows) + 1 /\ s # <<>>
  BY AppendProperties
<1>2. Len(rows) \in Nat /\ HeadKeep \in Nat \ {0}
  BY LenProperties, MirrorAssumption
<1>3. Tail(s) \in Seq(Row) /\ Len(Tail(s)) = Len(s) - 1
  BY <1>1, HeadTailProperties
<1> HIDE DEF s
<1> QED
  BY <1>1, <1>2, <1>3 DEF Retain, s

\* The current head is a row.
LEMMA HeadIsRow ==
    ASSUME rows \in Seq(Row)
    PROVE  CurrentHead \in Row \cup {None}
           /\ (rows # <<>> => CurrentHead \in Row)
<1>1. CASE rows = <<>>
  BY <1>1 DEF CurrentHead
<1>2. CASE rows # <<>>
  <2>1. Len(rows) \in 1 .. Len(rows)
    BY <1>2, EmptySeq, LenProperties
  <2>2. rows[Len(rows)] \in Row
    BY <2>1, ElementOfSeq
  <2> QED
    BY <1>2, <2>2 DEF CurrentHead
<1> QED
  BY <1>1, <1>2

\* The manifest of the tree is a manifest, and so is that of the head.
LEMMA FilesAreFiles ==
    ASSUME TypeOK
    PROVE  /\ Base \in Files
           /\ wire # None => wire \in Row /\ wire.files \in Files
           /\ Applied \subseteq Path
  BY DEF TypeOK, Base, Empty, Files, Row, Applied, Diff

\* put of chunks makes them present and no other.
LEMMA PutKeeps ==
    ASSUME NEW s \in ChunkFiles, NEW ks \in SUBSET Chunk
    PROVE  PutAll(s, ks) \in ChunkFiles /\ Has(PutAll(s, ks)) = Has(s) \cup ks
  BY DEF ChunkFiles, PutAll, Has

\* get leaves a store a store.
LEMMA GetKeeps ==
    ASSUME NEW s \in ChunkFiles, NEW k \in Chunk
    PROVE  Get(s, k) \in ChunkFiles
  BY DEF ChunkFiles, Get

\* What a file refers to are chunks.
LEMMA RefersToChunks ==
    ASSUME NEW files
    PROVE  Refers(files) \subseteq Chunk /\ \A c : Chunks(c) \subseteq Chunk
<1>1. \A c : Chunks(c) \subseteq Chunk
  BY MirrorAssumption DEF Chunks
<1> QED
  BY <1>1 DEF Refers

-----------------------------------------------------------------------------
(***************************************************************************)
(* The initial state and the relay.                                        *)
(***************************************************************************)

\* A mirror that has never pulled.
LEMMA MirrorInit == Init => MirrorInv
<1> SUFFICES ASSUME Init PROVE MirrorInv
  OBVIOUS
<1>1. Empty \in Files /\ Empty \in OnDisk
  BY DEF Empty, Files, OnDisk
<1>2. TypeOK
  <2>1. rows \in Seq(Row) /\ Len(rows) <= HeadKeep
    BY EmptySeq, MirrorAssumption DEF Init
  <2>2. blob \in ChunkFiles /\ store \in ChunkFiles
    BY DEF Init, ChunkFiles
  <2>3. /\ commits \in 0..MaxCommits /\ losses \in 0..MaxLosses
        /\ interrupts \in 0..MaxInterrupts
    BY MirrorAssumption DEF Init
  <2> QED
    BY <1>1, <2>1, <2>2, <2>3 DEF Init, TypeOK
<1>3. Base = Empty
  BY DEF Base, Init
<1>4. TreeInv
  BY <1>3 DEF Init, TreeInv, Applied, Empty
<1>5. RecordInv /\ StoreInv
  BY DEF Init, RecordInv, StoreInv
<1> QED
  BY <1>2, <1>4, <1>5 DEF MirrorInv

\* Whatever happens to the relay leaves the mirror alone.
LEMMA RelayStep ==
    ASSUME MirrorInv, Relay
    PROVE  MirrorInv'
<1>1. TypeOK /\ UNCHANGED mirror
  BY DEF MirrorInv, Relay, Commit, SweepPool, Repair, TearBlob, RollBack, Wipe
<1>2. /\ rows' \in Seq(Row) /\ Len(rows') <= HeadKeep
      /\ blob' \in ChunkFiles
      /\ commits' \in 0..MaxCommits /\ losses' \in 0..MaxLosses
  <2>1. /\ rows \in Seq(Row) /\ Len(rows) <= HeadKeep /\ blob \in ChunkFiles
        /\ commits \in 0..MaxCommits /\ losses \in 0..MaxLosses
        /\ MaxCommits \in Nat /\ MaxLosses \in Nat
    BY <1>1, MirrorAssumption DEF TypeOK
  <2>2. losses' \in 0..MaxLosses
    <3>1. Loss \/ losses' = losses
      BY DEF Relay, Commit, SweepPool, Repair, TearBlob, RollBack, Wipe
    <3> QED
      BY <2>1, <3>1 DEF Loss
  <2>3. ASSUME NEW files \in Files, Commit(files)
        PROVE  /\ rows' \in Seq(Row) /\ Len(rows') <= HeadKeep
               /\ blob' \in ChunkFiles /\ commits' \in 0..MaxCommits
    <3> DEFINE r == [seq |-> IF rows = <<>> THEN 1 ELSE CurrentHead.seq + 1,
                     files |-> files]
    <3>1. rows # <<>> => CurrentHead.seq \in Nat \ {0}
      BY <2>1, HeadIsRow DEF Row
    <3>2. r \in Row
      BY <3>1 DEF Row
    <3>3. rows' = Retain(Append(rows, r)) /\ blob' = PutAll(blob, Refers(files))
      BY <2>3 DEF Commit
    <3> HIDE DEF r
    <3>4. rows' \in Seq(Row) /\ Len(rows') <= HeadKeep
      BY <2>1, <3>2, <3>3, RetainKeeps
    <3>5. blob' \in ChunkFiles
      BY <2>1, <3>3, PutKeeps, RefersToChunks
    <3>6. commits' \in 0..MaxCommits
      BY <2>1, <2>3 DEF Commit
    <3> QED
      BY <3>4, <3>5, <3>6
  <2>4. ASSUME NEW k \in Chunk, SweepPool(k) \/ Repair(k) \/ TearBlob(k)
        PROVE  blob' \in ChunkFiles /\ UNCHANGED <<rows, commits>>
    BY <2>1, <2>4, PutKeeps DEF SweepPool, Repair, TearBlob, ChunkFiles
  <2>5. CASE RollBack
    <3>1. Len(rows) \in Nat \ {0}
      BY <2>1, <2>5, EmptySeq, LenProperties DEF RollBack
    <3> DEFINE t == SubSeq(rows, 1, Len(rows) - 1)
    <3>2. /\ \A i \in 1 .. Len(rows) - 1 : rows[i] \in Row
          /\ 1 \in Int /\ Len(rows) - 1 \in Int
      BY <2>1, <3>1, ElementOfSeq
    <3>3. /\ t \in Seq(Row)
          /\ Len(t) = IF 1 <= Len(rows) - 1 THEN Len(rows) - 1 - 1 + 1 ELSE 0
      BY <3>2, SubSeqProperties
    <3>4. rows' = t /\ blob' = blob /\ commits' = commits
      BY <2>5 DEF RollBack
    <3> HIDE DEF t
    <3>5. Len(rows') <= HeadKeep
      BY <2>1, <3>1, <3>3, <3>4, MirrorAssumption
    <3> QED
      BY <2>1, <2>2, <3>3, <3>4, <3>5
  <2>6. CASE Wipe
    <3>1. rows' = <<>> /\ blob' \in ChunkFiles
      BY <2>6 DEF Wipe, ChunkFiles
    <3> QED
      BY <2>1, <2>2, <2>6, <3>1, EmptySeq, MirrorAssumption DEF Wipe
  <2> QED
    BY <2>1, <2>2, <2>3, <2>4, <2>5, <2>6 DEF Relay
<1>3. TypeOK'
  BY <1>1, <1>2 DEF TypeOK, mirror, tree, local, pull
<1>4. TreeInv' /\ RecordInv' /\ StoreInv'
  BY <1>1 DEF MirrorInv, TreeInv, RecordInv, StoreInv, Applied, Diff, Base,
              Needed, Has, mirror, tree, local, pull
<1> QED
  BY <1>3, <1>4 DEF MirrorInv

-----------------------------------------------------------------------------
(***************************************************************************)
(* The steps of a pull.                                                    *)
(***************************************************************************)

\* What leaves the tree and what is known of it alone, outside of an apply.
LEMMA TreeKept ==
    ASSUME TypeOK, TreeInv, phase # "apply",
           UNCHANGED <<disk, synced, base, scars>>,
           phase' = "apply" => todo' = Diff(Base, wire.files)'
    PROVE  TreeInv'
<1>1. Base' = Base
  BY DEF Base
<1>2. Applied = {} /\ Applied' = {}
  BY DEF Applied
<1> QED
  BY <1>1, <1>2 DEF TreeInv

\* An apply that does not reach its end has only touched paths on which its
\* head differs from the base.
LEMMA Interruption ==
    ASSUME TypeOK, TreeInv, scars' = Scarred, base' = base, phase' = "rest",
           \A p \in Path : disk[p] = Base[p] /\ synced[p] = Base[p] =>
                              disk'[p] = Base[p] /\ synced'[p] = Base[p]
    PROVE  TreeInv'
<1>1. Base' = Base /\ Applied' = {}
  BY DEF Base, Applied
<1>2. SUFFICES ASSUME NEW w \in Row, scars' \subseteq {w},
                      NEW p \in Path, Base[p] = w.files[p]
               PROVE  disk[p] = Base[p] /\ synced[p] = Base[p]
  BY <1>1 DEF TreeInv
<1>3. scars \subseteq {w} /\ (phase \in {"apply", "record"} => wire = w)
  BY <1>2 DEF Scarred
<1>4. p \notin Applied
  BY <1>2, <1>3 DEF Applied, Diff
<1> QED
  BY <1>2, <1>3, <1>4 DEF TreeInv

\* Up to the plan: nothing local changes.
LEMMA PlanStep ==
    ASSUME MirrorInv, GetHead \/ Plan \/ RequestLost
    PROVE  MirrorInv'
<1>1. /\ TypeOK /\ TreeInv /\ RecordInv
      /\ phase \in {"rest", "planning", "fetching"}
      /\ phase' \in {"rest", "planning", "fetching"}
      /\ UNCHANGED <<relay, tree, local, todo, scars>>
      /\ moved' \in BOOLEAN
  BY DEF MirrorInv, TypeOK, GetHead, Plan, RequestLost, EndsAt, Enter
<1>2. TypeOK'
  <2>1. /\ wire' \in Row \cup {None}
        /\ wire' = None <=> phase' \in {"rest", "fatal"}
    BY <1>1, HeadIsRow DEF TypeOK, GetHead, Plan, RequestLost, EndsAt, Enter
  <2>2. want' \subseteq Chunk /\ (want' # {} => phase' = "fetching")
    BY <1>1, RefersToChunks
       DEF TypeOK, GetHead, Plan, RequestLost, EndsAt, Enter, ToFetch, Needed
  <2>3. interrupts' \in 0..MaxInterrupts
    BY <1>1, MirrorAssumption DEF TypeOK, GetHead, Plan, RequestLost, Interrupted
  <2>4. todo' = {}
    BY <1>1 DEF TypeOK
  <2> QED
    BY <1>1, <2>1, <2>2, <2>3, <2>4 DEF TypeOK, relay, tree, local
<1>3. TreeInv'
  BY <1>1, TreeKept DEF tree, local
<1>4. RecordInv'
  BY <1>1 DEF RecordInv, local
<1>5. StoreInv'
  <2>1. ASSUME phase' = "fetching" PROVE (Needed \ want \subseteq Has(store))'
    <3>1. want' = ToFetch /\ UNCHANGED <<wire, base, store>>
      BY <1>1, <2>1 DEF GetHead, Plan, RequestLost, EndsAt, Enter, local
    <3> QED
      BY <3>1 DEF ToFetch, Needed, Diff, Base, Has
  <2> QED
    BY <1>1, <2>1 DEF StoreInv
<1> QED
  BY <1>2, <1>3, <1>4, <1>5 DEF MirrorInv

\* The fetch up to the apply.
LEMMA FetchStep ==
    ASSUME MirrorInv,
           \/ \E batch \in SUBSET Chunk : Fetch(batch)
           \/ \E k \in Chunk : FetchRefused(k)
           \/ StartApply
    PROVE  MirrorInv'
<1>1. TypeOK /\ TreeInv /\ RecordInv /\ StoreInv /\ phase = "fetching"
  BY DEF MirrorInv, Fetch, FetchRefused, StartApply
<1>2. wire \in Row /\ wire # None
  BY <1>1 DEF TypeOK
<1>3. ASSUME NEW batch \in SUBSET Chunk, Fetch(batch) PROVE MirrorInv'
  <2>1. store' \in ChunkFiles /\ Has(store)' = Has(store) \cup batch
    BY <1>1, <1>3, PutKeeps DEF TypeOK, Fetch, Has
  <2>2. TypeOK'
    BY <1>1, <1>3, <2>1 DEF TypeOK, Fetch, relay, tree
  <2>3. TreeInv'
    BY <1>1, <1>3, TreeKept DEF Fetch, tree
  <2>4. RecordInv'
    BY <1>1, <1>3 DEF RecordInv, Fetch
  <2>5. Needed' = Needed
    BY <1>3 DEF Needed, Diff, Base, Fetch
  <2>6. StoreInv'
    BY <1>1, <1>3, <2>1, <2>5 DEF StoreInv, Fetch
  <2> QED
    BY <2>2, <2>3, <2>4, <2>6 DEF MirrorInv
<1>4. ASSUME NEW k \in Chunk, FetchRefused(k) PROVE MirrorInv'
  <2>1. blob' \in ChunkFiles
    BY <1>1, <1>4, GetKeeps DEF TypeOK, FetchRefused
  <2>2. TypeOK'
    BY <1>1, <1>4, <2>1 DEF TypeOK, FetchRefused, EndsAt, tree, local
  <2>3. TreeInv'
    BY <1>1, <1>4, TreeKept DEF FetchRefused, EndsAt, tree, local
  <2>4. RecordInv' /\ StoreInv'
    BY <1>1, <1>4 DEF RecordInv, StoreInv, FetchRefused, EndsAt, local
  <2> QED
    BY <2>2, <2>3, <2>4 DEF MirrorInv
<1>5. CASE StartApply
  <2>1. todo' = Diff(Base, wire.files) /\ todo' \subseteq Path
    BY <1>5 DEF StartApply, Diff
  <2>2. UNCHANGED <<base, wire, store, disk, synced, scars, remote>>
    BY <1>5 DEF StartApply, tree, local
  <2>3. TypeOK'
    BY <1>1, <1>2, <1>5, <2>1 DEF TypeOK, StartApply, relay, tree, local
  <2>4. Diff(Base, wire.files)' = Diff(Base, wire.files)
    BY <2>2 DEF Diff, Base
  <2>5. TreeInv'
    BY <1>1, <2>1, <2>2, <2>4, TreeKept
  <2>6. RecordInv'
    BY <1>1, <1>5, <2>2 DEF RecordInv, StartApply
  <2>7. \A p \in Diff(Base, wire.files) : Chunks(wire.files[p]) \subseteq Needed
    BY DEF Needed, Refers, Diff
  <2>8. Needed \subseteq Has(store)
    BY <1>1, <1>5 DEF StoreInv, StartApply
  <2>9. StoreInv'
    BY <1>5, <2>1, <2>2, <2>7, <2>8 DEF StoreInv, StartApply, Has
  <2> QED
    BY <2>3, <2>5, <2>6, <2>9 DEF MirrorInv
<1> QED
  BY <1>3, <1>4, <1>5

\* One file of the apply, written or deleted.
LEMMA PathStep ==
    ASSUME MirrorInv, NEW p \in Path, ApplyPath(p)
    PROVE  MirrorInv'
<1>1. TypeOK /\ TreeInv /\ RecordInv /\ StoreInv /\ phase = "apply" /\ p \in todo
  BY DEF MirrorInv, ApplyPath, InTurn
<1>2. wire # None /\ wire.files \in Files /\ Base \in Files /\ disk \in OnDisk
  BY <1>1, FilesAreFiles DEF TypeOK
<1>3. /\ disk' = [disk EXCEPT ![p] = wire.files[p]] /\ todo' = todo \ {p}
      /\ UNCHANGED <<relay, interrupts, synced, base, remote, store, fresh,
                     phase, wire, want, moved, scars>>
  BY DEF ApplyPath
<1>4. TypeOK'
  <2>1. disk' \in OnDisk
    BY <1>2, <1>3 DEF OnDisk, Files
  <2> QED
    BY <1>1, <1>3, <2>1 DEF TypeOK, relay
<1>5. TreeInv'
  <2>1. \A q \in Path : disk'[q] = IF q = p THEN wire.files[p] ELSE disk[q]
    BY <1>2, <1>3 DEF OnDisk
  <2>2. Base' = Base /\ Diff(Base, wire.files)' = Diff(Base, wire.files)
    BY <1>3 DEF Base, Diff
  <2>3. Applied' = Applied \cup {p} /\ Applied \subseteq Path
    BY <1>1, <1>3, <2>2 DEF Applied, TreeInv, Diff
  <2>4. \A q \in Applied' : disk'[q] = wire'.files[q]
    BY <1>1, <1>3, <2>1, <2>3 DEF TreeInv
  <2> QED
    BY <1>1, <1>3, <2>1, <2>2, <2>3, <2>4 DEF TreeInv
<1>6. RecordInv' /\ StoreInv'
  BY <1>1, <1>3 DEF RecordInv, StoreInv, Has
<1> QED
  BY <1>4, <1>5, <1>6 DEF MirrorInv

\* A chunk of the local store does not verify.
LEMMA FailedApplyStep ==
    ASSUME MirrorInv, NEW p \in Path, ApplyFails(p)
    PROVE  MirrorInv'
<1>1. TypeOK /\ TreeInv /\ phase = "apply"
  BY DEF MirrorInv, ApplyFails, InTurn
<1>2. wire \in Row
  BY <1>1 DEF TypeOK
<1>3. store' \in ChunkFiles
  <2>1. PICK k \in Chunks(wire.files[p]) : store' = Get(store, k)
    BY DEF ApplyFails
  <2> QED
    BY <1>1, <2>1, GetKeeps, RefersToChunks DEF TypeOK
<1>4. scars' = scars \cup {wire}
  BY <1>1 DEF ApplyFails, Scarred
<1>5. TypeOK'
  BY <1>1, <1>2, <1>3, <1>4 DEF TypeOK, ApplyFails, EndsAt, relay, tree
<1>6. TreeInv'
  BY <1>1, Interruption DEF ApplyFails, EndsAt, tree
<1>7. RecordInv' /\ StoreInv'
  BY <1>4 DEF ApplyFails, EndsAt, RecordInv, StoreInv
<1> QED
  BY <1>5, <1>6, <1>7 DEF MirrorInv

\* The apply commits its manifest.
LEMMA CommitBaseStep ==
    ASSUME MirrorInv, CommitBase
    PROVE  MirrorInv'
<1>1. TypeOK /\ TreeInv /\ phase = "apply" /\ todo = {} /\ phase' = "record"
  BY DEF MirrorInv, CommitBase, Enter
<1>2. /\ wire \in Row /\ wire # None /\ wire.files \in Files
      /\ disk \in OnDisk /\ synced \in OnDisk
  BY <1>1, FilesAreFiles DEF TypeOK
<1>3. /\ synced' = [p \in Path |->
                       IF p \in Diff(Base, wire.files) THEN disk[p] ELSE synced[p]]
      /\ base' = wire.files
      /\ UNCHANGED <<relay, interrupts, disk, remote, store, fresh, wire, todo,
                     want, moved, scars>>
  BY DEF CommitBase, Enter
<1>4. TypeOK'
  <2>1. synced' \in OnDisk
    BY <1>2, <1>3 DEF OnDisk
  <2> QED
    BY <1>1, <1>2, <1>3, <2>1 DEF TypeOK, relay
<1>5. TreeInv'
  <2>1. Base' = wire.files
    BY <1>2, <1>3, MirrorAssumption DEF Base, Files
  <2>2. Applied = Diff(Base, wire.files) /\ Applied' = {}
    BY <1>1 DEF Applied, Diff
  <2>3. SUFFICES ASSUME NEW w \in Row, scars \subseteq {w},
                        NEW p \in Path, wire.files[p] = w.files[p]
                 PROVE  disk[p] = wire.files[p] /\ synced'[p] = wire.files[p]
    BY <1>1, <1>3, <2>1, <2>2 DEF TreeInv
  <2>4. CASE p \in Applied
    BY <1>1, <1>3, <2>2, <2>4 DEF TreeInv
  <2>5. CASE p \notin Applied
    <3>1. Base[p] = wire.files[p]
      BY <2>2, <2>5 DEF Diff
    <3>2. disk[p] = Base[p] /\ synced[p] = Base[p]
      BY <1>1, <2>3, <2>5, <3>1 DEF TreeInv
    <3> QED
      BY <1>3, <2>2, <2>5, <3>1, <3>2
  <2> QED
    BY <2>4, <2>5
<1>6. RecordInv' /\ StoreInv'
  BY <1>1, <1>3 DEF RecordInv, StoreInv
<1> QED
  BY <1>4, <1>5, <1>6 DEF MirrorInv

\* The pull writes remote.json: its head is in the tree, whatever interrupted
\* it before.
LEMMA RecordStep ==
    ASSUME MirrorInv, Record
    PROVE  MirrorInv'
<1>1. /\ TypeOK /\ TreeInv /\ RecordInv /\ phase = "record"
      /\ phase' \in {"rest", "sweep"} /\ remote' = wire /\ base' = base
  BY DEF MirrorInv, Record, EndsAt, Enter, local
<1>2. wire \in Row /\ wire # None /\ wire.files \in Files /\ base = wire.files
  BY <1>1, FilesAreFiles DEF TypeOK, RecordInv
<1>3. scars' \subseteq scars /\ todo = {} /\ todo' = {}
  BY <1>1 DEF Record, EndsAt, Enter, TypeOK
<1>4. TypeOK'
  <2>1. /\ wire' \in {wire, None} /\ (wire' = None <=> phase' = "rest")
        /\ want' = {} /\ moved' \in BOOLEAN
    BY <1>1, <1>2 DEF Record, EndsAt, Enter, TypeOK
  <2> QED
    BY <1>1, <1>2, <1>3, <2>1 DEF TypeOK, Record, relay, tree
<1>5. TreeInv'
  <2>1. Base = wire.files /\ Base' = wire.files
    BY <1>1, <1>2, MirrorAssumption DEF Base, Files
  <2>2. Applied = {} /\ Applied' = {} /\ UNCHANGED <<disk, synced>>
    BY <1>1 DEF Applied, Record, tree
  <2>3. SUFFICES ASSUME NEW w \in Row, scars' \subseteq {w},
                        NEW p \in Path, Base[p] = w.files[p]
                 PROVE  disk[p] = Base[p] /\ synced[p] = Base[p]
    BY <1>1, <2>1, <2>2 DEF TreeInv
  <2>4. scars \subseteq {w} \/ scars \subseteq {wire}
    BY <2>3 DEF Record
  <2> QED
    BY <1>1, <1>2, <2>1, <2>2, <2>3, <2>4 DEF TreeInv
<1>6. RecordInv' /\ StoreInv'
  BY <1>1, <1>2 DEF RecordInv, StoreInv, Record, EndsAt, Enter
<1> QED
  BY <1>4, <1>5, <1>6 DEF MirrorInv

\* The sweep of the local store ends the pull.
LEMMA SweepStep ==
    ASSUME MirrorInv, NEW ks \in SUBSET Chunk, SweepStore(ks)
    PROVE  MirrorInv'
<1>1. TypeOK /\ TreeInv /\ RecordInv /\ phase = "sweep"
  BY DEF MirrorInv, SweepStore
<1>2. store' \in ChunkFiles
  BY <1>1 DEF SweepStore, TypeOK, ChunkFiles
<1>3. TypeOK'
  BY <1>1, <1>2 DEF TypeOK, SweepStore, EndsAt, relay, tree
<1>4. TreeInv'
  BY <1>1, TreeKept DEF SweepStore, EndsAt, tree
<1>5. RecordInv' /\ StoreInv'
  BY <1>1 DEF RecordInv, StoreInv, SweepStore, EndsAt
<1> QED
  BY <1>3, <1>4, <1>5 DEF MirrorInv

-----------------------------------------------------------------------------
(***************************************************************************)
(* Interruptions.                                                          *)
(***************************************************************************)

\* The process, or the machine, dies at any moment.
LEMMA InterruptStep ==
    ASSUME MirrorInv, Crash \/ \E t \in OnDisk, s \in ChunkFiles : PowerLoss(t, s)
    PROVE  MirrorInv'
<1>1. /\ TypeOK /\ TreeInv /\ RecordInv
      /\ scars' = Scarred /\ base' = base /\ remote' = remote
      /\ phase' = "rest" /\ wire' = None /\ want' = {} /\ todo' = {} /\ moved' = FALSE
  BY DEF MirrorInv, Crash, PowerLoss, EndsAt, local
<1>2. \A p \in Path : disk[p] = Base[p] /\ synced[p] = Base[p] =>
                         disk'[p] = Base[p] /\ synced'[p] = Base[p]
  <2>1. CASE Crash
    BY <2>1 DEF Crash, tree
  <2>2. ASSUME NEW t \in OnDisk, NEW s \in ChunkFiles, PowerLoss(t, s),
               NEW p \in Path, disk[p] = Base[p], synced[p] = Base[p]
        PROVE  disk'[p] = Base[p] /\ synced'[p] = Base[p]
    BY <2>2 DEF PowerLoss
  <2> QED
    BY <2>1, <2>2
<1>3. TypeOK'
  <2>1. interrupts' \in 0..MaxInterrupts
    BY <1>1, MirrorAssumption DEF TypeOK, Crash, PowerLoss, Interrupted
  <2>2. disk' \in OnDisk /\ synced' \in OnDisk /\ store' \in ChunkFiles
        /\ fresh' \subseteq Chunk /\ UNCHANGED relay
    BY <1>1 DEF TypeOK, Crash, PowerLoss, tree, local
  <2>3. scars' \subseteq Row
    BY <1>1 DEF TypeOK, Scarred
  <2> QED
    BY <1>1, <2>1, <2>2, <2>3 DEF TypeOK, relay
<1>4. TreeInv'
  BY <1>1, <1>2, Interruption
<1>5. RecordInv' /\ StoreInv'
  BY <1>1 DEF RecordInv, StoreInv, Scarred
<1> QED
  BY <1>3, <1>4, <1>5 DEF MirrorInv

\* Every step keeps the invariant.
LEMMA MirrorStep == MirrorInv /\ [Next]_vars => MirrorInv'
<1> SUFFICES ASSUME MirrorInv, [Next]_vars PROVE MirrorInv'
  OBVIOUS
<1>1. CASE Relay
  BY <1>1, RelayStep
<1>2. CASE Advance
  BY <1>2, PlanStep, FetchStep, PathStep, FailedApplyStep, CommitBaseStep,
     RecordStep, SweepStep DEF Advance
<1>3. CASE Interrupt
  BY <1>3, PlanStep, InterruptStep DEF Interrupt
<1>4. CASE UNCHANGED vars
  BY <1>4 DEF vars, mirror, relay, tree, local, pull, MirrorInv, TypeOK, TreeInv,
              RecordInv, StoreInv, Applied, Diff, Base, Needed, Has
<1> QED
  BY <1>1, <1>2, <1>3, <1>4 DEF Next

\* The inductive invariant holds in every behaviour.
LEMMA MirrorAlways == Spec => []MirrorInv
  BY MirrorInit, MirrorStep, PTL DEF Spec

-----------------------------------------------------------------------------
(***************************************************************************)
(* The theorems.                                                           *)
(***************************************************************************)

\* The variables of relay and mirror have their types, with at most HEAD_KEEP
\* rows (db.rs, put_head).
THEOREM MirrorTypeCorrect == Spec => []TypeOK
<1>1. MirrorInv => TypeOK
  BY DEF MirrorInv
<1> QED
  BY <1>1, MirrorAlways, PTL

\* An apply has a file for every chunk it will read (sync.rs, pull_inner).
THEOREM NeverStuckMidApply == Spec => []NeverMidApply
<1>1. MirrorInv => NeverMidApply
  BY DEF MirrorInv, StoreInv, NeverMidApply
<1> QED
  BY <1>1, MirrorAlways, PTL

\* A mirror that reports idle has the head in its tree (sync.rs, the idle
\* check of pull_inner), unless an interrupted apply was never repeated.
THEOREM IdleAlwaysHonest == Spec => []IdleIsHonest
<1>1. MirrorInv => IdleIsHonest
  <2> SUFFICES ASSUME MirrorInv, phase = "rest", scars = {},
                      CurrentHead # None, AlreadyApplied
               PROVE  disk = CurrentHead.files
    BY DEF IdleIsHonest
  <2>1. TypeOK /\ TreeInv /\ RecordInv
    BY DEF MirrorInv
  <2>2. base = CurrentHead.files /\ Base = base
    BY <2>1 DEF RecordInv, AlreadyApplied, Base
  <2>3. Base \in Files /\ disk \in OnDisk /\ Applied = {}
    BY <2>1, FilesAreFiles DEF TypeOK, Applied
  <2> DEFINE w == [seq |-> 1, files |-> Base]
  <2>4. w \in Row /\ w.files = Base
    BY <2>3 DEF Row
  <2> HIDE DEF w
  <2>5. \A p \in Path : disk[p] = Base[p]
    BY <2>1, <2>3, <2>4 DEF TreeInv
  <2> QED
    BY <2>2, <2>3, <2>5 DEF Files, OnDisk
<1> QED
  BY <1>1, MirrorAlways, PTL
=============================================================================
