------------------------------- MODULE Mirror -------------------------------
(***************************************************************************)
(* A read-only mirror of one workspace: the pull of the relay's head into  *)
(* a local chunk store and from there into the tree (core/src/sync.rs,     *)
(* apply.rs, store.rs), against a relay whose head moves on, loses its     *)
(* last rows or everything, whose pool is swept and whose blobs a power    *)
(* loss can tear (relay/src/routes.rs, db.rs, gc.rs).                      *)
(*                                                                         *)
(* .pear/manifest.json (base) says what is in the tree, .pear/remote.json  *)
(* (remote) which head that is.  Of a head the mirror compares sequence    *)
(* and content hash: here the row itself.  Nobody else writes the tree.    *)
(* Interrupt is the end of the process at any moment, with what a power    *)
(* loss may add to it: what was not fsynced is old, new or torn.           *)
(***************************************************************************)
EXTENDS Naturals, Sequences

CONSTANTS
    Path,
    GitPath,        \* the paths below .git
    Content,        \* of a file: its FileEntry
    Chunk,
    ChunksOf,       \* ChunksOf[c]: the chunks of content c
    Absent,         \* no file
    None,           \* no manifest.json, no remote.json, no head
    Torn,           \* a file with a name and no content
    HeadKeep,       \* HEAD_KEEP
    MaxCommits,     \* bound on the commits of the writers
    MaxLosses,      \* bound on what the relay loses
    MaxInterrupts   \* bound on interruptions of the mirror

ASSUME MirrorAssumption ==
    /\ GitPath \subseteq Path
    /\ ChunksOf \in [Content -> SUBSET Chunk]
    /\ Absent \notin Content /\ Torn \notin Content /\ Torn # Absent
    /\ None \notin [Path -> Content \cup {Absent}]
    /\ HeadKeep \in Nat \ {0} /\ MaxCommits \in Nat
    /\ MaxLosses \in Nat /\ MaxInterrupts \in Nat

VARIABLES
    rows,       \* the retained heads, the current one last
    blob,       \* per chunk, its file in the relay's pool
    commits, losses, interrupts,
    disk,       \* the mirror's tree
    synced,     \* the tree as of the last group flush
    base,       \* .pear/manifest.json
    remote,     \* .pear/remote.json
    store,      \* per chunk, its file in .pear/store
    fresh,      \* the chunks put since the machine started
    phase,      \* of the pull
    wire,       \* the head it applies
    want,       \* the chunks it has still to fetch
    moved,      \* its apply has something to do
    todo,       \* the paths it has still to apply
    scars       \* heads of interrupted applies that no pull has finished (history)

relay == <<rows, blob, commits, losses>>
tree == <<disk, synced>>
local == <<base, remote, store, fresh>>
pull == <<phase, wire, want, todo, moved>>
mirror == <<interrupts, tree, local, pull, scars>>
vars == <<relay, mirror>>

-----------------------------------------------------------------------------
(***************************************************************************)
(* Manifests, heads and stores.                                            *)
(***************************************************************************)

Files == [Path -> Content \cup {Absent}]
Empty == [p \in Path |-> Absent]

Row == [seq : Nat \ {0}, files : Files]

CurrentHead == IF rows = <<>> THEN None ELSE rows[Len(rows)]

\* The manifest a missing manifest.json stands for.
Base == IF base = None THEN Empty ELSE base

\* The paths a manifest lists, and the chunks it refers to.
Chunks(c) == IF c \in Content THEN ChunksOf[c] ELSE {}
Refers(files) == UNION {Chunks(files[p]) : p \in Path}

Diff(old, new) == {p \in Path : old[p] # new[p]}

\* has: a torn file is present, too.
Has(s) == {k \in Chunk : s[k] # "none"}

\* put of a chunk that is present leaves its file alone.
PutAll(s, ks) ==
    [k \in Chunk |-> IF k \in ks /\ s[k] = "none" THEN "good" ELSE s[k]]

\* Mutant: get reports a torn chunk and leaves it there.
GetKeepsTorn(s, k) == s

\* get re-hashes; what does not hash to its name is deleted.
Get(s, k) == IF s[k] = "torn" THEN [s EXCEPT ![k] = "none"] ELSE s

Init ==
    /\ rows = <<>> /\ blob = [k \in Chunk |-> "none"]
    /\ commits = 0 /\ losses = 0 /\ interrupts = 0
    /\ disk = Empty /\ synced = Empty
    /\ base = None /\ remote = None
    /\ store = [k \in Chunk |-> "none"] /\ fresh = {}
    /\ phase = "rest" /\ wire = None /\ want = {} /\ todo = {} /\ moved = FALSE
    /\ scars = {}

-----------------------------------------------------------------------------
(***************************************************************************)
(* The relay and its writers.                                              *)
(***************************************************************************)

Retain(s) == IF Len(s) > HeadKeep THEN Tail(s) ELSE s

\* put_head, after the upload of the chunks the pool does not have.
Commit(files) ==
    /\ commits < MaxCommits
    /\ rows # <<>> => files # CurrentHead.files
    /\ commits' = commits + 1
    /\ blob' = PutAll(blob, Refers(files))
    /\ rows' = Retain(Append(rows,
                  [seq |-> IF rows = <<>> THEN 1 ELSE CurrentHead.seq + 1,
                   files |-> files]))
    /\ UNCHANGED <<losses, mirror>>

\* run_pool_gc, one blob.
SweepPool(k) ==
    /\ k \in Has(blob)
    /\ \A i \in DOMAIN rows : k \notin Refers(rows[i].files)
    /\ blob' = [blob EXCEPT ![k] = "none"]
    /\ UNCHANGED <<rows, commits, losses, mirror>>

\* A writer's push finds a chunk of its tree missing and uploads it again.
Repair(k) ==
    /\ rows # <<>> /\ k \in Refers(CurrentHead.files) \ Has(blob)
    /\ blob' = PutAll(blob, {k})
    /\ UNCHANGED <<rows, commits, losses, mirror>>

Loss == losses < MaxLosses /\ losses' = losses + 1

\* A power loss of the relay tears a blob, loses the last row, or its data
\* directory is wiped.
TearBlob(k) ==
    /\ Loss /\ blob[k] = "good"
    /\ blob' = [blob EXCEPT ![k] = "torn"]
    /\ UNCHANGED <<rows, commits, mirror>>

RollBack ==
    /\ Loss /\ rows # <<>>
    /\ rows' = SubSeq(rows, 1, Len(rows) - 1)
    /\ UNCHANGED <<blob, commits, mirror>>

Wipe ==
    /\ Loss /\ rows # <<>>
    /\ rows' = <<>> /\ blob' = [k \in Chunk |-> "none"]
    /\ UNCHANGED <<commits, mirror>>

Relay ==
    \/ \E files \in Files : Commit(files)
    \/ \E k \in Chunk : SweepPool(k) \/ Repair(k) \/ TearBlob(k)
    \/ RollBack
    \/ Wipe

-----------------------------------------------------------------------------
(***************************************************************************)
(* pull_inner.                                                             *)
(***************************************************************************)

EndsAt(p) ==
    /\ phase' = p /\ wire' = None /\ want' = {} /\ todo' = {} /\ moved' = FALSE

Enter(p) == phase' = p /\ UNCHANGED <<wire, todo>>

\* What an apply leaves behind when it does not reach its end.
Scarred == IF phase \in {"apply", "record"} THEN scars \cup {wire} ELSE scars

\* Mutant: the idle check compares the sequences alone.
AlreadyAppliedBySeq ==
    base # None /\ remote # None /\ CurrentHead.seq = remote.seq

\* The idle check.
AlreadyApplied == base # None /\ CurrentHead = remote

\* Without a head, or with the one already applied, the pull ends here.
GetHead ==
    /\ phase = "rest"
    /\ CurrentHead # None /\ ~AlreadyApplied
    /\ phase' = "planning" /\ wire' = CurrentHead
    /\ UNCHANGED <<relay, interrupts, tree, local, want, todo, moved, scars>>

\* Mutant: only files that are new are fetched, not those that changed.
NeededByNew ==
    Refers([p \in Path |-> IF Base[p] = Absent THEN wire.files[p] ELSE Absent])

Needed == Refers([p \in Path |->
              IF p \in Diff(Base, wire.files) THEN wire.files[p] ELSE Absent])

ToFetch == Needed \ Has(store)

\* Fails before anything is applied if the relay cannot serve the head.
Plan ==
    /\ phase = "planning"
    /\ IF ToFetch \subseteq Has(blob)
       THEN Enter("fetching") /\ want' = ToFetch /\ UNCHANGED moved
       ELSE EndsAt("rest")
    /\ UNCHANGED <<relay, interrupts, tree, local, scars>>

\* get_many of one planned batch, and the put of what it brought.
Fetch(batch) ==
    /\ phase = "fetching" /\ batch # {} /\ batch \subseteq want
    /\ \A k \in batch : blob[k] = "good"
    /\ store' = PutAll(store, batch)
    /\ fresh' = fresh \cup batch
    /\ want' = want \ batch
    /\ UNCHANGED <<relay, interrupts, tree, base, remote, phase, wire, todo, moved, scars>>

\* A blob has been swept since, or does not verify: the relay answers 404 and
\* the loop takes it for a lost workspace and ends.
FetchRefused(k) ==
    /\ phase = "fetching" /\ k \in want /\ blob[k] # "good"
    /\ blob' = Get(blob, k)
    /\ EndsAt("fatal")
    /\ UNCHANGED <<rows, commits, losses, interrupts, tree, local, scars>>

Interrupted == interrupts < MaxInterrupts /\ interrupts' = interrupts + 1

\* A request fails in a way that is retried.
RequestLost ==
    /\ Interrupted /\ phase \in {"planning", "fetching"}
    /\ EndsAt("rest")
    /\ UNCHANGED <<relay, tree, local, scars>>

StartApply ==
    /\ phase = "fetching" /\ want = {}
    /\ phase' = "apply" /\ todo' = Diff(Base, wire.files) /\ moved' = (todo' # {})
    /\ UNCHANGED <<relay, interrupts, tree, local, wire, want, scars>>

\* Deletes before writes, the work tree before .git.
Turn(p) ==
    (IF p \in GitPath THEN 2 ELSE 0) + (IF wire.files[p] = Absent THEN 0 ELSE 1)

InTurn(p) == phase = "apply" /\ p \in todo /\ \A q \in todo : Turn(p) <= Turn(q)

ApplyPath(p) ==
    /\ InTurn(p)
    /\ \A k \in Chunks(wire.files[p]) : store[k] = "good"
    /\ disk' = [disk EXCEPT ![p] = wire.files[p]]
    /\ todo' = todo \ {p}
    /\ UNCHANGED <<relay, interrupts, synced, base, remote, store, fresh,
                   phase, wire, want, moved, scars>>

\* A chunk does not verify: the apply ends between two files.
ApplyFails(p) ==
    /\ InTurn(p)
    /\ \E k \in Chunks(wire.files[p]) :
          store[k] # "good" /\ store' = Get(store, k)
    /\ scars' = Scarred
    /\ EndsAt("rest")
    /\ UNCHANGED <<relay, interrupts, tree, base, remote, fresh>>

\* The group flush, then manifest.json.
CommitBase ==
    /\ phase = "apply" /\ todo = {}
    /\ synced' = [p \in Path |->
                     IF p \in Diff(Base, wire.files) THEN disk[p] ELSE synced[p]]
    /\ base' = wire.files
    /\ Enter("record")
    /\ UNCHANGED <<relay, interrupts, disk, remote, store, fresh, want, moved, scars>>

\* remote.json; the interrupted applies of this head are now made good.
Record ==
    /\ phase = "record"
    /\ remote' = wire
    /\ scars' = IF scars \subseteq {wire} THEN {} ELSE scars
    /\ IF moved THEN Enter("sweep") /\ UNCHANGED <<want, moved>>
       ELSE EndsAt("rest")
    /\ UNCHANGED <<relay, interrupts, tree, base, store, fresh>>

\* sweep_unreferenced; it may fail half-way.
SweepStore(ks) ==
    /\ phase = "sweep"
    /\ ks \subseteq Has(store) \ Refers(wire.files)
    /\ store' = [k \in Chunk |-> IF k \in ks THEN "none" ELSE store[k]]
    /\ fresh' = fresh \ ks
    /\ EndsAt("rest")
    /\ UNCHANGED <<relay, interrupts, tree, base, remote, scars>>

\* The process ends; whoever supervises it starts it again.
Crash ==
    /\ Interrupted
    /\ scars' = Scarred
    /\ EndsAt("rest")
    /\ UNCHANGED <<relay, tree, local>>

PowerLoss(t, s) ==
    /\ Interrupted
    /\ \A p \in Path : \/ t[p] \in {disk[p], synced[p]}
                       \/ t[p] = Torn /\ disk[p] \notin {synced[p], Absent}
    /\ \A k \in Chunk : k \notin fresh => s[k] = store[k]
    /\ disk' = t /\ synced' = t /\ store' = s
    /\ fresh' = {}
    /\ scars' = Scarred
    /\ EndsAt("rest")
    /\ UNCHANGED <<relay, base, remote>>

OnDisk == [Path -> Content \cup {Absent, Torn}]
ChunkFiles == [Chunk -> {"none", "good", "torn"}]

Advance ==
    \/ GetHead \/ Plan \/ StartApply \/ CommitBase \/ Record
    \/ \E ks \in SUBSET Chunk : Fetch(ks) \/ SweepStore(ks)
    \/ \E k \in Chunk : FetchRefused(k)
    \/ \E p \in Path : ApplyPath(p) \/ ApplyFails(p)

Interrupt ==
    \/ RequestLost
    \/ Crash
    \/ \E t \in OnDisk, s \in ChunkFiles : PowerLoss(t, s)

Next == Relay \/ Advance \/ Interrupt

Spec == Init /\ [][Next]_vars

\* The loop keeps pulling, and a writer whose tree the pool has lost a chunk
\* of pushes again; nothing obliges the collector.
FairSpec ==
    Spec /\ WF_vars(Advance) /\ WF_vars(\E k \in Chunk : Repair(k))

-----------------------------------------------------------------------------
(***************************************************************************)
(* Properties.                                                             *)
(***************************************************************************)

\* Every variable has its type, and no more rows are kept than HEAD_KEEP.
TypeOK ==
    /\ rows \in Seq(Row) /\ Len(rows) <= HeadKeep
    /\ blob \in ChunkFiles /\ store \in ChunkFiles /\ fresh \subseteq Chunk
    /\ commits \in 0..MaxCommits /\ losses \in 0..MaxLosses
    /\ interrupts \in 0..MaxInterrupts
    /\ disk \in OnDisk /\ synced \in OnDisk
    /\ base \in Files \cup {None} /\ remote \in Row \cup {None}
    /\ phase \in {"rest", "planning", "fetching", "apply", "record", "sweep",
                 "fatal"}
    /\ wire \in Row \cup {None}
    /\ wire = None <=> phase \in {"rest", "fatal"}
    /\ want \subseteq Chunk /\ (want # {} => phase = "fetching")
    /\ todo \subseteq Path /\ (todo # {} => phase = "apply")
    /\ moved \in BOOLEAN
    /\ scars \subseteq Row

\* "Fail before applying anything if the relay's pool cannot serve the head -
\* never mid-apply" (sync.rs:1212): an apply has a file for every chunk it
\* will read, whatever the sweeps of pool and store and the writers did.
NeverMidApply ==
    phase = "apply" =>
        \A p \in todo : Chunks(wire.files[p]) \subseteq Has(store)

\* A pull that reports idle is right: the tree is the relay's head, whatever
\* the relay lost ("every idle check compares seq AND hash", DESIGN.md:1263)
\* and after any interruption, provided the interrupted head was pulled again.
IdleIsHonest ==
    phase = "rest" /\ scars = {} /\ CurrentHead # None /\ AlreadyApplied =>
        disk = CurrentHead.files

\* The mirror ends at the relay's head, unless the relay has lost its heads
\* or the loop has given up on a blob: torn chunks of the local store and
\* lost ones of the pool delay it, they do not wedge it.
CatchesUp == <>[](phase = "fatal" \/ CurrentHead \in {None, remote})

=============================================================================
