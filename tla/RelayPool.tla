----------------------------- MODULE RelayPool -----------------------------
(***************************************************************************)
(* The relay's chunk pool: one content-addressed store of blobs shared by  *)
(* all workspaces, the rows of the database that refer to them, and the    *)
(* pushes, the backstop flusher and the garbage collector that work on     *)
(* both at once (relay/src/routes.rs, db.rs, gc.rs, lib.rs and             *)
(* core/src/store.rs).                                                     *)
(*                                                                         *)
(* Every route takes the one database mutex for its queries; the files of  *)
(* the store are written outside it.  What is atomic below is what one     *)
(* holder of the mutex, or one file-system call, does.                     *)
(***************************************************************************)
EXTENDS Naturals, Sequences, FiniteSets

CONSTANTS
    Chunk, Workspace, Writer,
    Home,           \* Home[u]: the workspace writer u pushes to
    Reads,          \* Reads[u]: the workspaces u is the owner or a member of
    Admins,         \* the writers that use the relay's admin token
    Legacy,         \* workspaces with a row the collector cannot parse
    HeadKeep,       \* HEAD_KEEP
    MaxPushes,      \* bound on the pushes of all writers
    MaxRestarts     \* bound on the restarts of the relay

ASSUME PoolAssumption ==
    /\ Home \in [Writer -> Workspace]
    /\ Reads \in [Writer -> SUBSET Workspace]
    /\ \A u \in Writer : Home[u] \in Reads[u]
    /\ Admins \subseteq Writer /\ Legacy \subseteq Workspace
    /\ HeadKeep \in Nat \ {0} /\ MaxPushes \in Nat /\ MaxRestarts \in Nat

VARIABLES
    blobs,      \* the chunks with a file in the pool
    synced,     \* those whose directory entry has reached the disk
    aged,       \* those whose file is older than the grace window
    queue,      \* LocalStore.pending: chunks put since the queue was drained
    draining,   \* chunks taken from the queue by a flush that still fsyncs
    refs,       \* table chunk_refs
    rows,       \* table heads: per workspace, the retained manifests
    seq,        \* per workspace, the sequence of the current head
    snaps,      \* table snapshots: per workspace, the manifests kept
    push,       \* per writer, the push in progress
    pushes, restarts

poolVars == <<blobs, synced, aged, queue, draining>>
dbVars == <<refs, rows, seq, snaps>>
vars == <<poolVars, dbVars, push, pushes, restarts>>

(***************************************************************************)
(* A push: the chunks of the manifest to be committed, those still to be   *)
(* uploaded, and those stored but not yet recorded in chunk_refs.  `swept' *)
(* is a history variable: what sweeps took from the push since the relay   *)
(* last told it that it need not upload it, or since it stored it.         *)
(***************************************************************************)

Stage == {"idle", "checking", "looking", "uploading", "queueing",
          "ready", "committing", "rejected"}

NoPush ==
    [stage |-> "idle", kind |-> "head", want |-> {}, base |-> 0, todo |-> {},
     chunk |-> {}, stored |-> {}, batch |-> {}, swept |-> {}]

\* The chunks the retained rows of a workspace refer to.
Justified(w) ==
    UNION ({rows[w][i] : i \in DOMAIN rows[w]} \cup snaps[w])

\* The chunks of a push that it does not mean to upload, or not again.
Settled(u) == push[u].want \ push[u].todo

Visible(u, c) == u \in Admins \/ \E w \in Reads[u] : <<w, c>> \in refs

\* The holder of the database mutex across its steps is a committing push.
MutexFree == \A u \in Writer : push[u].stage # "committing"

\* A workspace of an older relay starts with a row whose chunks are recorded
\* in chunk_refs only.
Init ==
    /\ snaps \in [Workspace -> SUBSET {{c} : c \in Chunk}]
    /\ \A w \in Workspace : Cardinality(snaps[w]) = IF w \in Legacy THEN 1 ELSE 0
    /\ rows = [w \in Workspace |-> <<>>]
    /\ seq = [w \in Workspace |-> 0]
    /\ refs = {r \in Workspace \X Chunk : {r[2]} \in snaps[r[1]]}
    /\ blobs = UNION {UNION snaps[w] : w \in Workspace}
    /\ synced = blobs /\ aged = blobs
    /\ queue = {} /\ draining = {}
    /\ push = [u \in Writer |-> NoPush]
    /\ pushes = 0 /\ restarts = 0

-----------------------------------------------------------------------------
(***************************************************************************)
(* The writer's side of a push (converge_once, push_inner, pear snapshot). *)
(***************************************************************************)

\* Some manifest is to be committed, as a head or as a snapshot.
StartPush(u) ==
    /\ push[u].stage = "idle" /\ pushes < MaxPushes
    /\ pushes' = pushes + 1
    /\ \E want \in SUBSET Chunk, kind \in {"head", "snapshot"} :
          push' = [push EXCEPT ![u] =
                     [NoPush EXCEPT !.stage = "checking", !.want = want,
                                    !.kind = kind, !.base = seq[Home[u]]]]
    /\ UNCHANGED <<poolVars, dbVars, restarts>>

\* Mutant: a chunk another workspace uploaded counts as present.
UnseenNone(u) == {}

Unseen(u) == {c \in push[u].want : ~Visible(u, c)}

\* chunks_missing: what the caller may read is looked up under the mutex ...
LookUp(u) ==
    /\ push[u].stage = "checking" /\ MutexFree
    /\ push' = [push EXCEPT ![u] =
                  [@ EXCEPT !.stage = "looking", !.todo = Unseen(u)]]
    /\ UNCHANGED <<poolVars, dbVars, pushes, restarts>>

\* ... and what is in the pool after its release; the rest is missing.
Answer(u) ==
    /\ push[u].stage = "looking"
    /\ LET missing == push[u].todo \cup (push[u].want \ blobs) IN
       push' = [push EXCEPT ![u] =
                  [@ EXCEPT !.stage = "uploading", !.todo = missing,
                            !.swept = push[u].swept \ missing]]
    /\ UNCHANGED <<poolVars, dbVars, pushes, restarts>>

\* LocalStore::put outside the mutex: a chunk that is there is not written
\* again, nor is its modification time renewed.
PutPresent(u) ==
    /\ push[u].stage = "uploading"
    /\ \E c \in push[u].todo \cap blobs :
          push' = [push EXCEPT ![u] =
                     [@ EXCEPT !.todo = push[u].todo \ {c},
                               !.stored = push[u].stored \cup {c}]]
    /\ UNCHANGED <<poolVars, dbVars, pushes, restarts>>

\* The temporary file is renamed first ...
PutNew(u) ==
    /\ push[u].stage = "uploading"
    /\ \E c \in push[u].todo \ blobs :
          /\ blobs' = blobs \cup {c}
          /\ push' = [push EXCEPT ![u] =
                        [@ EXCEPT !.stage = "queueing", !.chunk = {c}]]
    /\ UNCHANGED <<synced, aged, queue, draining, dbVars, pushes, restarts>>

\* ... and then queued for the next flush.
Enqueue(u) ==
    /\ push[u].stage = "queueing"
    /\ queue' = queue \cup push[u].chunk
    /\ push' = [push EXCEPT ![u] =
                  [@ EXCEPT !.stage = "uploading", !.chunk = {},
                            !.todo = push[u].todo \ push[u].chunk,
                            !.stored = push[u].stored \cup push[u].chunk]]
    /\ UNCHANGED <<blobs, synced, aged, draining, dbVars, pushes, restarts>>

\* put_many_chunks records every confirmed chunk, stored or present, of one
\* batch; the push is ready once everything is recorded.
RecordRefs(u) ==
    /\ push[u].stage = "uploading" /\ MutexFree
    /\ push[u].stored # {} \/ push[u].todo = {}
    /\ refs' = refs \cup {<<Home[u], c>> : c \in push[u].stored}
    /\ push' = [push EXCEPT ![u] =
                  [@ EXCEPT !.stored = {},
                            !.stage =
                               IF push[u].todo = {} THEN "ready" ELSE "uploading"]]
    /\ UNCHANGED <<poolVars, rows, seq, snaps, pushes, restarts>>

(***************************************************************************)
(* put_head and create_snapshot hold the mutex from their checks to the    *)
(* commit of the row; the flush in between takes the queue as it finds it. *)
(***************************************************************************)

\* Every chunk of the manifest is in the pool and the caller may read it.
Accepts(u) == \A c \in push[u].want : c \in blobs /\ Visible(u, c)

Stale(u) == push[u].kind = "head" /\ push[u].base # seq[Home[u]]

\* 400: the manifest references chunks that are not in the pool, which the
\* client takes for a condition no retry can help.
Reject(u) ==
    /\ push[u].stage = "ready" /\ MutexFree /\ ~Accepts(u)
    /\ push' = [push EXCEPT ![u] = [@ EXCEPT !.stage = "rejected"]]
    /\ UNCHANGED <<poolVars, dbVars, pushes, restarts>>

\* 409: another writer's head came first.
Conflict(u) ==
    /\ push[u].stage = "ready" /\ MutexFree /\ Accepts(u) /\ Stale(u)
    /\ push' = [push EXCEPT ![u] = NoPush]
    /\ UNCHANGED <<poolVars, dbVars, pushes, restarts>>

StartCommit(u) ==
    /\ push[u].stage = "ready" /\ MutexFree /\ Accepts(u) /\ ~Stale(u)
    /\ push' = [push EXCEPT ![u] =
                  [@ EXCEPT !.stage = "committing", !.batch = queue]]
    /\ queue' = {}
    /\ UNCHANGED <<blobs, synced, aged, draining, dbVars, pushes, restarts>>

\* Mutant: one row too many is kept.
RetainOneMore(manifests) ==
    SubSeq(manifests,
           IF Len(manifests) > HeadKeep + 1 THEN Len(manifests) - HeadKeep ELSE 1,
           Len(manifests))

\* insert_head keeps the newest HeadKeep rows.
Retain(manifests) ==
    SubSeq(manifests,
           IF Len(manifests) > HeadKeep THEN Len(manifests) - HeadKeep + 1 ELSE 1,
           Len(manifests))

\* Mutant: the commit relies on the references the uploads recorded.
NewRefsNone(u) == {}

NewRefs(u) == {<<Home[u], c>> : c \in push[u].want}

CommitHead(u) ==
    /\ push[u].stage = "committing" /\ push[u].kind = "head"
    /\ synced' = synced \cup (push[u].batch \cap blobs)
    /\ rows' = [rows EXCEPT ![Home[u]] = Retain(Append(@, push[u].want))]
    /\ seq' = [seq EXCEPT ![Home[u]] = @ + 1]
    /\ refs' = refs \cup NewRefs(u)
    /\ push' = [push EXCEPT ![u] = NoPush]
    /\ UNCHANGED <<blobs, aged, queue, draining, snaps, pushes, restarts>>

CommitSnapshot(u) ==
    /\ push[u].stage = "committing" /\ push[u].kind = "snapshot"
    /\ synced' = synced \cup (push[u].batch \cap blobs)
    /\ snaps' = [snaps EXCEPT ![Home[u]] = @ \cup {push[u].want}]
    /\ refs' = refs \cup NewRefs(u)
    /\ push' = [push EXCEPT ![u] = NoPush]
    /\ UNCHANGED <<blobs, aged, queue, draining, rows, seq, pushes, restarts>>

\* Mutant: what a failed flush had taken is not put back.
CommitFailsForgets(u) ==
    /\ push[u].stage = "committing"
    /\ push' = [push EXCEPT ![u] = NoPush]
    /\ UNCHANGED <<poolVars, dbVars, pushes, restarts>>

\* An fsync fails: 500, what was not synced goes back to the queue.
CommitFails(u) ==
    /\ push[u].stage = "committing"
    /\ queue' = queue \cup push[u].batch
    /\ push' = [push EXCEPT ![u] = NoPush]
    /\ UNCHANGED <<blobs, synced, aged, draining, dbVars, pushes, restarts>>

(***************************************************************************)
(* The backstop tick, and the self-flush of a put at 64 pending chunks,    *)
(* take the whole queue and then fsync outside its lock.                   *)
(***************************************************************************)

Drain ==
    /\ queue # {}
    /\ draining' = draining \cup queue
    /\ queue' = {}
    /\ UNCHANGED <<blobs, synced, aged, dbVars, push, pushes, restarts>>

Fsync ==
    /\ draining # {}
    /\ \E done \in SUBSET draining :
          /\ synced' = synced \cup (done \cap blobs)
          /\ queue' = queue \cup (draining \ done)
    /\ draining' = {}
    /\ UNCHANGED <<blobs, aged, dbVars, push, pushes, restarts>>

(***************************************************************************)
(* run_pool_gc, under the mutex from mark to sweep.                        *)
(***************************************************************************)

\* Mutant: missing rows are added, unjustified ones are not deleted.
LiveNothingDropped(w) == {c \in Chunk : <<w, c>> \in refs} \cup Justified(w)

\* A workspace with a row that does not parse is left alone.
LiveSet(w) ==
    IF w \in Legacy THEN {c \in Chunk : <<w, c>> \in refs} ELSE Justified(w)

Rebuilt == {r \in Workspace \X Chunk : r[2] \in LiveSet(r[1])}

Referenced(r) == {c \in Chunk : \E w \in Workspace : <<w, c>> \in r}

\* What the sweep takes of what a push has found or stored: the file, or the
\* last row through which its caller could read it.
Taken(u) ==
    {c \in Settled(u) \cup push[u].chunk :
        /\ push[u].stage # "checking"
        /\ c \in blobs \ blobs' \/ (Visible(u, c) /\ ~Visible(u, c)')}

Collect ==
    /\ MutexFree
    /\ refs' = Rebuilt
    /\ blobs' = blobs \ (aged \ Referenced(refs'))
    /\ synced' = synced \cap blobs'
    /\ aged' = aged \cap blobs'
    /\ push' = [u \in Writer |->
                  [push[u] EXCEPT !.swept = push[u].swept \cup Taken(u)]]
    /\ UNCHANGED <<queue, draining, rows, seq, snaps, pushes, restarts>>

\* The grace window passes, however long the pushes in progress take.  The
\* operating system has long written an aged file.
Age(c) ==
    /\ c \in blobs \ aged
    /\ aged' = aged \cup {c} /\ synced' = synced \cup {c}
    /\ UNCHANGED <<blobs, queue, draining, dbVars, push, pushes, restarts>>

\* The relay stops and starts again: requests and queues are gone.
Restart ==
    /\ restarts < MaxRestarts
    /\ restarts' = restarts + 1
    /\ queue' = {} /\ draining' = {}
    /\ push' = [u \in Writer |-> NoPush]
    /\ UNCHANGED <<blobs, synced, aged, dbVars, pushes>>

-----------------------------------------------------------------------------

Upload(u) ==
    \/ LookUp(u) \/ Answer(u)
    \/ PutPresent(u) \/ PutNew(u) \/ Enqueue(u) \/ RecordRefs(u)

Commit(u) ==
    \/ Reject(u) \/ Conflict(u) \/ StartCommit(u)
    \/ CommitHead(u) \/ CommitSnapshot(u) \/ CommitFails(u)

Next ==
    \/ \E u \in Writer : StartPush(u) \/ Upload(u) \/ Commit(u)
    \/ Drain \/ Fsync \/ Collect \/ Restart
    \/ \E c \in Chunk : Age(c)

Spec == Init /\ [][Next]_vars

\* Requests are answered, time passes, and the hourly timer keeps firing.
Fairness ==
    /\ \A u \in Writer : WF_vars(Upload(u) \/ Commit(u))
    /\ \A c \in Chunk : WF_vars(Age(c))
    /\ WF_vars(Collect)

LiveSpec == Spec /\ Fairness

-----------------------------------------------------------------------------
(***************************************************************************)
(* Properties.                                                             *)
(***************************************************************************)

Retained(w) == {rows[w][i] : i \in DOMAIN rows[w]} \cup snaps[w]

Push ==
    [stage : Stage, kind : {"head", "snapshot"}, want : SUBSET Chunk, base : Nat,
     todo : SUBSET Chunk, chunk : SUBSET Chunk, stored : SUBSET Chunk,
     batch : SUBSET Chunk, swept : SUBSET Chunk]

PoolTypeOK ==
    /\ blobs \subseteq Chunk /\ synced \subseteq blobs /\ aged \subseteq blobs
    /\ queue \subseteq Chunk /\ draining \subseteq Chunk
    /\ refs \subseteq Workspace \X Chunk
    /\ rows \in [Workspace -> Seq(SUBSET Chunk)]
    /\ \A w \in Workspace : Len(rows[w]) <= HeadKeep
    /\ snaps \in [Workspace -> SUBSET SUBSET Chunk]
    /\ seq \in [Workspace -> Nat]
    /\ push \in [Writer -> Push]

\* gc.rs and insert_head: every chunk of every retained head and snapshot is
\* in the pool and visible to the readers of the workspace, whatever other
\* workspaces, uploads, sweeps and restarts do meanwhile.
RowsAreWhole ==
    \A w \in Workspace : \A m \in Retained(w) : \A c \in m :
        c \in blobs /\ <<w, c>> \in refs

\* On the way to the disk: queued, being synced, or renamed by a put that has
\* yet to queue it.
BeingFlushed ==
    queue \cup draining \cup UNION {push[u].batch \cup push[u].chunk : u \in Writer}

\* store.rs flush: no failed fsync, and no flush that races another, forgets a
\* chunk of a retained row before it is on the disk; the queue dies only with
\* the process.
NoFlushForgotten ==
    restarts = 0 =>
        \A w \in Workspace : \A m \in Retained(w) : m \subseteq synced \cup BeingFlushed

\* chunks_missing and put_head agree on what is present: put_head finds every
\* chunk of the manifest except those that a sweep took, file or row, after the
\* push had found or stored them; it refuses no push for another reason.
RejectedOnlyAfterSweep ==
    \A u \in Writer :
        /\ push[u].stage = "ready" =>
             \A c \in push[u].want \ push[u].swept : c \in blobs /\ Visible(u, c)
        /\ push[u].stage = "rejected" => push[u].swept # {}

\* gc.rs: the pool does not grow for ever; what no retained row refers to is
\* eventually deleted, with the rows of chunk_refs that named it.
Reclaimed ==
    <>[](/\ \A w \in Workspace \ Legacy :
               {c \in Chunk : <<w, c>> \in refs} = UNION Retained(w)
         /\ blobs \subseteq Referenced(refs))
=============================================================================
