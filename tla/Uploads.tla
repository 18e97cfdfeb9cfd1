------------------------------ MODULE Uploads -------------------------------
(***************************************************************************)
(* How one device turns its tree into a manifest whose chunks the relay    *)
(* has: the listing, the scan cache, the reads, and the uploader that      *)
(* batches what they produce (core/src/sync.rs, scan.rs, relay.rs).  The   *)
(* user writes while files are read, the relay loses chunks, and a         *)
(* listing, a read, a batch or one of its entries may fail.                *)
(*                                                                         *)
(* No other device publishes here, so the manifest of a scan is what the   *)
(* pass submits; Converge models what the merge makes of it.  Time is in   *)
(* seconds; the file system's timestamps are multiples of Tick.  All       *)
(* contents have one size and one mode: a change of either is never missed.*)
(***************************************************************************)
EXTENDS Integers, Sequences, FiniteSets

CONSTANTS
    Path,
    Chunk,
    Content,        \* of files, each the sequence of its chunks
    Absent,         \* no file
    None,           \* no file is being read
    Tick,           \* the granularity of timestamps
    CacheSettle,    \* CACHE_SETTLE_SECS
    FlushAt,        \* chunks that make up UPLOAD_FLUSH_BYTES
    MaxClock,       \* bound on time
    MaxEdits,       \* bound on what the user does
    MaxLosses,      \* bound on chunks the relay loses
    MaxFaults       \* bound on failures

ASSUME UploadsAssumption ==
    /\ Content \subseteq Seq(Chunk)
    /\ Absent \notin [data : Seq(Chunk), mtime : Nat]
    /\ None \notin [path : Path, source : Seq(Chunk), read : Seq(Chunk)]
    /\ Tick \in Nat \ {0} /\ CacheSettle \in Nat /\ Tick <= CacheSettle
    /\ FlushAt \in Nat \ {0}
    /\ MaxClock \in Nat /\ MaxEdits \in Nat
    /\ MaxLosses \in Nat /\ MaxFaults \in Nat

VARIABLES
    clock, edits, losses, faults,
    file,       \* the tree
    pool,       \* the chunks the relay has
    record,     \* .pear/manifest.json
    phase,      \* of the pass
    at,         \* when it started
    listing,    \* what the walk found
    hidden,     \* what it could not look at, as far as it is recorded
    present,    \* the chunks of the record that the relay said it has
    left,       \* the files it has not come to yet
    open,       \* the file it is reading
    new,        \* the entries of its manifest
    seen,       \* the chunks the uploader knows to be at the relay
    pending,    \* and those it has buffered
    reused, kept,   \* the paths whose entry is from the cache; or the last-good one
    carried,    \* the paths whose entry in the record was not made by its scan
    lost        \* the chunks the relay has lost since the pass began

world == <<clock, edits, losses, faults>>
scan == <<at, listing, hidden, present, left, open, new>>
uploader == <<seen, pending>>
history == <<reused, kept, carried, lost>>
vars == <<world, file, pool, record, phase, scan, uploader, history>>

-----------------------------------------------------------------------------
(***************************************************************************)
(* Entries and manifests.                                                  *)
(***************************************************************************)

Entry == [data : Seq(Chunk), mtime : Nat]
Files == [Path -> Entry \cup {Absent}]
Manifest == [at : Nat, files : Files]

Empty == [p \in Path |-> Absent]

Chunks(data) == {data[i] : i \in DOMAIN data}
ChunksAt(files, p) == IF files[p] = Absent THEN {} ELSE Chunks(files[p].data)
Refers(files) == UNION {ChunksAt(files, p) : p \in Path}

\* The timestamp the file system gives to a write.
Stamp(t) == t - (t % Tick)

\* The last-good entry of a path, with its content still at the relay.
LastGood(p) == record.files[p] # Absent /\ ChunksAt(record.files, p) \subseteq present

\* Mutant: any recorded time that is not in the future is trusted.
ReusableAtOnce(p) ==
    /\ LastGood(p)
    /\ record.files[p].mtime = listing[p].mtime
    /\ listing[p].mtime <= record.at

\* Whether the scan takes the entry's chunks without reading the file.
Reusable(p) ==
    /\ LastGood(p)
    /\ record.files[p].mtime = listing[p].mtime
    /\ listing[p].mtime + CacheSettle <= record.at

Init ==
    /\ clock = 0 /\ edits = 0 /\ losses = 0 /\ faults = 0
    /\ file \in [Path -> [data : Content, mtime : {0}] \cup {Absent}]
    /\ pool = {}
    /\ record = [at |-> 0, files |-> Empty]
    /\ phase = "idle" /\ at = 0
    /\ listing = Empty /\ hidden = {} /\ present = {} /\ left = {}
    /\ open = None /\ new = Empty
    /\ seen = {} /\ pending = {}
    /\ reused = {} /\ kept = {} /\ carried = {} /\ lost = {}

-----------------------------------------------------------------------------
(***************************************************************************)
(* The user, the relay, time.                                              *)
(***************************************************************************)

Advance ==
    /\ clock < MaxClock /\ clock' = clock + 1
    /\ UNCHANGED <<edits, losses, faults, file, pool, record, phase, scan,
                   uploader, history>>

Edit(p, f) ==
    /\ edits < MaxEdits /\ edits' = edits + 1
    /\ file' = [file EXCEPT ![p] = f]
    /\ UNCHANGED <<clock, losses, faults, pool, record, phase, at, listing,
                   hidden, present, left, new, uploader, history>>

Holds(p) == IF file[p] = Absent THEN Absent ELSE file[p].data

\* Replaces the file by a new one of that name: who reads the old one goes on.
Replace(p, data) ==
    /\ Holds(p) # data
    /\ Edit(p, [data |-> data, mtime |-> Stamp(clock)])
    /\ UNCHANGED open

\* Writes into the file, and under the scan if it reads it.
Rewrite(p, data) ==
    /\ open # None /\ open.path = p
    /\ Holds(p) = open.source /\ data # open.source
    /\ Edit(p, [data |-> data, mtime |-> Stamp(clock)])
    /\ open' = [open EXCEPT !.source = data]

Remove(p) ==
    /\ file[p] # Absent
    /\ Edit(p, Absent)
    /\ UNCHANGED open

\* A sweep, or the loss of a blob.
Lose(k) ==
    /\ losses < MaxLosses /\ losses' = losses + 1
    /\ k \in pool
    /\ pool' = pool \ {k} /\ lost' = lost \cup {k}
    /\ UNCHANGED <<clock, edits, faults, file, record, phase, scan, uploader,
                   reused, kept, carried>>

Fault == faults < MaxFaults /\ faults' = faults + 1

-----------------------------------------------------------------------------
(***************************************************************************)
(* BatchUploader::flush, of the chunks in buf.  It asks for all, sends what*)
(* is missing in one call, and confirms what was there or was stored.      *)
(***************************************************************************)

Flushed(buf) ==
    /\ pool' = pool \cup buf
    /\ seen' = seen \cup buf
    /\ pending' = {}

\* The presence check fails.
AskFails(buf) ==
    /\ UNCHANGED <<pool, seen>>
    /\ pending' = buf

\* Mutant: what a failed call was to send is forgotten.
SendDrops(buf, stored) ==
    /\ pool' = pool \cup stored
    /\ seen' = seen \cup buf
    /\ pending' = {}

\* The call fails after the relay has stored some of its chunks.
SendFails(buf, stored) ==
    /\ pool' = pool \cup stored
    /\ seen' = seen \cup (buf \cap pool)
    /\ pending' = buf \ pool

\* The relay rejects some of its entries.
EntriesFail(buf, bad) ==
    /\ pool' = pool \cup (buf \ bad)
    /\ seen' = seen \cup (buf \ bad)
    /\ pending' = bad

FlushFails(buf) ==
    \/ AskFails(buf)
    \/ \E some \in SUBSET (buf \ pool) :
          \/ SendFails(buf, some)
          \/ some # {} /\ EntriesFail(buf, some)

-----------------------------------------------------------------------------
(***************************************************************************)
(* scan_build_manifest.                                                    *)
(***************************************************************************)

\* A pass that ends leaves nothing in memory.
EndsAt(p) ==
    /\ phase' = p
    /\ listing' = Empty /\ hidden' = {} /\ present' = {} /\ left' = {}
    /\ open' = None /\ new' = Empty /\ at' = 0
    /\ seen' = {} /\ pending' = {}
    /\ reused' = {} /\ kept' = {}

\* Mutant: a pass begins only if a file is newer than the record.
BeginIfNewer ==
    /\ phase = "idle"
    /\ \E p \in Path : file[p] # Absent /\ file[p].mtime + CacheSettle > record.at
    /\ phase' = "walking" /\ at' = clock /\ lost' = {}
    /\ UNCHANGED <<world, file, pool, record, listing, hidden, present, left,
                   open, new, uploader, reused, kept, carried>>

\* The start is noted before anything is looked at.
Begin ==
    /\ phase = "idle"
    /\ phase' = "walking" /\ at' = clock /\ lost' = {}
    /\ UNCHANGED <<world, file, pool, record, listing, hidden, present, left,
                   open, new, uploader, reused, kept, carried>>

\* The walk, and one presence check of all the record's chunks.  What the walk
\* cannot look at is recorded (h), unless its error names no path, as that of
\* a directory read that fails midway: then it is missed silently (s).
List(h, s) ==
    /\ phase = "walking"
    /\ IF h \cup s = {} THEN UNCHANGED faults ELSE Fault
    /\ phase' = "reading"
    /\ listing' = [p \in Path |-> IF p \in h \cup s THEN Absent ELSE file[p]]
    /\ hidden' = h
    /\ left' = {p \in Path \ (h \cup s) : file[p] # Absent}
    /\ present' = Refers(record.files) \cap pool
    /\ UNCHANGED <<clock, edits, losses, file, pool, record, at, open, new,
                   uploader, history>>

Reuse(p) ==
    /\ phase = "reading" /\ open = None /\ p \in left
    /\ Reusable(p)
    /\ left' = left \ {p} /\ reused' = reused \cup {p}
    /\ new' = [new EXCEPT ![p] = record.files[p]]
    /\ UNCHANGED <<world, file, pool, record, phase, at, listing, hidden,
                   present, open, uploader, kept, carried, lost>>

\* Mutant: a file that cannot be read counts as removed.
SkipDrops(p) ==
    /\ left' = left \ {p} /\ open' = None
    /\ UNCHANGED <<new, kept>>

\* "Keep the mirror's last-good entry when its chunks are there."
Skip(p) ==
    /\ left' = left \ {p} /\ open' = None
    /\ IF LastGood(p)
       THEN new' = [new EXCEPT ![p] = record.files[p]] /\ kept' = kept \cup {p}
       ELSE UNCHANGED <<new, kept>>

Open(p) ==
    /\ phase = "reading" /\ open = None /\ p \in left
    /\ ~Reusable(p)
    /\ file[p] # Absent
    /\ open' = [path |-> p, source |-> file[p].data, read |-> <<>>]
    /\ UNCHANGED <<world, file, pool, record, phase, at, listing, hidden,
                   present, left, new, uploader, history>>

\* A file that is gone since the walk cannot be opened.
Vanished(p) ==
    /\ phase = "reading" /\ open = None /\ p \in left
    /\ ~Reusable(p)
    /\ file[p] = Absent
    /\ Skip(p)
    /\ UNCHANGED <<world, file, pool, record, phase, at, listing, hidden,
                   present, uploader, reused, carried, lost>>

More == open # None /\ Len(open.read) < Len(open.source)
NextChunk == open.source[Len(open.read) + 1]

\* Mutant: buffer_chunk does not look at what is confirmed already.
KnownIfPending(k) == k \in pending

Known(k) == k \in seen \cup pending

Full(buf) == Cardinality(buf) >= FlushAt

\* One chunk of the file, into the buffer and with it to the relay once the
\* buffer is full.
ReadChunk ==
    /\ More
    /\ open' = [open EXCEPT !.read = Append(@, NextChunk)]
    /\ LET buf == pending \cup {NextChunk}
       IN CASE Known(NextChunk) -> UNCHANGED <<pool, seen, pending>>
            [] ~Known(NextChunk) /\ ~Full(buf) ->
                  pending' = buf /\ UNCHANGED <<pool, seen>>
            [] ~Known(NextChunk) /\ Full(buf) -> Flushed(buf)
    /\ UNCHANGED <<world, file, record, phase, at, listing, hidden, present,
                   left, new, history>>

\* The file cannot be opened or read, or the flush fails: either way the file is skipped.
ReadFails ==
    /\ open # None
    /\ Fault
    /\ \/ UNCHANGED <<pool, seen, pending>>
       \/ /\ More /\ ~Known(NextChunk)
          /\ Full(pending \cup {NextChunk})
          /\ FlushFails(pending \cup {NextChunk})
    /\ Skip(open.path)
    /\ UNCHANGED <<clock, edits, losses, file, record, phase, at, listing,
                   hidden, present, reused, carried, lost>>

\* The time is the walk's, the chunks are what was read since.
Close ==
    /\ open # None /\ ~More
    /\ new' = [new EXCEPT ![open.path] =
                  [data |-> open.read, mtime |-> listing[open.path].mtime]]
    /\ left' = left \ {open.path} /\ open' = None
    /\ UNCHANGED <<world, file, pool, record, phase, at, listing, hidden,
                   present, uploader, history>>

Retained == {p \in hidden : LastGood(p)}

\* What could not be looked at stays.
Finish ==
    /\ phase = "reading" /\ left = {} /\ open = None
    /\ phase' = "flushing"
    /\ new' = [p \in Path |-> IF p \in Retained THEN record.files[p] ELSE new[p]]
    /\ kept' = kept \cup Retained
    /\ UNCHANGED <<world, file, pool, record, at, listing, hidden, present, left,
                   open, uploader, reused, carried, lost>>

-----------------------------------------------------------------------------
(***************************************************************************)
(* The rest of the pass.                                                   *)
(***************************************************************************)

\* "Buffered chunks go out before any head can reference them."
Flush ==
    /\ phase = "flushing"
    /\ phase' = "publishing"
    /\ Flushed(pending)
    /\ UNCHANGED <<world, file, record, scan, history>>

FinalFlushFails ==
    /\ phase = "flushing" /\ pending # {}
    /\ Fault
    /\ \E some \in SUBSET (pending \ pool) : pool' = pool \cup some
    /\ EndsAt("idle")
    /\ UNCHANGED <<clock, edits, losses, file, record, carried, lost>>

\* Unless the head says it already.  The relay refuses a manifest with a
\* chunk it does not have, and the loop takes that for fatal.
Publish ==
    /\ phase = "publishing"
    /\ IF new = record.files \/ Refers(new) \subseteq pool
       THEN /\ record' = [at |-> at, files |-> new]
            /\ carried' = kept \cup (carried \cap reused)
            /\ EndsAt("idle")
       ELSE /\ EndsAt("fatal")
            /\ UNCHANGED <<record, carried>>
    /\ UNCHANGED <<world, file, pool, lost>>

\* A request fails, or the process dies and is started again.
Interrupt ==
    /\ phase \notin {"idle", "fatal"}
    /\ Fault
    /\ EndsAt("idle")
    /\ UNCHANGED <<clock, edits, losses, file, pool, record, carried, lost>>

Pass ==
    \/ Begin \/ List({}, {}) \/ ReadChunk \/ Close \/ Finish \/ Flush \/ Publish
    \/ \E p \in Path : Reuse(p) \/ Open(p) \/ Vanished(p)

Failure ==
    \/ \E h, s \in SUBSET Path : List(h, s)
    \/ ReadFails
    \/ FinalFlushFails
    \/ Interrupt

User == \E p \in Path :
    Remove(p) \/ \E data \in Content : Replace(p, data) \/ Rewrite(p, data)

Next == User \/ Advance \/ (\E k \in Chunk : Lose(k)) \/ Pass \/ Failure

Spec == Init /\ [][Next]_vars

\* The loop keeps passing.
FairSpec == Spec /\ WF_vars(Pass)

-----------------------------------------------------------------------------
(***************************************************************************)
(* Properties.                                                             *)
(***************************************************************************)

\* Every variable has its type; a chunk is buffered or confirmed, not both.
TypeOK ==
    /\ clock \in 0..MaxClock /\ edits \in 0..MaxEdits
    /\ losses \in 0..MaxLosses /\ faults \in 0..MaxFaults
    /\ file \in Files /\ pool \subseteq Chunk /\ record \in Manifest
    /\ phase \in {"idle", "walking", "reading", "flushing", "publishing", "fatal"}
    /\ at \in 0..MaxClock /\ listing \in Files /\ new \in Files
    /\ hidden \subseteq Path /\ left \subseteq Path /\ present \subseteq Chunk
    /\ open = None \/ open \in [path : left, source : Seq(Chunk), read : Seq(Chunk)]
    /\ seen \subseteq Chunk /\ pending \subseteq Chunk /\ seen \cap pending = {}
    /\ reused \subseteq Path /\ kept \subseteq Path /\ carried \subseteq Path
    /\ lost \subseteq Chunk

\* "Trust a cached chunk list only when [...] a same-tick edit would otherwise
\* go undetected" (sync.rs:14): an entry taken from the cache is what the walk
\* found, unless the record had it from an earlier record (sync.rs:213).
CacheHidesNoEdit ==
    \A p \in reused \ carried : new[p].data = listing[p].data

\* "Only confirmed-present chunks are marked seen" (sync.rs:354), "an error must
\* not suppress a later file sharing the same chunk" (sync.rs:301): whatever
\* failed, each chunk of a manifest that is submitted has been at the relay
\* since the pass began, so that it is refused for a loss and for nothing else.
NothingUnconfirmed ==
    phase = "publishing" => Refers(new) \subseteq pool \cup lost

\* "A transient error does not wipe the subtree" (sync.rs:235): a file that
\* the scan found, or recorded as unreadable, is in the manifest if the relay
\* had its last-good content; absence would delete it on every other device.
\* A file that a walk error without a path hides is not among them.
NoFalseDeletion ==
    phase \in {"flushing", "publishing"} =>
        \A p \in Path :
            (p \in hidden \/ listing[p] # Absent) /\ LastGood(p) => new[p] # Absent

\* An edit of the tick of the entry that was carried over.
MissedByCarry(p) ==
    p \in carried /\ file[p] # Absent /\ file[p].mtime = record.files[p].mtime

\* The relay ends up with the tree and all its chunks, "the writer repairs the
\* pool" (sync.rs:729), unless a chunk was lost between the flush and the commit.
RelayGetsTheTree ==
    <>[](\/ phase = "fatal"
         \/ /\ Refers(record.files) \subseteq pool
            /\ \A p \in Path :
                   \/ MissedByCarry(p)
                   \/ record.files[p] = Absent /\ file[p] = Absent
                   \/ record.files[p] # Absent /\ Holds(p) = record.files[p].data)

=============================================================================
