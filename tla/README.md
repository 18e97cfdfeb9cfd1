# Pear in TLA+

Pear keeps a directory synchronized between devices through a relay. Every
device runs a loop that scans its tree, merges it three ways with the relay's
head, applies the result and publishes it with a compare-and-swap; the relay
keeps a log of heads, a pool of content-addressed chunks shared by all
workspaces, and a garbage collector. This directory specifies those parts in
TLA+, checks them with TLC, and proves every safety property of the checked
specifications with TLAPS.

Contents: [inventory](#inventory), [modules](#modules-and-the-code-they-model),
[runs](#runs), [bounds](#bounds), [fairness](#fairness),
[disagreements with the documentation](#disagreements-with-the-documentation),
[proofs](#proofs), [what is not modelled](#not-modelled), [plan](#plan),
[how to run](#how-to-run).

## Inventory

Paths are below `crates/`.

| component | state it keeps | operations | talks to |
|---|---|---|---|
| three-way merge, `core/src/merge.rs`, `manifest.rs` | none, a pure function | `merge`, `decide`, `NameSpace::claim`, `validate`, `diff` | called by the converge pass |
| converge pass, `core/src/converge.rs`, `apply.rs` | working tree, `.pear/manifest.json` (the base), `.pear/remote.json`, `.pear/conflicts` | `converge_once`, `materialize`, `apply_commit`, `commit` | relay (`get_head`, `put_head`, chunks), scan, merge |
| scan and upload, `core/src/sync.rs`, `scan.rs` | the scan cache (`.pear/manifest.json`), upload buffer, set of chunks known present | `scan`, `scan_build_manifest`, `BatchUploader::upload_file`, `buffer_chunk`, `flush` | relay (`chunks/missing`, `put_many`) |
| relay head log, `relay/src/routes.rs`, `db.rs` | tables `heads`, `snapshots`, `chunk_refs`, all under one mutex | `get_head`, `put_head`, `create_snapshot`, `chunks_missing`, `put_many` | pool, fan-out |
| chunk pool, `core/src/store.rs` | files `chunks/xx/<hash>`, queue of directories to fsync | `put`, `has`, `flush` | relay routes, flusher, collector |
| garbage collector, `relay/src/gc.rs` | none of its own | mark, `gc_rebuild_refs`, `sweep_blobs` | database and pool |
| head feed, `relay/src/lib.rs`, `routes.rs`, `core/src/relay.rs` | broadcast channels, web sockets, hint channel | `notify_head_changed`, `ws_subscribe`, `ws_fanout`, `ws_listen` | companion of the loop, mirror |
| watch loop, `core/src/watch.rs`, `cli/src/loops.rs` | trigger queue, debounce window, retry flag | `watch_loop_with_kicks`, `spawn_head_watcher`, `mirror` | file system events, feed, converge pass |
| daemon, `cli/src/bin/peard.rs`, `daemon.rs` | registry of loops, saved registrations, `LoopControl` | add, remove, restore, shutdown | loops |
| mirror pull, `core/src/sync.rs`, `apply.rs`, `store.rs` | mirror tree, `manifest.json`, `remote.json`, `.pear/store` | `pull_inner`, `plan_fetch_batches`, `apply_commit`, `sweep_unreferenced` | relay (`get_head`, `chunks/missing`, `get_many`) |
| local sync, `core/src/sync.rs` | tree and store of a second directory | `sync_cycle` | none |
| encryption, `core/src/e2e.rs`, `crypto.rs`, `known_keys.rs` | `.pear/workspace_keys` (the ring), `.pear/wrapped_members.json`, `known_keys`, the identities under `keys/` | `rotation_maintenance`, `wrap_maintenance`, `merge_relay_keyring`, `workspace_key_for_reader`, `load_or_create_workspace_keyring` | relay (members, `keys/:user`, `keys/me`), loops, command line |
| teams, roles, tokens, `relay/src/routes.rs`, `db.rs` | tables of users, teams, members, wrapped keys | `team_add_member`, `team_remove_member`, `attach_team`, `require_role`, `put_wrapped_key`, `delete_wrapped_key` | every route |
| command line, `cli/src/main.rs` | none of its own | `keygen`, `trust`, `rekey`, `share`, `snapshot`, `clone`, `join`, `mirror` | all of the above |
| snapshots of clients, `core/src/snapshot.rs` | checkpoints | create, restore, prune | relay |

What is hard, and what would make each part correct:

* **Converge.** Two devices and their users act between any two steps of a
  pass; the process may die or an answer be lost anywhere. Correct means: no
  content disappears that no user replaced; the base of a merge is always a
  state the device and the relay agreed on; a pass merges with exactly the head
  its compare-and-swap submits; conflict copies are made of concurrent edits
  only; no published content goes back; all trees become the head once the users stop.
* **Merge.** Its result must keep every edit, be stable when a failed pass is
  repeated, name the same winner on both devices, and be a tree.
* **Pool.** Uploads happen outside the database mutex, commits and sweeps inside;
  workspaces share chunks. Correct means: every retained row is whole, what is
  uploaded is accepted, garbage goes away, no fsync is forgotten.
* **Triggers.** Events arrive while a pass runs or a queue is drained, hints are
  dropped in six different places. Correct means: nothing is forgotten, and the
  device catches up.
* **Daemon.** Requests, loop threads and the end of the process race; threads
  end in six different ways; a file keeps what clients were told. Correct means:
  one unstopped loop per directory, answers that survive, an honest status, no
  cycle after a fatal error, at most one after a stop, a shutdown that ends and
  that cuts short no cycle it should have waited for.
* **Mirror.** The head moves on, rows and blobs disappear and the machine loses power
  while a pull plans, fetches and applies. Correct means: an apply never lacks a chunk,
  a mirror that reports idle is right, and it catches up.
* **Scan and upload.** The user writes while files are listed and read, timestamps
  are coarse, and a listing, a read, a batch or one entry of it fails. Correct means: the cache
  hides no edit, only chunks the relay confirmed are submitted, a failure
  is not taken for a deletion, and the relay ends up with the tree.
* **Key rings and teams.** A rotation is a dozen relay calls and file writes; passes of
  several devices overlap, die half-way, or work from a ring or a list of members that is
  old, while owners add and remove people and identities change. Correct means: what the
  head and the snapshots are sealed under stays in somebody's ring, a generation in use
  is on its minter's disk, and who is removed gets no later key.
* **Pruning of checkpoints** is in the plan.

`PROJECT.json` lists the hazards, each at its line, with the properties that cover it.

## Modules and the code they model

```
module     refines   instances for TLC   proofs
Merge
MergeRuns            MCMerge             MergeProofs        (extends Merge)
Converge   Folder    MCConverge          ConvergeProofs     (extends Merge, MergeProofs)
RelayPool            MCRelayPool         RelayPoolProofs
Triggers             MCTriggers          TriggersProofs
Daemon               MCDaemon            DaemonProofs
Mirror               MCMirror            MirrorProofs
Uploads              MCUploads           UploadsProofs
Keyring              MCKeyring           KeyringProofs
```

**Merge** translates `merge.rs`. A manifest is a function from paths to entries;
a path is a sequence of components; an entry is `[data, mtime]`, where `data`
stands for chunks, size and mode, which the merge only compares for equality.
`Decide` is the rule table, `Clash` its both-changed case, `Claim` the smallest
free ordinal of a copy's name, `Merge3` the whole function. A copy's name is a
record of its parts, so rendering it is injective: the set of names claimed
earlier in a merge is left out, which is sound as long as two different paths,
devices and stamps render differently. **MergeRuns** runs it on three inputs, and then
once more the way a pass repeated after a failed push does, and states what the results
owe the pass; **MCMerge** gives it every triple of small manifests.

**Converge** models `converge_once` for several devices. `heads` is the relay's
log, `disk` the trees, `kept` the copies under `.pear/conflicts`, `pointer`
`.pear/manifest.json`, `noted` the sequence in `remote.json`, `pass` what a pass
holds in memory. The pass is cut wherever another actor can act:

| action | code |
|---|---|
| `Begin`, `Fetch` | load the base, fix the stamp, `get_head` |
| `ScanAndMerge`, `MergeInvalid` | `scan_build_manifest` (with `UploadFaults`, a failed file keeps its last-good entry), `merge`, `validate` |
| `MakeCopy`, `CopyVanished` | the copies `materialize` makes before the apply |
| `StartApply`, `ApplyPath`, `ApplyBlocked` | `apply_commit`: worktree first, `.git` last, deletes before writes; a directory in the place of a file, or the reverse, stops it |
| `MoveBase` | `apply_commit` stores the fetched head as the base |
| `NothingToPublish`, `Publish`, `LoseRace` | agreement, 200, or 409 and another attempt with the fetched head as the base |
| `NoteHead`, `Commit` | `commit`: `remote.json`, then `manifest.json` |
| `AnswerLost`, `Interrupt` | put_head took effect unseen; the process dies or the pass fails |
| `Save`, `Delete` | the users |

The scan and the merge are one step: a save that a real scan misses half-way is
the same as one just after it. `author` and `gone` are history variables:
which contents an edit was written over, and what users replaced on purpose.

**Folder** is what the devices promise together: one shared folder whose contents
stay within reach until a user overwrites or deletes them and never come back
from nowhere. `Converge!ImplementsFolder` states that Converge implements it, with
`live` mapped to the contents in trees, kept copies, the head and passes in progress.

**RelayPool** models uploads, commits, retention, the flusher and the collector of
one relay. What is atomic is what one holder of the database mutex, or one
file-system call, does: `LookUp` and `Answer` are the two halves of
`chunks_missing`, `PutNew` and `Enqueue` the two halves of `put`, `StartCommit` and
`CommitHead`/`CommitSnapshot` the two ends of a commit whose flush holds the mutex
but not the queue's lock. `Collect` is one whole `run_pool_gc`, which holds the
mutex throughout. `swept` of a push is a history variable: the chunks it had found or stored of which a
sweep then took the file (`Taken`), or the last row through which its caller could read it. Uploads of a push that has already been refused are not
followed further: the client treats the refusal as fatal.

**Triggers** models what makes a device run a pass: the watch loop with its
debounce window and retry timer, the fan-out of commits over a web socket that
may lag, die silently and reconnect, the companion thread's short and long waits,
and the mirror's. A tree is the number of its edits and a head its sequence; a
pass is three steps (fetch, scan, publish).

**Daemon** models `peard` and the life of its loop threads. `registered` is
`Registry.workers`, as the set of its loops; `loop[i]` is the `LoopControl` of a
loop (`stop`, `error`, `inCycle`) with its thread's `phase` and the `body` it runs;
`saved` is `daemon.json`; `promise` is a history variable, what clients were told.

| action | code |
|---|---|
| `Boot`, `Restore`, `Listen` | `run`, `Registry::restore`, the accept loop |
| `Add`, `Remove`, then `Persist` or `PersistFails` | the request, under the registry's lock until `save_state` has succeeded or failed |
| `Shutdown`, `SeeIdle`, `SeeBusy`, `Finish`, `Expire` | `Registry::shutdown`, which polls one control after the other until all were idle or the time is up |
| `Exit`, `Crash` | `exit(0)`, which `serve_conn` reaches after it has given the registry's lock back; the process is killed |
| `Started`, `StartFails`, `GivesUpKey` | what `converge`, `mirror` and `watch_local` do before their first cycle |
| `Retire`, `Wake` | `park_if_done` or `stopped`, on a trigger |
| `EnterCycle`, `EndCycle` | the guard of a cycle; the look at the flag and the mark are two steps |
| `SourceGone`, `ParkFatal`, `ReturnFatal`, `Demote` | the ways a loop ends or becomes a mirror |

Between `shutdown`'s return and `exit(0)` the status is `returned`: the lock is free, and a request that
waited for it is still served. The save of `daemon.json` is one step because it ends in a rename, and the passes
themselves are one long phase: Converge and Triggers model them.

**Mirror** models one read-only mirror and the relay it pulls from. `rows` and `blob`
are the relay's retained heads and pool files; `disk` is the mirror's tree and
`synced` the tree as of the last group flush; `base` is `manifest.json`, `remote`
`remote.json`, `store` the local chunk files, `fresh` the chunks whose data a
power loss can still tear. `wire`, `want` and `todo` are what a pull holds in memory.

| action | code |
|---|---|
| `Commit`, `SweepPool`, `Repair` | `put_head` with its retention, the collector, a writer's push that finds a chunk missing |
| `TearBlob`, `RollBack`, `Wipe` | what a power loss does to a pool blob and to the tail of the WAL; a new data directory |
| `GetHead` | the idle check, by sequence and hash |
| `Plan` | `plan_fetch_batches` and `chunks_missing`; the pull ends here if the relay lacks a chunk |
| `Fetch`, `FetchRefused`, `RequestLost` | `get_many` of a batch, its 404, a request that is retried |
| `StartApply`, `ApplyPath`, `ApplyFails`, `CommitBase` | `apply_commit`, in its order, and the chunk that does not verify |
| `Record`, `SweepStore` | `remote.json`, `sweep_unreferenced` |
| `Crash`, `PowerLoss` | the process or the machine ends; files not flushed are old, new or torn |

The rows are records, so comparing rows is comparing sequence and content hash. `scars`
is a history variable, the heads whose apply was interrupted and not finished since.

**Uploads** models one device from the listing of its tree to the commit of a
manifest. `record` is `manifest.json`, which doubles as the scan cache; `listing`,
`hidden`, `present`, `left`, `open` and `new` are the scan's, `seen` and `pending` the
uploader's. Each file is a sequence of chunks read one by one, so that a write gets under
a read.

| action | code |
|---|---|
| `Begin`, `List` | `started_at`, then the walk (with what it could not read, and what it missed by an error without a path) and the one `has_many` |
| `Reuse` | the cache: same time, settled, chunks present |
| `Open`, `ReadChunk`, `Close` | `upload_file`, `buffer_chunk` and the threshold's `flush`, the new entry |
| `Vanished`, `ReadFails` | an upload that fails, for the file's sake or for that of the batch: the last-good entry is kept |
| `Finish` | the entries below unreadable prefixes are kept |
| `Flush`, `FinalFlushFails` | the last flush of the pass |
| `Publish` | `put_head`, which refuses a manifest with a missing chunk, and `commit` |
| `Interrupt` | a request fails or the process dies |
| `Replace`, `Rewrite`, `Remove`, `Lose`, `Advance` | the user's rename over a file, write into it, removal; the relay's loss of a chunk; time |

The walk is one step and a flush is one step; sizes and modes are all equal, the
worst case for the cache. No other device publishes, so what the scan built is
what is submitted. `reused`, `kept`, `carried` and `lost` are history variables.

**Keyring** models the keys of one end-to-end encrypted workspace. A key is the pair of its
generation and the device that minted it (`KeysAreFresh` proves that this names keys
apart), a ring the sequence of the minters of its generations. `rows` is the relay's table
of wrapped keys: a user's ring and the identity it is wrapped for; `role`, `existed` and
`attached` are the team and the workspace; `ring`, `record` and `pins` are a device's files;
`mem` is the ring a running loop has in memory, `pass` what a rotation pass has. Of the
content only the keys are kept: `head` has the key of the manifest and of each file's chunks.

| action | code |
|---|---|
| `AddMember`, `RemoveMember` | the two team routes; a removal takes the member's rows in the same transaction |
| `Keygen`, `Trust` | `pear user keygen` with the registration of the bundle, `pear trust` |
| `LookUp`, `Create`, `FirstKey`, `Join` | `register_workspace`, then `load_or_create_workspace_keyring` or the user's own row |
| `Rekey`, `Share` | `pear rekey`, `pear share` |
| `ListTeam`, `Merge`, `Mint`, `Delete` | `rotation_maintenance`: who is gone, merge before rotate, the new generation stored, the rows of the departed |
| `ListMembers`, `Put`, `SavePins`, `Finish` | `wrap_maintenance`, one call per member, then the pins if a first sight made them dirty, and the record |
| `Abort` | a call fails or the process dies; what was written stays |
| `Converge`, `Demote`, `Mirror`, `GetKey`, `Clone`, `Snapshot`, `Stop` | the loops and commands that use a ring |

`minted` and `unseen` are history variables: every key there ever was, and for each user the
keys others minted while he had no role.

`MCMerge`, `MCConverge`, `MCRelayPool`, `MCTriggers`, `MCDaemon`, `MCMirror`, `MCUploads` and `MCKeyring`
only give TLC its instances.

Definitions whose comment begins with "Mutant" are variants of the definition they
stand before, each with one plausible bug. No specification uses them: replacing
the original by its variant must make TLC report the property named for it in
`PROJECT.json`, which shows that the property can fail.

## Runs

| run | states | what it shows |
|---|---|---|
| `MCMerge_rules` | all triples over three two-path sets, with colliding copy names and a `.git` file | `KeepsEveryEdit`, `CopiesAreNew`, `RetryIsStable`, `OrderDoesNotMatter` |
| `MCConverge_anytime` | 1.1 M | with saves and deletes at any moment, failed uploads, file-versus-directory trees and a fault: `TypeOK`, `BaseIsPublished`, `MergesTheSubmitted`, `CommitsTheHead` |
| `MCConverge_lossless` | 2.1 M | with deletes at any moment, saves everywhere but between a scan and the end of its apply, and working uploads: `NoByteLost`, `ImplementsFolder`, also across a fault; `ConflictsAreReal` (of users' files), `HeadNeverGoesBack` as long as there is none |
| `MCConverge_live` | 0.2 M | `Convergence`: once the users stop, all trees become and stay the head, also after a fault |
| `MCRelayPool_tenants` | 0.3 M | three writers, two of them racing for one head and one an admin, two workspaces sharing the pool, one of them with a row the collector cannot parse, pushes, snapshots, failed and racing flushes, sweeps, a restart: `PoolTypeOK`, `RowsAreWhole`, `RejectedOnlyAfterSweep`, `NoFlushForgotten`, `Reclaimed` |
| `MCTriggers_nogap` | 0.9 M | edits in passes and windows, lagging, dead and reconnecting sockets, lost fan-outs, failed passes, a demotion: `NoLocalGap`, `NoRemoteGap`, `CaughtUp` |
| `MCDaemon_supervise` | 1.1 M | two directories, two loops per life of the daemon, any number of lives: `TypeOK`, `LoopsAreOwned`, `AcksSurvive`, `HonestStatus`, `WindsDown`, `DrainFinishes`, `ShutdownEnds` |
| `MCMirror_pull` | 0.7 M | commits, sweeps, torn and lost blobs, lost rows, a crash or a power loss during pulls: `NeverMidApply`, `IdleIsHonest`, `CatchesUp` |
| `MCUploads_pass` | 2.2 M | writes under a scan, coarse timestamps, a lost chunk, a failing listing, read, batch or entry: `TypeOK`, `CacheHidesNoEdit`, `NothingUnconfirmed`, `NoFalseDeletion`, `RelayGetsTheTree` |
| `MCKeyring_rotation` | 1.8 M | two users with a device each, changes of role, removals, new identities and pins, joins, rotations, shares, clones and snapshots that overlap and die anywhere: `TypeOK`, `LostOnlyByForks`, `PersistedFirst`, `Cutoff` |
| `MCMerge_nested`, `MCConverge_failed_upload` | few | each finds the violation described [below](#disagreements-with-the-documentation) |

## Bounds

Every bound is a constant in a guard (`MaxEdits`, `MaxFaults`, `MaxAttempts`,
`MaxPushes`, `MaxRestarts`, `MaxHead`, `MaxDrops`, `MaxFails`, `MaxLost`, `MaxCommits`,
`MaxLosses`, `MaxInterrupts`, `MaxClock`, `MaxGen`, `MaxCommands`, `MaxIdentity`). When the
users have used theirs up the loops go on, so nothing deadlocks; only `MCMerge`
stops, after its two merges, and `MCKeyring`, where devices wait for a key that
nobody has a command left to give them.

* *Two devices, two or three edits.* Each edit is a new content. Two edits make
  every case of the rule table that one path has (both changed, edit against
  delete, tie of mtimes), the third one an edit of a winner or of a copy while
  another pass is under way. Three devices change nothing that the head log does
  not already show to each of two.
* *`MaxAttempts = 2`* (32 in the code) so that a pass both retries and gives up.
* *One fault* interrupts any one step; several faults in one run only repeat it,
  because a fault leaves nothing but what is on disk.
* *One stamp*: two passes always collide in the same second, the worst case.
* *`HeadKeep = 1`* (50) so that every commit retires a row. *Two chunks, two
  workspaces, two pushes*: one chunk shared and one not; two pushes race for one head, or
  retire what the other workspace still refers to, and the old row of the second workspace
  is there from the start.
* *`Capacity = 1`* (8) so that the second hint lags. *One edit and one foreign
  head* give two sequences; one of each failure at every moment.

* *Two loops per life, two directories.* Two loops are enough for a directory that
  is removed and added again while its first loop still syncs, and for two
  directories whose requests write each other's registrations. Lives are unbounded.
* *Mirror*: two paths, one of them below `.git`, so that the apply has an order to be
  interrupted in; two contents that share a chunk, so that a sweep and a later head want the same
  one; `HeadKeep = 2` and two commits, so that a head is retired under a pull when the
  loss rolls one back; one loss and one interruption at every moment.
* *Uploads*: two paths, two contents that share a chunk; timestamps of 2 s, as coarse as
  `CACHE_SETTLE_SECS` allows, and a clock of 0..2, so that an edit falls into the tick of a
  recorded entry and the next entry can be settled; `FlushAt = 2` (32 MiB), so that a pass flushes both at
  the threshold and at its end; one edit, one lost chunk, one failure at every moment.

* *Keyring*: two users, so that one can remove, re-add and outlive the other, each with a
  device; six commands are enough for a join, a rotation of each device against the
  other's, or a removal in the middle of one; `MaxGen = 3`, so that a device can be two
  generations behind; two identities per user, one lost and one new.

The theorems hold for all values of these constants that satisfy the modules' assumptions, and
the hypotheses [stated](#proofs) with four theorems about Converge.

## Fairness

* `Converge`: weak fairness of each device's steps. A failed pass is retried by
  the timer of the watch loop, an idle one kicked by the poll, and Triggers
  checks that both happen. Users and faults have none.
* `RelayPool`: requests are answered, time passes (`Age`), the hourly timer fires
  (`Collect`). The flusher needs none for `Reclaimed`. Neither do new pushes.
* `Triggers`: threads run, timers fire, frames arrive. A debounce window that
  new events keep open is closed by `MAX_COALESCE`, hence fairness of
  `WindowCloses` by itself. The reconnection and the long poll are not
  assumed together: `CaughtUp` says that either of them is enough, the hints if none
  is lost with its handler (and no pull of a mirror failed), the poll always.
* `Daemon`: the thread that shuts down runs (`SeeIdle`, `Finish`, `Exit`) and its deadline
  passes (`Expire`; strongly fair, since the control it looks at may be idle for
  moments in between). Loop threads have none: a cycle may hang.
* `Mirror`: the loop keeps pulling (`Advance`), and a writer whose chunk the pool
  lost pushes again (`Repair`), since every scan asks for all its chunks. The
  collector, commits, losses and interruptions have none.
* `Uploads`: the loop keeps passing (`Pass`); the user, time, losses and failures
  have none.

`Keyring` has no liveness property: nothing obliges anybody to rotate or to wrap.

## Disagreements with the documentation

Each is a run that must find its violation.

* **failed_upload.** A file whose upload fails keeps its last-good entry in the
  scan, the merge takes it for unedited, and the remote version overwrites the edit.
* **merge_nested.** One device adds a file, the other a directory of that name:
  the merged manifest has both and does not validate. Every later pass of the
  device fails in the same way. `merge.rs:387`: "merged manifests always validate".

Observations made while modelling that no run states:

* `apply.rs:198` `write_file` renames the remote version over a path without looking at it
  again, so a save between the scan and the rename is gone without a copy, although
  `README.md:77-78` says that a converge never loses a byte. The runs of Converge either
  leave such saves out (`MCConverge_lossless`) or do not check `NoByteLost`.
* A sweep between the upload and the commit of a push deletes the references the upload
  recorded (`db.rs:944`), and the commit is refused with a 400 that the client's loop takes for
  fatal. `DESIGN.md:1374-1375` says that the grace window covers this; it covers
  the blobs only. `RejectedOnlyAfterSweep` is what does hold.
* `apply_commit` computes its work as the difference to the manifest of the last finished
  apply (`apply.rs:99`) and never looks at the tree. When an apply is interrupted and the head
  moves on before the next pull, a file it wrote that the new head lacks, or has as it was
  before, stays in the mirror for good, which reports idle. `DESIGN.md:843` says that
  every row of the crash matrix recovers. `IdleIsHonest` therefore has the proviso `scars = {}`;
  `sync_cycle` computes its work in the same way.
* A last-good entry kept for a file that failed (`sync.rs:214`) is recorded under the start of the
  scan that kept it. An entry that was not settled becomes settled by this, and an edit of the
  same tick and size stays hidden, on file systems with coarse timestamps, from
  then on, although `manifest.rs:18-20` says that it cannot. This is why `CacheHidesNoEdit` and
  `RelayGetsTheTree` except paths in `carried`. The base that an interrupted pass, or one that
  lost the head race, leaves in `manifest.json` has a scan time of another device in the same way.
* The apply sets a file's modification time by its name after the rename (`apply.rs:230-240`):
  an edit in between gets the old time, and the cache does not see it if the size is the same.
* An edit between the listing and the reading of a file gives an entry with the old time and the new
  chunks; the next scan corrects it.
* A flush at the threshold fails on behalf of the file that is being read
  (`sync.rs:349`), which then keeps its last-good entry although it could be read.
* An error that the walk reports without a path is recorded nowhere (`scan.rs:239-241`,
  `315-321`), so the files it hides count as deleted, although `sync.rs:233-236` retains last-good entries
  "so a transient error does not wipe the subtree". `List` misses such files (`s`) without
  putting them into `hidden`, of which `NoFalseDeletion` speaks.
* A file that cannot be uploaded and whose last-good chunks the relay has lost is
  published as deleted until a scan succeeds (`sync.rs:214-219`).
* A blob that is gone between `chunks_missing` and `get_many` is answered with a 404, which the
  mirror's loop takes for a lost workspace and ends (`loops.rs:576-591`), although
  `DESIGN.md:1258-1261` says that the worst case is one window until the writer's next push.

* **Two racing rotations strand content.** `DESIGN.md:1867-1870` says that after a race both
  branches' wraps land on the relay and "later unions carry both keys", so that "content is never
  stranded". A ring has one key per generation and a row one ring, so the later PUT
  replaces the other branch and the next union drops its key: a rekeys and mints generation 2, its
  pass stops before it has wrapped; a takes a snapshot; b rekeys, mints its own
  generation 2 and wraps; a rekeys again, merges, and has lost the key of its snapshot.
  `LostOnlyByForks` says that this is the only way, hence its proviso `NoForks`; TLC finds
  this trace with `MaxCommands = 7` when the proviso is dropped, and the next one with 6. Two devices that join a new workspace at the same
  moment both mint generation 1 (an `id_conflict` counts as created, `relay.rs:444`), with the same end.
* A running loop keeps the ring it started with: after `pear rekey` it goes on sealing under the old
  generation until it is restarted, although `main.rs:973-976` says that the next push encrypts
  under the new one; a mirror that runs does not fetch its row again and cannot open the new head.
* A pass with an older ring replaces newer rows by its own (`put_wrapped_key` does not
  compare), so a member who joins then gets fewer generations than were already out.
* A PUT that was listed before a removal arrives after it and makes the row again; `Cutoff`
  says that it never has a key minted since.
* The record of a pass leaves out members it skipped, since "they never held the keyring"
  (`e2e.rs:768-771`). Who was wrapped for by `pear share`, by a pass that died before its record,
  or before his identity changed did hold it, and his departure does not rotate.
* A reader who joins with `pear join` an encrypted workspace of his team fails at the
  first PUT of the wrap pass, and does not become a mirror as on a plain one (`loops.rs:285-297`).
* Whoever registers the workspace and dies before the first key is stored leaves a workspace that
  nobody has a ring for: the next join finds it registered and waits for a row.
* After a keygen with a new identity, a user's own row does not unwrap, which `merge_relay_keyring`
  takes for an error: his passes that rotate fail until another writer wraps for him.

* A second conflict of one `.git` file within one second takes the first one's
  name under `.pear/conflicts` (`merge.rs:251` reserves manifest names only).
* The device whose `.git` version lost after it had converged sees it unchanged
  since the base and makes no copy, so the other device's copy is the only one.
* An old unreferenced blob that a push has found present may be swept before the
  commit, since `put` does not renew its modification time (`store.rs:321`).
* A commit whose flush finds the queue drained by a flush still running commits
  its row before that fsync is done (`store.rs:244`); `NoFlushForgotten` is what
  does hold.
* After an interrupted pass `ConflictsAreReal` and `HeadNeverGoesBack` do not hold: the
  next pass merges with an older base and may make a copy of what the same user
  replaced, or publish a content again. Nothing is lost (`NoByteLost`).
* Two devices that make a copy of the remote loser in the same second give it one name
  (`merge.rs:247-262` knows only the two sides), and the two contents then race under it as if
  they were two versions of one file, whoever wrote them. With three devices one may so get a
  conflict copy of a copy of his own content. `ConflictsAreReal` is therefore about the files users name.
* A fan-out is lost when the writer's connection closes while its handler awaits
  the commit, and a long wait chosen while connected is not shortened when the
  feed drops. Both are left to the poll.
* A mirror whose pull fails with the feed live has drained its hint and has no
  retry timer (`loops.rs:593`): only the five-minute poll is left, of which
  `DESIGN.md:1178-1182` says that its only job is a hint lost to a relay bug.
* A converge loop that meets a fatal error parks inside its cycle, so its mark stays
  up and every later shutdown waits its full minute, although the comment at
  `loops.rs:118-120` says that shutdown does not wait on a parked thread.
* A shutdown can cut short a cycle that began in the gap between `park_if_done` and
  `enter_cycle`, and any cycle of a loop that was removed before, since it is no longer
  in the registry (`peard.rs:237-239` promises that in-flight cycles finish). What
  holds is `DrainFinishes`, of the moment at which the wait ends.
* `serve_conn` gives the registry's lock back before it exits (`peard.rs:408-411`), so an `add` that
  waited for it is served: its loop is cut at once, in whatever cycle it is in, but its
  registration is saved and comes back at the next start. `AcksSurvive` covers it.
* After remove and add of one directory the old loop may finish its cycle, and begin
  one more, beside the new one: `peard.rs:153-155` calls two loops on one directory
  always a mistake. `LoopsAreOwned` and `WindsDown` say what bounds it.
* A request that failed to write `daemon.json` has still changed the registry, and the
  next successful write of any other request makes it durable.
* A converge or mirror loop whose start-up fails for a passing reason (the relay is not
  reachable when the machine boots) ends with an error and is never retried.

## Proofs

TLAPS checks every theorem for all values of the constants, from the named
assumptions of the modules only (`AbsentAssumption`, `TreesAssumption`, `ConvergeAssumption`,
`PoolAssumption`, `TriggersAssumption`, `MirrorAssumption`, `UploadsAssumption`, and `UsersAssumption`
and `BoundsAssumption` of Keyring); those of Daemon need none. Between them the theorems state
every invariant and action property of the passing runs, and that Converge implements Folder.

Four theorems about Converge have hypotheses of their own, which are named conditions on the constants:

* `Undisturbed` (all four): nobody saves in the phases in which a pass applies, and no upload
  of a single file fails. Both are needed: `MCConverge_failed_upload` loses an edit to a failed upload, and a
  save in that window is overwritten (see the observation about `apply.rs:198`). Deletes
  at any moment, lost races, lost answers and interrupted passes are all allowed.
* `NamesGrow` (all four): `Paths` is a set of files outside `.git`, closed under the names of conflict copies,
  and `Length` gives a copy a longer name than its file has. The length of the rendered text is such a
  `Length`, since `NameSpace::claim` adds the name of a device, a stamp and a number to it. Of a file below `.git` a copy stays on
  one device, where a second conflict within the second takes its name, so these files are left out.
* `PlainNames` (`OnlyRealConflicts` and `HeadOnlyMovesOn`): no user edits a conflict copy, and no file
  has the name of another file's directory. A copy has no single owner (the
  observation about two remote losers), and an apply that stops because a directory is in the way leaves
  a tree that is ahead of its base, as an interrupted pass does.

All files in one directory, with names users chose, satisfy the three.

| theorem | says | argument |
|---|---|---|
| `MergeProofs!MergeKeepsEdits` | whatever either side changed is in the merge or in a conflict copy | the rule table case by case (`DecideKeeps`), then the merged manifest by path |
| `MergeProofs!EveryEditIsKept`, `EveryCopyIsNew`, `RetryChangesNothing`, `EitherOrderAgrees` | all invariants of MergeRuns, for any trees | `MergeInv`, below, and a lemma on `Merge3` for each |
| `ConvergeProofs!TypeCorrect` | `[]TypeOK` | inductive as it stands; one lemma per kind of step, the merge's type from MergeProofs |
| `ConvergeProofs!BaseAlwaysPublished` | `[]BaseIsPublished` | `BaseInv`, below |
| `ConvergeProofs!AlwaysMergesTheSubmitted`, `AlwaysCommitsTheHead` | `[]MergesTheSubmitted`, `[]CommitsTheHead` | the same invariant |
| `ConvergeProofs!NothingIsLost` | `[]NoByteLost` (`NamesGrow`, `Undisturbed`) | `LossInv`, below |
| `ConvergeProofs!DevicesShareOneFolder` | `ImplementsFolder`, under the same hypotheses | initial states and steps map to those of Folder; below |
| `ConvergeProofs!OnlyRealConflicts`, `HeadOnlyMovesOn` | `[]ConflictsAreReal`, `HeadNeverGoesBack` (`NamesGrow`, `Undisturbed`, `PlainNames`) | `LossInv` and `TrackInv`, below |
| `RelayPoolProofs!RefusedOnlyAfterSweep` | `[]RejectedOnlyAfterSweep`: a ready push lacks only chunks that a sweep took from it | `Backed`, below |
| `RelayPoolProofs!FlushForgetsNothing` | `[]NoFlushForgotten` | `OnTheWay`, below |
| `RelayPoolProofs!RowsStayWhole`, `PoolTypeCorrect` | `[]RowsAreWhole`, `[]PoolTypeOK` | `PoolInv`: types, whole rows, and that the chunks of a committing push are in the pool and its mutex excludes the sweep |
| `TriggersProofs!TriggersTypeCorrect` | `[]TypeOK` | inductive; sequences by lemmas on `Append` and `Tail` |
| `TriggersProofs!NoEditForgotten` | `[]NoLocalGap` | inductive with the types: whoever takes the last trigger from the queue puts the loop on its way to a scan |
| `DaemonProofs!DaemonTypeCorrect`, `EveryLoopOwned`, `AnswersSurvive`, `StatusIsHonest`, `StoppedLoopsWindDown`, `ShutdownCutsNothing` | all invariants of Daemon, and `DrainFinishes` | one inductive invariant, below |
| `TriggersProofs!NoHeadForgotten` | `[]NoRemoteGap` | with `FetchesForward`: a pass never fetches a head older than the last one seen, so an echo that is dropped is never the only notice |
| `MirrorProofs!MirrorTypeCorrect`, `NeverStuckMidApply`, `IdleAlwaysHonest` | all invariants of Mirror | one inductive invariant, below |
| `UploadsProofs!UploadsTypeCorrect`, `CacheIsSound`, `SubmitsOnlyConfirmed`, `FailuresDeleteNothing` | all invariants of Uploads | one inductive invariant, below |
| `KeyringProofs!TypeCorrect`, `NothingStranded`, `StoredBeforeUse`, `RemovedStayOut` | all invariants of Keyring | one inductive invariant, below |
| `KeyringProofs!FilesGrow`, `KeysAreFresh`, `TeamsAreOwned` | ring files never lose a generation (`RingsGrow`); no device mints two keys of one generation; a team always has an owner (`TeamIsOwned`) | steps from the same invariant; the last one by the cardinality of the owners |

`BaseInv` is the conjunction of the three statements about Converge together with
the types. `BaseIsPublished` alone is not inductive: `MoveBase` makes the fetched
manifest the base, so the fetched manifest must be a published one, which is
`MergesTheSubmitted`; `Commit` makes the merged manifest the base, which is
published because of `CommitsTheHead`; and both need that the log only grows (`HeadsGrow`).

`MergeInv` says that what is on record is the merge of the inputs, and after the second merge of the
tree the first one left. The rest is about the function: `ClaimIsFree` finds a free ordinal below
one more than the number of names taken (two ordinals give two names, so they cannot all be taken), and `CopiesAreDistinct` that two copies
of one merge differ in their path or their owner; `MergeIsIdempotent` and `DecideIsSymmetric` are the rule table twice.

`LossInv` has to say why a content that is wanted cannot vanish while each device knows only
its own part. A wanted content is `Secure` if it was never published and is in its author's
tree, or if it has an `Anchor`: a path under which the current head has it, under which no later head than the
first to have it was without it, which is the longest it was ever published under,
and such that every device whose base has the content there has it in its tree, there or under
a longer name. So a merge that takes the base's content for unedited drops nothing that is
not also elsewhere, and a conflict moves the anchor to the longer name of the copy, never back; that is what
`Length` is for. `PassKept` carries what the merge secures through the copies and the apply: what is
still to be written is in the merge, what is about to be replaced was in the base or has a copy. The
invariant was checked with TLC before it was proved, on instances with more devices, edits and faults than the run has.

The refinement maps `live` to the contents within reach: trees, kept copies, the head, and what passes hold in
memory. A step of a device maps to a step of the folder that may lose contents nobody wants and
bring in none (`ReachStep` and a lemma for each kind of step); that it loses none that is wanted is
`NoByteLost'`, from the theorem. A save or a delete maps to the folder's edit, for which
`AuthorsGone` says that what a content was written over is already given up.

`TrackInv` says, as long as no pass was interrupted, how far each device is behind (`Tracking`): what its tree has of a
user's file is what the head of its base has there, or an edit of its own that nobody else has
ever had and that nothing was written over yet (`Own`); what its merge has is the remote's or such an edit. What
an own edit was written over was published no later than that base, or is gone from everywhere (`Settled`).
Two versions that race are then an edit of this device and a content published after its base, so neither author had the
other's. A publication puts up either what the head has or an own edit, which is new; together with `NoReturn` (between
two heads with a content there is none without it) and `OneFile` (a content is of one path and
one time) that is `HeadNeverGoesBack`. It uses `LossInv` for what a pass over an undisturbed tree does, and `TodoNamed` (what is still to be
applied has the names of files) with `PlainNames` for an apply that is never blocked. An
interrupted pass breaks `Tracking`, since the tree is then ahead of the base. TLC checked it first as well, also with three
devices, which is how the exception for conflict copies in `ConflictsAreReal` was found.

`Backed` says of every push that the chunks it does not mean to upload, except those a sweep took from it (`Kept`), are
visible once they were looked up, and in the pool as well once it was answered; that is all of them when it is ready. A
sweep that removes one of them puts it into `swept`, by `Taken`, and no other step removes any. `OnTheWay` speaks of
all blobs where `NoFlushForgotten` speaks of those of retained rows: until a restart, every
blob is synced or in the hands of a put, the queue, a drain or a commit.

`PoolInv` is needed because `RowsAreWhole` alone does not say that what `Accepts`
checked still holds when the row is committed: the mutex is held in between, so no sweep
is possible, and the invariant records it.

`Inv` of DaemonProofs is needed as a whole: `Sound` relates a control to its thread
(a late cycle has a stopped control and is past its look at the flag, so a second one
cannot begin; a thread that is not alive has an error or a stop); `Answered` adds to
`AcksSurvive` that the registry with restore's list is `daemon.json` while restore runs,
and that a running request's path has no promise; `Drained` that a control seen idle
by shutdown is stopped, so a cycle it begins later is a late one; `DrainFinishes` is then about one step. `ThreadAdvances` reduces
the eleven steps of a thread to what the rest of the proof needs of them.

`MirrorInv` adds to the types where the tree can differ from the manifest (`TreeInv`: only at
paths the apply in progress has done, or where an interrupted head differs from the base), what
`remote.json` says about the base (`RecordInv`), and that the chunks a pull will read are
in the local store or still on its list (`StoreInv`).

`UploadsInv` adds to the types what each phase has (`PassInv`); that confirmed chunks are in
the pool or were lost since the pass began, and that the chunks of every entry and of
the open file are confirmed or buffered (`ConfirmInv`); that a recorded entry that is settled and
has the time of the file has its content (`RecordInv`), for which the listing and the open file
must be related to the tree in the same way while the scan runs (`ScanInv`, `EntryInv`); and that a listed path is either
still to be done or has an entry (`PresenceInv`). `StampBound` and `WriteIsLater` are the arithmetic: a
write after a scan's start has a time that is not settled for it, because a stamp is less than `Tick`,
and `Tick` is at most `CacheSettle`.

`IInv` of KeyringProofs adds to the types (which say that no row, pass or loop has an empty ring) that a
pass works with the ring on file (`PassesFollow`), without which a later mint could overwrite what
a crash had left there; that every key in use was minted (`KeysKnown`); that the minter of a
generation has one of that number on file (`MintedOnFile`, which the mint's write before
the first relay call establishes and the growth of ring files keeps); that without forks it is the minted one
(`MintersKeep`: two rings that differ at a generation hold two minted keys of it, so a merge
under `NoForks` only extends); and for `Cutoff`, that no pass
that still means to wrap for a user has a key he must not get (`Unknown`), which holds because the list is read after
the mint. `Frames` states once what each action leaves alone, and every lemma on steps uses it.

Only model-checked are the liveness properties `Convergence`, `Reclaimed`, `CaughtUp`, `ShutdownEnds`,
`CatchesUp` and `RelayGetsTheTree`: they rest on fairness, which the prover does not handle. The runs
of Converge also check the hypotheses' exceptions, on small instances: `MCConverge_anytime` has saves during an apply, failed uploads and
file-versus-directory trees, of which only the statements that need no hypothesis are proved.

## Not modelled

* Local sync of two directories and pruning of checkpoints: see the plan.
* In Keyring: the cryptography, bundles without a signature or with a bad one, the legacy key
  file, names and `team/name` references, several teams, the admin. A device runs one pass at a time,
  a ring file is written whole or not at all (the code writes it in place), the two halves of an
  identity change together, and what a converge fetches is left open, so the model allows
  a few more heads than the code. `Nameless` (devices that run without `--name`) is empty in the instance, not in the theorems.
* Power loss is in Mirror only. Elsewhere `Interrupt` and `Restart` lose memory and keep every
  completed write; a lost directory entry of the pool is not modelled.
* In Mirror: edits of the mirror's tree by others, a file where a directory is to be, the
  age grace of the sweeps, decryption. In Uploads: other devices, the strict mode of
  snapshots, the encrypting uploader, the bound on a batch (a batch that is split and fails
  half-way is `SendFails`).
* Ignore rules and the `.env` policy gate: they choose what is in a
  scan. Path rules of `validate` other than file-versus-directory.
* The two writes of `commit` are two steps (`NoteHead`, `Commit`), but what a death between them leaves,
  a new `remote.json` beside an older base, no property tells apart from a death before both: `converge_once`
  loads its base from `manifest.json` alone.
* A loop thread that panics: `spawn_worker` records the errors a loop returns (`peard.rs:326-332`), a
  panic is not among them, and `status` goes on saying that the loop runs. `HonestStatus` is about the other endings.
* The wait of a second shutdown that comes in before the first one's exit.
* Cryptography, chunking, frames, HTTP, TLS, argument parsing, formatting.
* The relay's periodic role check. Two daemons that start at once and both find the
  socket dead. The effect of two loops on one tree.

## Plan

Written so far, the parts that the rest depends on first: Merge, Converge with
Folder, RelayPool, Triggers, Daemon, Mirror, Uploads, Keyring. Next, in this order:

1. **Durability**: power loss for the relay (un-fsynced directories of the pool, WAL tail)
   with the flush-before-commit gate, and for a device's base; every chunk of a committed
   row is synced. An abstract store that RelayPool implements.
2. **Teams**: deletions and role changes against requests in flight; composed with
   Triggers' demotion. In Keyring: a ring file torn by a crash, a second device of one user.
3. **Snapshots**: creation under sweeps, `checkpoints_to_prune` against a reference
   definition, restore over an edited tree.
4. **Local sync** as a second instance of the apply, with both stores.
5. Two daemons that start at once.
6. Proofs: `NoByteLost` for saves at any moment but in the last steps of an apply, instead of
   `SavePhases` as a whole; what of `ConflictsAreReal` holds after an interrupted pass; safety of each new module.

## How to run

```
tlc -config MCConverge_lossless.cfg MCConverge.tla
tlapm ConvergeProofs.tla
```
