------------------------------ MODULE Converge ------------------------------
(***************************************************************************)
(* Several devices converge one workspace through a relay                  *)
(* (crates/core/src/converge.rs, with the merge of Merge, the apply of     *)
(* apply.rs, the scan of sync.rs and the head CAS of relay/src/routes.rs). *)
(*                                                                         *)
(* A pass of a device is cut at every point where another actor can move:  *)
(* the head it fetched may be superseded, the user may save a file, the    *)
(* process may die or the pass return an error between any two steps.      *)
(*                                                                         *)
(*   Begin/Retry   load the base, fetch the head                 fetched   *)
(*   ScanAndMerge  scan the tree, merge                          copying   *)
(*   MakeCopy*     preserve the losers that must not be lost     copying   *)
(*   StartApply    diff the tree against the merge               applying  *)
(*   ApplyPath*    write and delete files, `.git` last           applying  *)
(*   MoveBase      .pear/manifest.json := the fetched head       pushing   *)
(*   Publish       compare-and-swap the head; on 409, again      committing*)
(*   Commit*       remote.json, then .pear/manifest.json         idle      *)
(***************************************************************************)
EXTENDS Merge

CONSTANTS
    Device,         \* the devices, by name
    UserPaths,      \* the paths users create and edit
    MTimes,         \* the modification times a save may carry
    Stamps,         \* the seconds a pass may start in
    SavePhases,     \* the phases of a pass during which the user may save
    DeletePhases,   \* the phases of a pass during which the user may delete
    UploadFaults,   \* may the upload of a scanned file fail?
    MaxAttempts,    \* MAX_ATTEMPTS
    MaxEdits,       \* bound on the saves and deletes of all users
    MaxFaults       \* bound on interrupted passes and lost answers

Phase == {"idle", "fetched", "copying", "applying", "pushing", "committing"}

ASSUME ConvergeAssumption ==
    /\ MTimes \subseteq Int
    /\ UploadFaults \in BOOLEAN
    /\ SavePhases \subseteq Phase /\ DeletePhases \subseteq Phase
    /\ MaxAttempts \in Nat \ {0} /\ MaxEdits \in Nat /\ MaxFaults \in Nat

VARIABLES
    heads,      \* the relay: every manifest published, the last one is the head
    disk,       \* per device: the working tree, as a scan would list it
    kept,       \* per device: the copies under .pear/conflicts
    pointer,    \* per device: .pear/manifest.json, the base of the next pass
    noted,      \* per device: the head sequence in remote.json
    pass,       \* per device: the pass in progress
    edits,      \* how many saves and deletes there have been
    faults,     \* how many faults there have been
    author,     \* history: what each saved content was written over
    gone        \* history: the contents some user overwrote or deleted

vars == <<heads, disk, kept, pointer, noted, pass, edits, faults, author, gone>>
history == <<author, gone>>

RelayHead == IF heads = <<>> THEN Empty ELSE heads[Len(heads)]

(***************************************************************************)
(* A pass: what converge_once holds in memory.                             *)
(***************************************************************************)

NoPass ==
    [phase |-> "idle", stamp |-> "none", attempt |-> 0, base |-> Empty,
     remote |-> Empty, seq |-> 0, merged |-> Empty, copies |-> {}, todo |-> {}]

Data(m) == {m[p].data : p \in DOMAIN m}

Without(m, p) == [q \in DOMAIN m \ {p} |-> m[q]]
With(m, p, e) == [q \in DOMAIN m \cup {p} |-> IF q = p THEN e ELSE m[q]]

\* A file can be written at p only if no file is in the way of its
\* directories and p is not itself a directory.
Fits(m, p) ==
    /\ Ancestors(p) \cap DOMAIN m = {}
    /\ \A q \in DOMAIN m : p \notin Ancestors(q)

Init ==
    /\ heads = <<>>
    /\ disk = [d \in Device |-> Empty]
    /\ kept = [d \in Device |-> Empty]
    /\ pointer = [d \in Device |-> Empty]
    /\ noted = [d \in Device |-> 0]
    /\ pass = [d \in Device |-> NoPass]
    /\ edits = 0
    /\ faults = 0
    /\ author = <<>>
    /\ gone = {}

-----------------------------------------------------------------------------
(***************************************************************************)
(* The users.  Each save is a new content: the number of the edit.         *)
(***************************************************************************)

\* All the contents that the content of disk[d][p] was written over, itself
\* included, since the user who edits a file has seen what it holds.
Lineage(d, p) ==
    IF p \in DOMAIN disk[d]
    THEN {disk[d][p].data} \cup author[disk[d][p].data]
    ELSE {}

MayEdit(d, phases) == pass[d].phase \in phases /\ edits < MaxEdits

Save(d, p, t) ==
    /\ MayEdit(d, SavePhases)
    /\ Fits(disk[d], p)
    /\ edits' = edits + 1
    /\ disk' = [disk EXCEPT ![d] = With(@, p, [data |-> edits + 1, mtime |-> t])]
    /\ author' = Append(author, Lineage(d, p))
    /\ gone' = gone \cup Lineage(d, p)
    /\ UNCHANGED <<heads, kept, pointer, noted, pass, faults>>

Delete(d, p) ==
    /\ MayEdit(d, DeletePhases)
    /\ p \in DOMAIN disk[d]
    /\ edits' = edits + 1
    /\ disk' = [disk EXCEPT ![d] = Without(@, p)]
    /\ author' = Append(author, {})
    /\ gone' = gone \cup Lineage(d, p) \cup {edits + 1}
    /\ UNCHANGED <<heads, kept, pointer, noted, pass, faults>>

(***************************************************************************)
(* converge_once.                                                          *)
(***************************************************************************)

\* Mutant: the manifest of the head is taken from .pear, not fetched.
FetchFromDisk(d, base, stamp, attempt) ==
    pass' = [pass EXCEPT ![d] =
                [phase |-> "fetched", stamp |-> stamp, attempt |-> attempt,
                 base |-> base, remote |-> pointer[d], seq |-> Len(heads),
                 merged |-> Empty, copies |-> {}, todo |-> {}]]

Fetch(d, base, stamp, attempt) ==
    pass' = [pass EXCEPT ![d] =
                [phase |-> "fetched", stamp |-> stamp, attempt |-> attempt,
                 base |-> base, remote |-> RelayHead, seq |-> Len(heads),
                 merged |-> Empty, copies |-> {}, todo |-> {}]]

\* The base is read from disk and the stamp fixed once for all attempts.
Begin(d) ==
    /\ pass[d].phase = "idle"
    /\ \E s \in Stamps : Fetch(d, pointer[d], s, 1)
    /\ UNCHANGED <<heads, disk, kept, pointer, noted, edits, faults, history>>

\* scan_build_manifest: a file whose chunks could not be uploaded keeps its
\* last-good entry, or is dropped from this cycle if it has none.
Scan(d, failed) ==
    LET lastGood == failed \cap DOMAIN pointer[d]
    IN  [p \in (DOMAIN disk[d] \ failed) \cup lastGood |->
            IF p \in failed THEN pointer[d][p] ELSE disk[d][p]]

\* Only a file that differs from the base is uploaded.
MayFail(d) ==
    IF UploadFaults
    THEN SUBSET {p \in DOMAIN disk[d] : At(pointer[d], p) # disk[d][p]}
    ELSE {{}}

\* Mutant: local losers are left to the apply, as remote ones are.
CopiesOfGitOnly(conflicts) == {c \in conflicts : c.localOnly}

\* The copies materialize makes itself: of a local loser, from the file on
\* disk; of a loser under .git, on this device only.  Other remote losers
\* are ordinary remote content and are left to the apply.
CopiesToMake(conflicts) == {c \in conflicts : c.side = "local" \/ c.localOnly}

ScanAndMerge(d) ==
    /\ pass[d].phase = "fetched"
    /\ \E failed \in MayFail(d) :
          LET local == Scan(d, failed)
              out   == Merge3(pass[d].base, local, pass[d].remote,
                              d, pass[d].stamp)
          IN  /\ Validates(out.merged)
              /\ pass' = [pass EXCEPT
                    ![d].phase  = "copying",
                    ![d].merged = out.merged,
                    ![d].copies = CopiesToMake(out.conflicts),
                    ![d].todo   = ApplyFromRemote(local, out)]
    /\ UNCHANGED <<heads, disk, kept, pointer, noted, edits, faults, history>>

\* A merge with a file that is also a directory is an error of the pass.
MergeInvalid(d) ==
    /\ pass[d].phase = "fetched"
    /\ \E failed \in MayFail(d) :
          ~Validates(Merge3(pass[d].base, Scan(d, failed), pass[d].remote,
                            d, pass[d].stamp).merged)
    /\ pass' = [pass EXCEPT ![d] = NoPass]
    /\ UNCHANGED <<heads, disk, kept, pointer, noted, edits, faults, history>>

\* copy_local_loser copies the file as it is now, under the mtime of the
\* entry that lost; assemble_local_copy writes the entry itself.
CopyEntry(d, c) ==
    IF c.side = "local" THEN [disk[d][c.path] EXCEPT !.mtime = c.entry.mtime]
                        ELSE c.entry

MakeCopy(d) ==
    /\ pass[d].phase = "copying"
    /\ \E c \in pass[d].copies :
          /\ c.side = "local" => c.path \in DOMAIN disk[d]
          /\ IF c.localOnly
             THEN /\ kept' = [kept EXCEPT ![d] = With(@, c.copy, CopyEntry(d, c))]
                  /\ UNCHANGED disk
             ELSE /\ disk' = [disk EXCEPT ![d] = With(@, c.copy, CopyEntry(d, c))]
                  /\ UNCHANGED kept
          /\ pass' = [pass EXCEPT ![d].copies = @ \ {c}]
    /\ UNCHANGED <<heads, pointer, noted, edits, faults, history>>

\* The loser is no longer on disk: nothing can be copied, the pass fails.
CopyVanished(d) ==
    /\ pass[d].phase = "copying"
    /\ \E c \in pass[d].copies : c.side = "local" /\ c.path \notin DOMAIN disk[d]
    /\ pass' = [pass EXCEPT ![d] = NoPass]
    /\ UNCHANGED <<heads, disk, kept, pointer, noted, edits, faults, history>>

\* Nothing to apply: the base pointer is not moved before the push.
StartApply(d) ==
    /\ pass[d].phase = "copying"
    /\ pass[d].copies = {}
    /\ pass' = [pass EXCEPT ![d].phase =
                   IF pass[d].todo = {} THEN "pushing" ELSE "applying"]
    /\ UNCHANGED <<heads, disk, kept, pointer, noted, edits, faults, history>>

\* apply_commit deletes and writes the worktree, then deletes and writes
\* under .git; the order within a group is left open.
Group(d, p) ==
    (IF IsGitPath(p) THEN 2 ELSE 0)
        + (IF p \in DOMAIN pass[d].merged THEN 1 ELSE 0)

NextPaths(d) ==
    {p \in pass[d].todo : \A q \in pass[d].todo : Group(d, p) <= Group(d, q)}

Deletes(d, p) == p \notin DOMAIN pass[d].merged

ApplyPath(d) ==
    /\ pass[d].phase = "applying"
    /\ \E p \in NextPaths(d) :
          /\ Fits(disk[d], p)
          /\ disk' = [disk EXCEPT ![d] =
                        IF Deletes(d, p) THEN Without(@, p)
                        ELSE With(@, p, pass[d].merged[p])]
          /\ pass' = [pass EXCEPT ![d].todo = @ \ {p}]
    /\ UNCHANGED <<heads, kept, pointer, noted, edits, faults, history>>

\* A file appeared where a directory is needed, or the reverse: the file can
\* neither be written nor removed.
ApplyBlocked(d) ==
    /\ pass[d].phase = "applying"
    /\ \E p \in NextPaths(d) : ~Fits(disk[d], p)
    /\ pass' = [pass EXCEPT ![d] = NoPass]
    /\ UNCHANGED <<heads, disk, kept, pointer, noted, edits, faults, history>>

\* Mutant: the merge, not the fetched head, becomes the base.
MoveBaseToMerge(d) ==
    /\ pass[d].phase = "applying"
    /\ pass[d].todo = {}
    /\ pointer' = [pointer EXCEPT ![d] = pass[d].merged]
    /\ pass' = [pass EXCEPT ![d].phase = "pushing"]
    /\ UNCHANGED <<heads, disk, kept, noted, edits, faults, history>>

MoveBase(d) ==
    /\ pass[d].phase = "applying"
    /\ pass[d].todo = {}
    /\ pointer' = [pointer EXCEPT ![d] = pass[d].remote]
    /\ pass' = [pass EXCEPT ![d].phase = "pushing"]
    /\ UNCHANGED <<heads, disk, kept, noted, edits, faults, history>>

(***************************************************************************)
(* put_head under the relay's mutex: the submitted base sequence must be   *)
(* the current one.                                                        *)
(***************************************************************************)

Agrees(d) == pass[d].merged = pass[d].remote /\ pass[d].seq > 0

\* Mutant: the submitted base sequence is not checked.
CasUnchecked(d) == pass[d].seq <= Len(heads)

CasWins(d) == pass[d].seq = Len(heads)

\* The merge is what the head already holds.
NothingToPublish(d) ==
    /\ pass[d].phase = "pushing" /\ Agrees(d)
    /\ pass' = [pass EXCEPT ![d].phase = "committing"]
    /\ UNCHANGED <<heads, disk, kept, pointer, noted, edits, faults, history>>

\* Mutant: the sequence the relay answers is dropped.
PublishKeepsSeq(d) ==
    /\ pass[d].phase = "pushing" /\ ~Agrees(d) /\ CasWins(d)
    /\ heads' = Append(heads, pass[d].merged)
    /\ pass' = [pass EXCEPT ![d].phase = "committing"]
    /\ UNCHANGED <<disk, kept, pointer, noted, edits, faults, history>>

Publish(d) ==
    /\ pass[d].phase = "pushing" /\ ~Agrees(d) /\ CasWins(d)
    /\ heads' = Append(heads, pass[d].merged)
    /\ pass' = [pass EXCEPT ![d].phase = "committing", ![d].seq = @ + 1]
    /\ UNCHANGED <<disk, kept, pointer, noted, edits, faults, history>>

\* put_head took effect, but the pass did not learn of it.
AnswerLost(d) ==
    /\ pass[d].phase = "pushing" /\ ~Agrees(d) /\ CasWins(d)
    /\ faults < MaxFaults
    /\ faults' = faults + 1
    /\ heads' = Append(heads, pass[d].merged)
    /\ pass' = [pass EXCEPT ![d] = NoPass]
    /\ UNCHANGED <<disk, kept, pointer, noted, edits, history>>

\* Mutants: one attempt too many; the ancestor stays the old base; the
\* sequence of the new head is taken from the answer, its manifest is not
\* fetched.
LoseRaceOnceMore(d) ==
    /\ pass[d].phase = "pushing" /\ ~Agrees(d) /\ ~CasWins(d)
    /\ IF pass[d].attempt <= MaxAttempts
       THEN Fetch(d, pass[d].remote, pass[d].stamp, pass[d].attempt + 1)
       ELSE pass' = [pass EXCEPT ![d] = NoPass]
    /\ UNCHANGED <<heads, disk, kept, pointer, noted, edits, faults, history>>

LoseRaceKeepBase(d) ==
    /\ pass[d].phase = "pushing" /\ ~Agrees(d) /\ ~CasWins(d)
    /\ IF pass[d].attempt < MaxAttempts
       THEN Fetch(d, pass[d].base, pass[d].stamp, pass[d].attempt + 1)
       ELSE pass' = [pass EXCEPT ![d] = NoPass]
    /\ UNCHANGED <<heads, disk, kept, pointer, noted, edits, faults, history>>

LoseRaceKeepHead(d) ==
    /\ pass[d].phase = "pushing" /\ ~Agrees(d) /\ ~CasWins(d)
    /\ pass' = [pass EXCEPT ![d].phase = "fetched", ![d].seq = Len(heads)]
    /\ UNCHANGED <<heads, disk, kept, pointer, noted, edits, faults, history>>

\* 409: the ancestor of the next attempt is the head just merged against.
LoseRace(d) ==
    /\ pass[d].phase = "pushing" /\ ~Agrees(d) /\ ~CasWins(d)
    /\ IF pass[d].attempt < MaxAttempts
       THEN Fetch(d, pass[d].remote, pass[d].stamp, pass[d].attempt + 1)
       ELSE pass' = [pass EXCEPT ![d] = NoPass]
    /\ UNCHANGED <<heads, disk, kept, pointer, noted, edits, faults, history>>

\* commit: remote.json, then the converged manifest.
NoteHead(d) ==
    /\ pass[d].phase = "committing"
    /\ noted[d] # pass[d].seq
    /\ noted' = [noted EXCEPT ![d] = pass[d].seq]
    /\ UNCHANGED <<heads, disk, kept, pointer, pass, edits, faults, history>>

Commit(d) ==
    /\ pass[d].phase = "committing"
    /\ noted[d] = pass[d].seq
    /\ pointer' = [pointer EXCEPT ![d] = pass[d].merged]
    /\ pass' = [pass EXCEPT ![d] = NoPass]
    /\ UNCHANGED <<heads, disk, kept, noted, edits, faults, history>>

\* The process dies, or the pass returns an error (the network, a chunk the
\* relay cannot serve, the disk): what was held in memory is gone.
Interrupt(d) ==
    /\ pass[d].phase # "idle"
    /\ faults < MaxFaults
    /\ faults' = faults + 1
    /\ pass' = [pass EXCEPT ![d] = NoPass]
    /\ UNCHANGED <<heads, disk, kept, pointer, noted, edits, history>>

-----------------------------------------------------------------------------

Step(d) ==
    \/ Begin(d)        \/ ScanAndMerge(d) \/ MergeInvalid(d)
    \/ MakeCopy(d)     \/ CopyVanished(d) \/ StartApply(d)
    \/ ApplyPath(d)    \/ ApplyBlocked(d) \/ MoveBase(d)
    \/ NothingToPublish(d) \/ Publish(d)  \/ LoseRace(d)
    \/ NoteHead(d)     \/ Commit(d)

User(d) ==
    \/ \E p \in UserPaths, t \in MTimes : Save(d, p, t)
    \/ \E p \in DOMAIN disk[d] : Delete(d, p)

Fault(d) == AnswerLost(d) \/ Interrupt(d)

Next == \E d \in Device : Step(d) \/ User(d) \/ Fault(d)

Spec == Init /\ [][Next]_vars

\* Every device's loop keeps running passes: a failed one is retried by a
\* timer, an idle one is kicked by the head watcher's poll.
Fairness == \A d \in Device : WF_vars(Step(d))

LiveSpec == Spec /\ Fairness

-----------------------------------------------------------------------------
(***************************************************************************)
(* Properties.                                                             *)
(***************************************************************************)

\* The entries of the contents saved so far.
Known == [data : 1 .. edits, mtime : Int]

PassOK(x, E) ==
    /\ x = [phase |-> x.phase, stamp |-> x.stamp, attempt |-> x.attempt,
            base |-> x.base, remote |-> x.remote, seq |-> x.seq,
            merged |-> x.merged, copies |-> x.copies, todo |-> x.todo]
    /\ x.phase \in Phase /\ x.attempt \in 0 .. MaxAttempts /\ x.seq \in Nat
    /\ IsManifest(x.base, E) /\ IsManifest(x.remote, E)
    /\ IsManifest(x.merged, E)
    /\ \A c \in x.copies : c.entry \in E

TreesOK(f, E) ==
    f = [d \in Device |-> f[d]] /\ \A d \in Device : IsManifest(f[d], E)

PassesOK(f, E) ==
    f = [d \in Device |-> f[d]] /\ \A d \in Device : PassOK(f[d], E)

HeadsOK(E) ==
    /\ heads \in Seq({heads[i] : i \in DOMAIN heads})
    /\ \A i \in DOMAIN heads : IsManifest(heads[i], E)

HistoryOK ==
    /\ author \in Seq(SUBSET (1 .. edits)) /\ Len(author) = edits
    /\ gone \subseteq 1 .. edits

TypeOK ==
    /\ edits \in 0 .. MaxEdits /\ faults \in 0 .. MaxFaults
    /\ HeadsOK(Known)
    /\ TreesOK(disk, Known) /\ TreesOK(kept, Known) /\ TreesOK(pointer, Known)
    /\ PassesOK(pass, Known)
    /\ noted \in [Device -> Nat]
    /\ HistoryOK

Published == {Empty} \cup {heads[i] : i \in DOMAIN heads}

\* apply_commit, "the last state this device and the relay AGREED on": the
\* base of a merge, on disk or carried to the next attempt, is a manifest
\* the relay has published (or none), whatever was interrupted in between;
\* so an edit that never left the device never reads as unchanged.
BaseIsPublished ==
    \A d \in Device : pointer[d] \in Published /\ pass[d].base \in Published

\* put_head: until it publishes, a pass merges against exactly the head whose
\* sequence its compare-and-swap will submit.
HeadAt(hs, i) == IF i = 0 THEN Empty ELSE hs[i]

MergesTheSubmitted ==
    \A d \in Device :
        pass[d].phase \notin {"idle", "committing"} =>
            /\ pass[d].seq \in 0 .. Len(heads)
            /\ pass[d].remote = HeadAt(heads, pass[d].seq)

\* commit: what a pass records as converged is the head of the sequence it
\* records, although other devices may have published since.
CommitsTheHead ==
    \A d \in Device :
        pass[d].phase = "committing" =>
            /\ pass[d].seq \in DOMAIN heads
            /\ pass[d].merged = heads[pass[d].seq]

\* Where a content can still be found.
Live ==
    Data(RelayHead) \cup UNION {Data(disk[d]) \cup Data(kept[d]) : d \in Device}

\* README.md:77, "A converge never loses a byte of anyone's data": what no
\* user overwrote or deleted is in a tree, in a kept copy or in the head.
NoByteLost == (1 .. edits) \ gone \subseteq Live

Concurrent(x, y) == x \notin author[y] /\ y \notin author[x]

\* Contents a pass holds in memory can still be written out or published.
Reachable ==
    Live \cup UNION {Data(pass[d].remote) \cup Data(pass[d].merged)
                        \cup {c.entry.data : c \in pass[d].copies} : d \in Device}

SharedFolder == INSTANCE Folder WITH live <- Reachable

\* README.md:76-78 as an abstract specification: the devices together behave
\* as one folder that loses no content a user wants, and that brings back
\* none that had disappeared everywhere.
ImplementsFolder == SharedFolder!Spec

\* As long as no pass is interrupted, a pass makes a conflict copy of a user's
\* file only of two edits neither of whose authors had seen the other's: nobody
\* gets a copy of what he himself replaced.  (Not so of the copies: those two
\* devices make of two remote losers may have one name, over which the two
\* contents then race again, whoever wrote them.)
ConflictsAreReal ==
    faults = 0 =>
        \A d \in Device :
            pass[d].phase = "fetched" =>
                \A p \in UserPaths \cap Contested(pass[d].base, disk[d], pass[d].remote) :
                    Concurrent(disk[d][p].data, pass[d].remote[p].data)

\* put_head: as long as no pass is interrupted, no publication puts back under
\* a path a content that an earlier head had there and a later one replaced
\* or removed.
HeadNeverGoesBack ==
    [][faults = 0 =>
        \A p \in UserPaths :
            \/ At(RelayHead', p) \in {At(RelayHead, p), Absent}
            \/ \A i \in DOMAIN heads : At(heads[i], p) # At(RelayHead', p)]_heads

\* Once the users stop, every tree becomes and stays the head.
InSync == \A d \in Device : disk[d] = RelayHead
Convergence == <>[]InSync
=============================================================================
