------------------------------ MODULE MergeRuns ------------------------------
(***************************************************************************)
(* The merge of module Merge, run as a converge pass runs it, and the      *)
(* properties it owes that pass.                                           *)
(*                                                                         *)
(* One behaviour: some inputs are merged, then the merge is run again as a *)
(* pass interrupted before its push runs it, on the tree the first merge   *)
(* left and with the merged-against head as the base.                      *)
(***************************************************************************)
EXTENDS Merge

CONSTANTS
    Merger,     \* the name of the device that merges
    PassStamp,  \* the conflict stamp of its pass
    Trees       \* sets of manifests from which the three inputs are taken

ASSUME TreesAssumption == \A T \in Trees : \A m \in T : IsTree(m, Entry)

VARIABLES
    ancestor, ours, theirs,     \* the three inputs: base, local, remote
    outcome                     \* the result, and how many merges there were

mergeVars == <<ancestor, ours, theirs, outcome>>

NotYet == [merged |-> Empty, conflicts |-> {}, done |-> 0]

MergeInit ==
    /\ \E T \in Trees : ancestor \in T /\ ours \in T /\ theirs \in T
    /\ outcome = NotYet

Merged(base, local, remote, n) ==
    LET out == Merge3(base, local, remote, Merger, PassStamp)
    IN  [merged |-> out.merged, conflicts |-> out.conflicts, done |-> n]

MergeOnce ==
    /\ outcome.done = 0
    /\ outcome' = Merged(ancestor, ours, theirs, 1)
    /\ UNCHANGED <<ancestor, ours, theirs>>

\* materialize made the tree equal to the merge and recorded the remote head
\* as the base; the head has not moved.
MergeAgain ==
    /\ outcome.done = 1
    /\ ours' = outcome.merged
    /\ ancestor' = theirs
    /\ outcome' = Merged(theirs, outcome.merged, theirs, 2)
    /\ UNCHANGED theirs

MergeNext == MergeOnce \/ MergeAgain

MergeSpec == MergeInit /\ [][MergeNext]_mergeVars

-----------------------------------------------------------------------------
(***************************************************************************)
(* Properties.                                                             *)
(***************************************************************************)

\* Content e of path p outlives the merge: under its own name or as a copy.
Preserved(p, e) ==
    \/ At(outcome.merged, p) # Absent /\ At(outcome.merged, p).data = e.data
    \/ \E c \in outcome.conflicts : c.path = p /\ c.entry = e

Changed(m, p) == At(m, p) # At(ancestor, p) /\ At(m, p) # Absent

\* merge.rs, "a converge never loses a byte of user data": the content of
\* every file that either side added or changed is in the merged manifest
\* under its path, or in a conflict copy made for that path.
KeepsEveryEdit ==
    outcome.done = 1 =>
        \A p \in MergePaths(ancestor, ours, theirs), m \in {ours, theirs} :
            Changed(m, p) => Preserved(p, m[p])

\* NameSpace: a copy never takes the name of a file or of a directory of
\* either side, two copies never share a name, and a copy of a file under
\* `.git` never enters the manifest that is published.
CopiesAreNew ==
    outcome.done > 0 =>
        \A c \in outcome.conflicts :
            /\ \A p \in DOMAIN ours \cup DOMAIN theirs :
                  c.copy # p /\ c.copy \notin Ancestors(p)
            /\ \A k \in outcome.conflicts : k.copy = c.copy => k = c
            /\ c.localOnly <=> c.copy \notin DOMAIN outcome.merged

\* A pass repeated after a failed push, with the head it merged against as
\* its base, changes nothing and makes no second set of copies.
RetryIsStable ==
    outcome.done = 2 => /\ outcome.merged = ours
                        /\ outcome.conflicts = {}

\* Whichever of two devices publishes first, the same entry ends up under a
\* contested name, except when the two mtimes tie (then the head stands).
OrderDoesNotMatter ==
    outcome.done = 1 =>
        LET other == Merge3(ancestor, theirs, ours, Merger, PassStamp).merged
        IN  \A p \in DOMAIN ours \cup DOMAIN theirs :
               \/ At(outcome.merged, p) = At(other, p)
               \/ /\ At(ours, p) # Absent /\ At(theirs, p) # Absent
                  /\ ours[p].mtime = theirs[p].mtime
                  /\ outcome.merged[p] = theirs[p]

\* The test helper of merge.rs: "merged manifests always validate".
MergedValidates == outcome.done > 0 => Validates(outcome.merged)
=============================================================================
