------------------------------ MODULE MCMerge ------------------------------
(***************************************************************************)
(* Instances of module MergeRuns for TLC: every triple of small manifests. *)
(***************************************************************************)
EXTENDS MergeRuns

CONSTANTS
    Data, MTimes,   \* the contents and times of the files
    F, X            \* two path components

\* The trees with the given paths.
TreesOver(paths) ==
    {m \in UNION {[qs -> [data : Data, mtime : MTimes]] : qs \in SUBSET paths} :
        Validates(m)}

\* Two ordinary files, one with the name the other's first conflict copy
\* would take; a file under `.git`; and (Nested) a file in a directory that
\* may also be a file.
CopyOfF  == CopyPath(<<F>>, Merger, PassStamp, 1)
Siblings == {TreesOver({<<F>>, CopyOfF}), TreesOver({<<F>>, <<Git, X>>}),
             TreesOver({<<F>>, CopyOfF \o <<X>>})}
Nested   == {TreesOver({<<F>>, <<F, X>>})}
=============================================================================
