----------------------------- MODULE MCConverge -----------------------------
(***************************************************************************)
(* Instances of module Converge for TLC.                                   *)
(***************************************************************************)
EXTENDS Converge, TLC

CONSTANTS F, X  \* path components

File     == {<<F>>}
Nested   == {<<F>>, <<F, X>>, <<Git, F>>}

Always   == Phase
\* Everywhere but between the scan and the end of the apply.
Between  == {"idle", "fetched", "pushing", "committing"}

DeviceSymmetry == Permutations(Device)
=============================================================================
