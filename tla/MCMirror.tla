------------------------------ MODULE MCMirror ------------------------------
(***************************************************************************)
(* Instances of module Mirror for TLC: two contents that share a chunk.    *)
(***************************************************************************)
EXTENDS Mirror, TLC

CONSTANTS a, b, k1, k2

SharedChunk == (a :> {k1, k2}) @@ (b :> {k2})
=============================================================================
