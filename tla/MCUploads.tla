----------------------------- MODULE MCUploads ------------------------------
(***************************************************************************)
(* Instances of module Uploads for TLC: contents that share a chunk.       *)
(***************************************************************************)
EXTENDS Uploads

CONSTANTS k1, k2, k3

Overlapping == {<<k1, k2>>, <<k3, k2>>}
=============================================================================
