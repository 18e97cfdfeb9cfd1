------------------------------ MODULE MCDaemon ------------------------------
(***************************************************************************)
(* Instances of module Daemon for TLC.                                     *)
(***************************************************************************)
EXTENDS Daemon, TLC

PathsAndLoops == Permutations(Path) \cup Permutations(LoopId)
=============================================================================
