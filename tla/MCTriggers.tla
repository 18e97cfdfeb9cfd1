---------------------------- MODULE MCTriggers ----------------------------
(***************************************************************************)
(* Instances of module Triggers for TLC: one workspace of one device, with *)
(* the bounds the configurations give.                                     *)
(***************************************************************************)
EXTENDS Triggers
=============================================================================
