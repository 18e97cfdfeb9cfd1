------------------------------ MODULE MCKeyring ------------------------------
(***************************************************************************)
(* Instances of Keyring for TLC.                                           *)
(***************************************************************************)
EXTENDS Keyring, TLC

CONSTANTS f, w, a, b

\* The founder's device and a writer's.
TwoUsers == (a :> f) @@ (b :> w)
=============================================================================
