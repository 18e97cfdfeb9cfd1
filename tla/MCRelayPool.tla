---------------------------- MODULE MCRelayPool ----------------------------
(***************************************************************************)
(* Instances of module RelayPool for TLC.                                  *)
(***************************************************************************)
EXTENDS RelayPool, TLC

CONSTANTS w1, w2, u1, u2, u3, c1, c2

\* Two writers race for the head of w1 and a third one pushes to w2; u2 is
\* also a reader of w2.
Home3  == u1 :> w1 @@ u2 :> w1 @@ u3 :> w2
Reads3 == u1 :> {w1} @@ u2 :> {w1, w2} @@ u3 :> {w2}

\* Chunks are interchangeable, so it is enough that the old snapshot of w2 has
\* c1.
LegacyInit == Init /\ snaps[w2] = {{c1}}
LegacySpec == LegacyInit /\ [][Next]_vars /\ Fairness
=============================================================================
