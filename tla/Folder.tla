------------------------------- MODULE Folder -------------------------------
(***************************************************************************)
(* What the converging devices promise their users together: one shared    *)
(* folder in which a content that was saved stays within reach until a     *)
(* user overwrites or deletes it, and in which synchronization never       *)
(* brings back a content that was already out of reach everywhere.         *)
(*                                                                         *)
(* Contents are numbered by the edit that wrote them.                      *)
(***************************************************************************)
EXTENDS Naturals

VARIABLES
    edits,  \* how many edits there have been
    gone,   \* the contents users overwrote or deleted
    live    \* the contents within reach of some device or of the relay

vars == <<edits, gone, live>>

Wanted == (1 .. edits) \ gone

Init == edits = 0 /\ gone = {} /\ live = {}

\* A save (which makes content edits' live) or a delete (which makes none),
\* over contents the user found in the folder.
Edit ==
    /\ edits' = edits + 1
    /\ \E over \in SUBSET live, none \in SUBSET {edits'} :
          gone' = gone \cup over \cup none
    /\ live' \subseteq live \cup {edits'}
    /\ Wanted' \subseteq live'

\* Housekeeping of the devices: contents that nobody wants may be dropped.
Sync ==
    /\ UNCHANGED <<edits, gone>>
    /\ live' \subseteq live
    /\ Wanted \subseteq live'

Next == Edit \/ Sync

Spec == Init /\ [][Next]_vars
=============================================================================
