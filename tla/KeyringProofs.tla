---------------------------- MODULE KeyringProofs ----------------------------
(***************************************************************************)
(* Proofs about Keyring, for any users, devices and bounds.                *)
(***************************************************************************)
EXTENDS Keyring, FiniteSetTheorems, TLAPS

(***************************************************************************)
(* Rings.                                                                  *)
(***************************************************************************)
\* A ring is a function on its generations.
LEMMA RingShape ==
    ASSUME NEW r \in Ring
    PROVE  /\ Len(r) \in 0..MaxGen /\ DOMAIN r = 1..Len(r)
           /\ \A g \in 1..Len(r) : r[g] \in Device
           /\ r = <<>> <=> Len(r) = 0
  BY BoundsAssumption DEF Ring

\* The empty ring has no keys.
LEMMA EmptyRing == <<>> \in Ring /\ Keys(<<>>) = {}
  BY BoundsAssumption DEF Ring, Keys

\* The keys of a ring are keys, and what a key in a ring is.
LEMMA KeysOfRing ==
    ASSUME NEW r \in Ring
    PROVE  /\ Keys(r) \subseteq Key
           /\ \A g, d : <<g, d>> \in Keys(r) <=> g \in 1..Len(r) /\ r[g] = d
  BY RingShape, BoundsAssumption DEF Keys, Key

\* A key is its generation and its minter.
LEMMA KeyPair == \A k \in Key : k = <<k[1], k[2]>> /\ k[1] \in 1..MaxGen /\ k[2] \in Device
  BY DEF Key

\* The newest key of a ring is one of its keys.
LEMMA NewestOfRing ==
    ASSUME NEW r \in Ring, r # <<>>
    PROVE  Newest(r) \in Keys(r) /\ Newest(r) \in Key
  BY RingShape, KeysOfRing DEF Newest, Keys

\* A rotation adds one key, one generation above the others.
LEMMA RotateRing ==
    ASSUME NEW r \in Ring, Len(r) < MaxGen, NEW d \in Device
    PROVE  /\ Rotate(r, d) \in Ring /\ Rotate(r, d) # <<>>
           /\ Len(Rotate(r, d)) = Len(r) + 1
           /\ Newest(Rotate(r, d)) = <<Len(r) + 1, d>>
           /\ <<Len(r) + 1, d>> \in Key
           /\ Keys(Rotate(r, d)) = Keys(r) \cup {<<Len(r) + 1, d>>}
  <1>1. /\ Rotate(r, d) \in Ring /\ Len(Rotate(r, d)) = Len(r) + 1
        /\ Rotate(r, d)[Len(r) + 1] = d
        /\ \A g \in 1..Len(r) : Rotate(r, d)[g] = r[g]
    BY RingShape, BoundsAssumption DEF Rotate, Ring
  <1>2. Rotate(r, d) # <<>> /\ DOMAIN Rotate(r, d) = 1..(Len(r) + 1)
    BY <1>1, RingShape
  <1>3. Newest(Rotate(r, d)) = <<Len(r) + 1, d>>
    BY <1>1 DEF Newest
  <1>4. <<Len(r) + 1, d>> \in Key
    BY RingShape, BoundsAssumption DEF Key
  <1>5. Keys(Rotate(r, d)) = Keys(r) \cup {<<Len(r) + 1, d>>}
    <2>1. 1..(Len(r) + 1) = (1..Len(r)) \cup {Len(r) + 1}
      BY RingShape, BoundsAssumption
    <2>2. Keys(Rotate(r, d)) = {<<g, Rotate(r, d)[g]>> : g \in (1..Len(r)) \cup {Len(r) + 1}}
      BY <1>2, <2>1 DEF Keys
    <2>3. Keys(r) = {<<g, r[g]>> : g \in 1..Len(r)}
      BY RingShape DEF Keys
    <2> QED
      BY <1>1, <2>2, <2>3
  <1> QED
    BY <1>1, <1>2, <1>3, <1>4, <1>5

\* The first rotation makes the ring of generation 1.
LEMMA FirstRing ==
    ASSUME NEW d \in Device
    PROVE  /\ Rotate(<<>>, d) \in Ring /\ Rotate(<<>>, d) # <<>>
           /\ Len(Rotate(<<>>, d)) = 1 /\ Newest(Rotate(<<>>, d)) = <<1, d>>
           /\ <<1, d>> \in Key /\ Keys(Rotate(<<>>, d)) = {<<1, d>>}
  <1>1. <<>> \in Ring /\ Len(<<>>) = 0 /\ Len(<<>>) < MaxGen /\ Keys(<<>>) = {}
    BY EmptyRing, BoundsAssumption
  <1>2. /\ Rotate(<<>>, d) \in Ring /\ Rotate(<<>>, d) # <<>>
        /\ Len(Rotate(<<>>, d)) = Len(<<>>) + 1
        /\ Newest(Rotate(<<>>, d)) = <<Len(<<>>) + 1, d>>
        /\ <<Len(<<>>) + 1, d>> \in Key
        /\ Keys(Rotate(<<>>, d)) = Keys(<<>>) \cup {<<Len(<<>>) + 1, d>>}
    BY Zenon, <1>1, RotateRing
  <1>3. Len(<<>>) + 1 = 1
    BY <1>1
  <1>4. Keys(<<>>) \cup {<<1, d>>} = {<<1, d>>}
    BY <1>1
  <1> QED
    BY Zenon, <1>2, <1>3, <1>4

\* A union is as long as the longer ring, has every key of the other ring,
\* no key that neither has, and all the keys of both if they nowhere differ.
LEMMA UnionRing ==
    ASSUME NEW r \in Ring, NEW s \in Ring
    PROVE  /\ UnionFrom(r, s) \in Ring
           /\ Len(UnionFrom(r, s)) >= Len(r)
           /\ r # <<>> => UnionFrom(r, s) # <<>>
           /\ Keys(UnionFrom(r, s)) \subseteq Keys(r) \cup Keys(s)
           /\ (\A g \in 1..Len(r) : g \in 1..Len(s) => r[g] = s[g])
                  => Keys(r) \subseteq Keys(UnionFrom(r, s))
  <1> DEFINE n == IF Len(r) < Len(s) THEN Len(s) ELSE Len(r)
             m == UnionFrom(r, s)
  <1>1. /\ n \in 0..MaxGen /\ n >= Len(r) /\ n >= Len(s)
        /\ \A g \in 1..n : g \notin 1..Len(s) => g \in 1..Len(r)
    BY RingShape, BoundsAssumption
  <1>2. m = [g \in 1..n |-> IF g \in 1..Len(s) THEN s[g] ELSE r[g]]
    BY RingShape DEF UnionFrom
  <1>3. \A g \in 1..n : m[g] \in Device
    BY <1>1, <1>2, RingShape
  <1>4. m \in Seq(Device) /\ Len(m) = n
    BY <1>1, <1>2, <1>3
  <1>5. m \in Ring /\ Len(m) >= Len(r) /\ (r # <<>> => m # <<>>)
    BY <1>1, <1>4, RingShape DEF Ring
  <1>6. \A k \in Keys(m) : k \in Keys(r) \cup Keys(s)
    BY <1>1, <1>2, <1>4, <1>5, RingShape DEF Keys
  <1>7. ASSUME \A g \in 1..Len(r) : g \in 1..Len(s) => r[g] = s[g]
        PROVE  \A k \in Keys(r) : k \in Keys(m)
    BY <1>7, <1>1, <1>2, <1>4, RingShape DEF Keys
  <1> QED
    BY <1>5, <1>6, <1>7

(***************************************************************************)
(* The inductive invariant.                                                *)
(***************************************************************************)
\* A pass works with the ring on file, finds the team attached once it has
\* listed it, and has someone to wrap for only after its second listing.
PassesFollow ==
    \A d \in Device :
        /\ pass[d].stage # "none" => pass[d].ring = ring[d]
        /\ pass[d].stage \in {"merge", "mint", "delete", "wrap"} => attached
        /\ pass[d].stage # "put" => pass[d].todo = {}

\* Every key in use was minted.
KeysKnown ==
    /\ Needed \subseteq minted
    /\ \A u \in User : Keys(rows[u].ring) \subseteq minted
    /\ \A d \in Device : Held(d) \subseteq minted

\* What was minted, its minter has a generation on file for.
MintedOnFile == \A k \in minted : k[1] <= Len(ring[k[2]])

\* What a user does not know since he lost his role is nowhere he could read
\* it, and no pass that means to wrap for him has it.
Unknown ==
    \A u \in User :
        /\ u \notin Outsiders => unseen[u] = {}
        /\ unseen[u] \subseteq minted
        /\ Keys(rows[u].ring) \cap unseen[u] = {}
        /\ \A d \in Device :
              /\ UserOf[d] = u => Held(d) \cap unseen[u] = {}
              /\ \A t \in pass[d].todo : t.user = u => Keys(pass[d].ring) \cap unseen[u] = {}

\* Without forks a minter keeps what it minted.
MintersKeep == NoForks => \A k \in minted : k \in Keys(ring[k[2]])

IInv == TypeOK /\ PassesFollow /\ KeysKnown /\ MintedOnFile /\ Unknown /\ MintersKeep

(***************************************************************************)
(* Types.                                                                  *)
(***************************************************************************)
RelayTypes == /\ existed \in BOOLEAN /\ attached \in BOOLEAN
              /\ role \in [User -> Role] /\ bundle \in [User -> 0..MaxIdentity]
RowTypes == /\ rows \in [User -> [to : 0..MaxIdentity, ring : Ring]]
            /\ \A u \in User : rows[u] # NoRow => rows[u].ring # <<>>
ContentTypes == /\ head \in [seal : Key \cup {NoKey}, file : [File -> Key \cup {NoKey}]]
                /\ snaps \subseteq Key
LoopTypes == /\ mode \in [Device -> {"off", "creating", "created", "joining", "converging",
                                   "waiting", "mirroring"}]
             /\ mem \in [Device -> Ring]
             /\ \A d \in Device : mode[d] = "converging" => mem[d] # <<>>
LocalTypes == /\ record \in [Device -> SUBSET User]
              /\ pins \in [Device -> [User -> 0..MaxIdentity]]
PassTypes == /\ pass \in [Device -> PassType]
             /\ \A d \in Device : pass[d].stage # "none" => pass[d].ring # <<>>
GhostTypes == minted \subseteq Key /\ unseen \in [User -> SUBSET Key] /\ left \in 0..MaxCommands

\* The parts of the type invariant, proved one at a time.
LEMMA TypeParts ==
    TypeOK <=> /\ RelayTypes /\ RowTypes /\ ContentTypes /\ ring \in [Device -> Ring]
               /\ LoopTypes /\ LocalTypes /\ PassTypes /\ GhostTypes
  BY
     DEF TypeOK, RelayTypes, RowTypes, ContentTypes, LoopTypes, LocalTypes, PassTypes,
         GhostTypes

\* What each action leaves alone.
LEMMA Frames ==
    /\ \A by, u, r : AddMember(by, u, r) => UNCHANGED <<existed, attached, bundle, rows, head,
          snaps, ring, mode, mem, record, pins, pass, minted>>
    /\ \A by, u : RemoveMember(by, u) => UNCHANGED <<existed, attached, bundle, head, snaps,
          ring, mode, mem, record, pins, pass, minted, unseen>>
    /\ \A u : Keygen(u) => UNCHANGED <<existed, attached, role, rows, head, snaps, ring, mode,
          mem, record, pins, pass, minted, unseen>>
    /\ \A d : LookUp(d) => UNCHANGED <<existed, attached, role, bundle, rows, head, snaps, ring,
          mem, record, pins, pass, minted, unseen>>
    /\ \A d : Create(d) => UNCHANGED <<role, bundle, rows, head, snaps, ring, mem, record, pins,
          pass, minted, left>>
    /\ \A d : FirstKey(d) => UNCHANGED <<existed, attached, role, bundle, rows, head, snaps, mem,
          record, pins, left>>
    /\ \A d : Join(d) => UNCHANGED <<existed, role, bundle, rows, head, snaps, mem, record, pins,
          minted>>
    /\ \A d : Rekey(d) => UNCHANGED <<existed, attached, role, bundle, rows, head, snaps, ring,
          mode, mem, record, pins, minted, unseen>>
    /\ \A d : Share(d) => UNCHANGED <<existed, role, bundle, rows, head, snaps, ring, mode, mem,
          record, pins, minted>>
    /\ \A d : ListTeam(d) => UNCHANGED <<existed, attached, role, bundle, rows, head, snaps,
          ring, record, pins, minted, unseen, left>>
    /\ \A d : Merge(d) => UNCHANGED <<existed, attached, role, bundle, rows, head, snaps, mode,
          mem, record, pins, minted, unseen, left>>
    /\ \A d : Mint(d) => UNCHANGED <<existed, attached, role, bundle, rows, head, snaps, mode,
          mem, record, pins, left>>
    /\ \A d : ListMembers(d) => UNCHANGED <<existed, attached, role, bundle, rows, head, snaps,
          ring, mode, mem, record, pins, minted, unseen, left>>
    /\ \A d : SavePins(d) => UNCHANGED <<existed, attached, role, bundle, rows, head, snaps,
          ring, mode, mem, record, minted, unseen, left>>
    /\ \A d : Finish(d) => UNCHANGED <<existed, attached, role, bundle, rows, head, snaps, ring,
          pins, minted, unseen, left>>
    /\ \A d : Abort(d) => UNCHANGED <<existed, attached, role, bundle, rows, head, snaps, ring,
          mem, record, pins, minted, unseen, left>>
    /\ \A d : Demote(d) => UNCHANGED <<existed, attached, role, bundle, rows, head, snaps, ring,
          record, pins, pass, minted, unseen, left>>
    /\ \A d : Mirror(d) => UNCHANGED <<existed, attached, role, bundle, rows, head, snaps, ring,
          mem, record, pins, pass, minted, unseen>>
    /\ \A d : GetKey(d) => UNCHANGED <<existed, attached, role, bundle, rows, head, snaps,
          record, pins, pass, minted, unseen, left>>
    /\ \A d : Clone(d) => UNCHANGED <<existed, attached, role, bundle, rows, head, snaps, mode,
          mem, record, pins, pass, minted, unseen>>
    /\ \A d : Snapshot(d) => UNCHANGED <<existed, attached, role, bundle, rows, head, ring, mode,
          mem, record, pins, pass, minted, unseen>>
    /\ \A d : Stop(d) => UNCHANGED <<existed, attached, role, bundle, rows, head, snaps, ring,
          record, pins, pass, minted, unseen, left>>
    /\ \A d, u : Trust(d, u) => UNCHANGED <<existed, attached, role, bundle, rows, head, snaps,
          ring, mode, mem, record, pass, minted, unseen>>
    /\ \A d, u : Delete(d, u) => UNCHANGED <<existed, attached, role, bundle, head, snaps, ring,
          mode, mem, record, pins, minted, unseen, left>>
    /\ \A d, t : Put(d, t) => UNCHANGED <<existed, attached, role, bundle, head, snaps, ring,
          mode, mem, record, pins, minted, unseen, left>>
    /\ \A d, edited : Converge(d, edited) => UNCHANGED <<existed, attached, role, bundle, rows,
          snaps, ring, mode, mem, record, pins, pass, minted, unseen, left>>
  <1>1. \A by, u, r : AddMember(by, u, r) => UNCHANGED <<existed, attached, bundle, rows,
         head, snaps, ring, mode, mem, record, pins, pass, minted>>
    BY DEF AddMember, relayVars, content, loopVars, local, ghosts, history
  <1>2. \A by, u : RemoveMember(by, u) => UNCHANGED <<existed, attached, bundle, head,
         snaps, ring, mode, mem, record, pins, pass, minted, unseen>>
    BY DEF RemoveMember, relayVars, content, loopVars, local, ghosts, history
  <1>3. \A u : Keygen(u) => UNCHANGED <<existed, attached, role, rows, head, snaps, ring,
         mode, mem, record, pins, pass, minted, unseen>>
    BY DEF Keygen, relayVars, content, loopVars, local, ghosts, history
  <1>4. \A d : LookUp(d) => UNCHANGED <<existed, attached, role, bundle, rows, head, snaps,
         ring, mem, record, pins, pass, minted, unseen>>
    BY DEF LookUp, relayVars, content, loopVars, local, ghosts, history
  <1>5. \A d : Create(d) => UNCHANGED <<role, bundle, rows, head, snaps, ring, mem, record,
         pins, pass, minted, left>>
    BY DEF Create, relayVars, content, loopVars, local, ghosts, history
  <1>6. \A d : FirstKey(d) => UNCHANGED <<existed, attached, role, bundle, rows, head,
         snaps, mem, record, pins, left>>
    BY DEF FirstKey, relayVars, content, loopVars, local, ghosts, history
  <1>7. \A d : Join(d) => UNCHANGED <<existed, role, bundle, rows, head, snaps, mem, record,
         pins, minted>>
    BY DEF Join, relayVars, content, loopVars, local, ghosts, history
  <1>8. \A d : Rekey(d) => UNCHANGED <<existed, attached, role, bundle, rows, head, snaps,
         ring, mode, mem, record, pins, minted, unseen>>
    BY DEF Rekey, relayVars, content, loopVars, local, ghosts, history
  <1>9. \A d : Share(d) => UNCHANGED <<existed, role, bundle, rows, head, snaps, ring, mode,
         mem, record, pins, minted>>
    BY DEF Share, relayVars, content, loopVars, local, ghosts, history
  <1>10. \A d : ListTeam(d) => UNCHANGED <<existed, attached, role, bundle, rows, head,
         snaps, ring, record, pins, minted, unseen, left>>
    BY DEF ListTeam, relayVars, content, loopVars, local, ghosts, history
  <1>11. \A d : Merge(d) => UNCHANGED <<existed, attached, role, bundle, rows, head, snaps,
         mode, mem, record, pins, minted, unseen, left>>
    BY DEF Merge, relayVars, content, loopVars, local, ghosts, history
  <1>12. \A d : Mint(d) => UNCHANGED <<existed, attached, role, bundle, rows, head, snaps,
         mode, mem, record, pins, left>>
    BY DEF Mint, relayVars, content, loopVars, local, ghosts, history
  <1>13. \A d : ListMembers(d) => UNCHANGED <<existed, attached, role, bundle, rows, head,
         snaps, ring, mode, mem, record, pins, minted, unseen, left>>
    BY DEF ListMembers, relayVars, content, loopVars, local, ghosts, history
  <1>14. \A d : SavePins(d) => UNCHANGED <<existed, attached, role, bundle, rows, head,
         snaps, ring, mode, mem, record, minted, unseen, left>>
    BY DEF SavePins, relayVars, content, loopVars, local, ghosts, history
  <1>15. \A d : Finish(d) => UNCHANGED <<existed, attached, role, bundle, rows, head, snaps,
         ring, pins, minted, unseen, left>>
    BY DEF Finish, relayVars, content, loopVars, local, ghosts, history
  <1>16. \A d : Abort(d) => UNCHANGED <<existed, attached, role, bundle, rows, head, snaps,
         ring, mem, record, pins, minted, unseen, left>>
    BY DEF Abort, relayVars, content, loopVars, local, ghosts, history
  <1>17. \A d : Demote(d) => UNCHANGED <<existed, attached, role, bundle, rows, head, snaps,
         ring, record, pins, pass, minted, unseen, left>>
    BY DEF Demote, relayVars, content, loopVars, local, ghosts, history
  <1>18. \A d : Mirror(d) => UNCHANGED <<existed, attached, role, bundle, rows, head, snaps,
         ring, mem, record, pins, pass, minted, unseen>>
    BY DEF Mirror, relayVars, content, loopVars, local, ghosts, history
  <1>19. \A d : GetKey(d) => UNCHANGED <<existed, attached, role, bundle, rows, head, snaps,
         record, pins, pass, minted, unseen, left>>
    BY DEF GetKey, relayVars, content, loopVars, local, ghosts, history
  <1>20. \A d : Clone(d) => UNCHANGED <<existed, attached, role, bundle, rows, head, snaps,
         mode, mem, record, pins, pass, minted, unseen>>
    BY DEF Clone, relayVars, content, loopVars, local, ghosts, history
  <1>21. \A d : Snapshot(d) => UNCHANGED <<existed, attached, role, bundle, rows, head,
         ring, mode, mem, record, pins, pass, minted, unseen>>
    BY DEF Snapshot, relayVars, content, loopVars, local, ghosts, history
  <1>22. \A d : Stop(d) => UNCHANGED <<existed, attached, role, bundle, rows, head, snaps,
         ring, record, pins, pass, minted, unseen, left>>
    BY DEF Stop, relayVars, content, loopVars, local, ghosts, history
  <1>23. \A d, u : Trust(d, u) => UNCHANGED <<existed, attached, role, bundle, rows, head,
         snaps, ring, mode, mem, record, pass, minted, unseen>>
    BY DEF Trust, relayVars, content, loopVars, local, ghosts, history
  <1>24. \A d, u : Delete(d, u) => UNCHANGED <<existed, attached, role, bundle, head, snaps,
         ring, mode, mem, record, pins, minted, unseen, left>>
    BY DEF Delete, relayVars, content, loopVars, local, ghosts, history
  <1>25. \A d, t : Put(d, t) => UNCHANGED <<existed, attached, role, bundle, head, snaps,
         ring, mode, mem, record, pins, minted, unseen, left>>
    BY DEF Put, relayVars, content, loopVars, local, ghosts, history
  <1>26. \A d, edited : Converge(d, edited) => UNCHANGED <<existed, attached, role, bundle,
         rows, snaps, ring, mode, mem, record, pins, pass, minted, unseen, left>>
    BY DEF Converge, relayVars, content, loopVars, local, ghosts, history
  <1> QED
    BY <1>1, <1>2, <1>3, <1>4, <1>5, <1>6, <1>7, <1>8, <1>9, <1>10, <1>11, <1>12, <1>13,
       <1>14, <1>15, <1>16, <1>17, <1>18, <1>19, <1>20, <1>21, <1>22, <1>23, <1>24,
       <1>25, <1>26

\* The relay's members, roles and bundles.
LEMMA RelayStep == TypeOK /\ [Next]_vars => RelayTypes'
  <1> SUFFICES ASSUME TypeOK, [Next]_vars PROVE RelayTypes'
    OBVIOUS
  <1>1. ASSUME NEW by \in User, NEW u \in User, NEW r \in Role \ {"none"}, AddMember(by, u,
               r)
        PROVE  RelayTypes'
    BY <1>1, UsersAssumption, BoundsAssumption, TypeParts
       DEF AddMember, Role, Attach, CanAttach, relayVars, content, loopVars, local, ghosts,
           history, RelayTypes
  <1>2. ASSUME NEW by \in User, NEW u \in User, RemoveMember(by, u)
        PROVE  RelayTypes'
    BY <1>2, UsersAssumption, BoundsAssumption, TypeParts
       DEF RemoveMember, Role, Attach, CanAttach, relayVars, content, loopVars, local,
           ghosts, history, RelayTypes
  <1>3. ASSUME NEW u \in User, Keygen(u)
        PROVE  RelayTypes'
    BY <1>3, UsersAssumption, BoundsAssumption, TypeParts
       DEF Keygen, Role, Attach, CanAttach, relayVars, content, loopVars, local, ghosts,
           history, RelayTypes
  <1>4. ASSUME NEW d \in Device, Create(d)
        PROVE  RelayTypes'
    BY <1>4, UsersAssumption, BoundsAssumption, TypeParts
       DEF Create, Role, Attach, CanAttach, relayVars, content, loopVars, local, ghosts,
           history, RelayTypes
  <1>5. ASSUME NEW d \in Device, Join(d)
        PROVE  RelayTypes'
    BY <1>5, UsersAssumption, BoundsAssumption, TypeParts
       DEF Join, Role, Attach, CanAttach, relayVars, content, loopVars, local, ghosts,
           history, RelayTypes
  <1>6. ASSUME NEW d \in Device, Share(d)
        PROVE  RelayTypes'
    BY <1>6, UsersAssumption, BoundsAssumption, TypeParts
       DEF Share, Role, Attach, CanAttach, relayVars, content, loopVars, local, ghosts,
           history, RelayTypes
  <1>7. ASSUME existed' = existed /\ attached' = attached /\ role' = role /\ bundle' =
               bundle
        PROVE  RelayTypes'
    BY <1>7, TypeParts DEF RelayTypes
  <1>8. CASE UNCHANGED vars
    BY <1>7, <1>8 DEF vars, relayVars, content, loopVars, local, ghosts, history
  <1>9. CASE Next
    BY Zenon, <1>1, <1>2, <1>3, <1>4, <1>5, <1>6, <1>7, <1>9, Frames DEF Next
  <1> QED
    BY <1>8, <1>9

\* A row that is written has a ring.
LEMMA RowStep == TypeOK /\ [Next]_vars => RowTypes'
  <1> SUFFICES ASSUME TypeOK, [Next]_vars PROVE RowTypes'
    OBVIOUS
  <1>1. ASSUME NEW by \in User, NEW u \in User, RemoveMember(by, u)
        PROVE  RowTypes'
    BY <1>1, EmptyRing, BoundsAssumption, TypeParts DEF RemoveMember, NoRow, RowTypes
  <1>2. ASSUME NEW d \in Device, NEW u \in User, Delete(d, u)
        PROVE  RowTypes'
    BY <1>2, EmptyRing, BoundsAssumption, TypeParts DEF Delete, NoRow, RowTypes
  <1>3. ASSUME NEW d \in Device, NEW t \in pass[d].todo, Put(d, t)
        PROVE  RowTypes'
    <2>1. /\ pass[d].ring \in Ring /\ pass[d].ring # <<>>
          /\ t.user \in User /\ t.id \in 0..MaxIdentity
      BY <1>3, TypeParts, BoundsAssumption DEF Put, At, PassTypes, PassType
    <2> QED
      BY <1>3, <2>1, TypeParts DEF Put, NoRow, RowTypes
  <1>4. ASSUME rows' = rows
        PROVE  RowTypes'
    BY <1>4, TypeParts DEF RowTypes
  <1>5. CASE UNCHANGED vars
    BY <1>4, <1>5 DEF vars, relayVars, content, loopVars, local, ghosts, history
  <1>6. CASE Next
    BY Zenon, <1>1, <1>2, <1>3, <1>4, <1>6, Frames DEF Next
  <1> QED
    BY <1>5, <1>6

\* Content is sealed under the newest key of a ring that is not empty.
LEMMA ContentStep == TypeOK /\ [Next]_vars => ContentTypes'
  <1> SUFFICES ASSUME TypeOK, [Next]_vars PROVE ContentTypes'
    OBVIOUS
  <1>1. ASSUME NEW d \in Device, Snapshot(d)
        PROVE  ContentTypes'
    <2>1. Newest(ring[d]) \in Key
      BY <1>1, TypeParts, NewestOfRing DEF Snapshot
    <2> QED
      BY <1>1, <2>1, TypeParts DEF Snapshot, ContentTypes, content
  <1>2. ASSUME NEW d \in Device, NEW edited \in SUBSET File, Converge(d, edited)
        PROVE  ContentTypes'
    <2>1. Newest(mem[d]) \in Key
      BY <1>2, TypeParts, NewestOfRing DEF Converge, LoopTypes
    <2> QED
      BY <1>2, <2>1, TypeParts DEF Converge, ContentTypes
  <1>3. ASSUME head' = head /\ snaps' = snaps
        PROVE  ContentTypes'
    BY <1>3, TypeParts DEF ContentTypes
  <1>4. CASE UNCHANGED vars
    BY <1>3, <1>4 DEF vars, relayVars, content, loopVars, local, ghosts, history
  <1>5. CASE Next
    BY Zenon, <1>1, <1>2, <1>3, <1>5, Frames DEF Next
  <1> QED
    BY <1>4, <1>5

\* A device only ever stores rings.
LEMMA RingStep == TypeOK /\ [Next]_vars => ring' \in [Device -> Ring]
  <1> SUFFICES ASSUME TypeOK, [Next]_vars PROVE ring' \in [Device -> Ring]
    OBVIOUS
  <1>1. ASSUME NEW d \in Device, FirstKey(d)
        PROVE  ring' \in [Device -> Ring]
    BY <1>1, FirstRing, TypeParts DEF FirstKey
  <1>2. ASSUME NEW d \in Device, Join(d)
        PROVE  ring' \in [Device -> Ring]
    BY <1>2, TypeParts, UsersAssumption DEF Join, RowTypes
  <1>3. ASSUME NEW d \in Device, Merge(d)
        PROVE  ring' \in [Device -> Ring]
    <2>1. /\ pass[d].ring \in Ring /\ rows[UserOf[d]].ring \in Ring
      BY TypeParts, UsersAssumption DEF PassTypes, PassType, RowTypes
    <2> QED
      BY <1>3, <2>1, UnionRing, TypeParts DEF Merge
  <1>4. ASSUME NEW d \in Device, Mint(d)
        PROVE  ring' \in [Device -> Ring]
    <2>1. pass[d].ring \in Ring
      BY TypeParts DEF PassTypes, PassType
    <2> QED
      BY <1>4, <2>1, RotateRing, TypeParts DEF Mint
  <1>5. ASSUME NEW d \in Device, GetKey(d)
        PROVE  ring' \in [Device -> Ring]
    BY <1>5, TypeParts, UsersAssumption DEF GetKey, RowTypes
  <1>6. ASSUME NEW d \in Device, Clone(d)
        PROVE  ring' \in [Device -> Ring]
    BY <1>6, TypeParts, UsersAssumption DEF Clone, RowTypes
  <1>7. ASSUME ring' = ring
        PROVE  ring' \in [Device -> Ring]
    BY <1>7, TypeParts
  <1>8. CASE UNCHANGED vars
    BY <1>7, <1>8 DEF vars, relayVars, content, loopVars, local, ghosts, history
  <1>9. CASE Next
    BY Zenon, <1>1, <1>2, <1>3, <1>4, <1>5, <1>6, <1>7, <1>9, Frames DEF Next
  <1> QED
    BY <1>8, <1>9

\* A loop starts with a ring.
LEMMA LoopStep == TypeOK /\ [Next]_vars => LoopTypes'
  <1> SUFFICES ASSUME TypeOK, [Next]_vars PROVE LoopTypes'
    OBVIOUS
  <1>1. ASSUME NEW d \in Device, LookUp(d)
        PROVE  LoopTypes'
    BY <1>1, TypeParts DEF LookUp, loopVars, LoopTypes
  <1>2. ASSUME NEW d \in Device, Create(d)
        PROVE  LoopTypes'
    BY <1>2, TypeParts DEF Create, loopVars, LoopTypes
  <1>3. ASSUME NEW d \in Device, FirstKey(d)
        PROVE  LoopTypes'
    BY <1>3, TypeParts DEF FirstKey, loopVars, LoopTypes
  <1>4. ASSUME NEW d \in Device, Join(d)
        PROVE  LoopTypes'
    BY <1>4, TypeParts DEF Join, loopVars, LoopTypes
  <1>5. ASSUME NEW d \in Device, ListTeam(d)
        PROVE  LoopTypes'
    <2>1. pass[d].ring \in Ring /\ pass[d].ring # <<>>
      BY <1>5, TypeParts DEF ListTeam, At, PassTypes, PassType
    <2> QED
      BY <1>5, <2>1, TypeParts DEF ListTeam, LoopTypes, loopVars
  <1>6. ASSUME NEW d \in Device, Finish(d)
        PROVE  LoopTypes'
    <2>1. pass[d].ring \in Ring /\ pass[d].ring # <<>>
      BY <1>6, TypeParts DEF Finish, At, PassTypes, PassType
    <2> QED
      BY <1>6, <2>1, TypeParts DEF Finish, LoopTypes, loopVars
  <1>7. ASSUME NEW d \in Device, Abort(d)
        PROVE  LoopTypes'
    BY <1>7, TypeParts DEF Abort, loopVars, LoopTypes
  <1>8. ASSUME NEW d \in Device, Demote(d)
        PROVE  LoopTypes'
    BY <1>8, TypeParts DEF Demote, loopVars, LoopTypes
  <1>9. ASSUME NEW d \in Device, Mirror(d)
        PROVE  LoopTypes'
    BY <1>9, TypeParts DEF Mirror, loopVars, LoopTypes
  <1>10. ASSUME NEW d \in Device, GetKey(d)
        PROVE  LoopTypes'
    <2>1. ring'[d] \in Ring
      BY <1>10, TypeParts, UsersAssumption DEF GetKey, RowTypes
    <2> QED
      BY <1>10, <2>1, TypeParts DEF GetKey, LoopTypes
  <1>11. ASSUME NEW d \in Device, Stop(d)
        PROVE  LoopTypes'
    BY <1>11, EmptyRing, TypeParts DEF Stop, LoopTypes
  <1>12. ASSUME mode' = mode /\ mem' = mem
        PROVE  LoopTypes'
    BY <1>12, TypeParts DEF LoopTypes
  <1>13. CASE UNCHANGED vars
    BY <1>12, <1>13 DEF vars, relayVars, content, loopVars, local, ghosts, history
  <1>14. CASE Next
    BY Zenon, <1>1, <1>2, <1>3, <1>4, <1>5, <1>6, <1>7, <1>8, <1>9, <1>10, <1>11, <1>12,
       <1>14, Frames
       DEF Next
  <1> QED
    BY <1>13, <1>14

\* Pins and records name users and the identities they have.
LEMMA LocalStep == TypeOK /\ [Next]_vars => LocalTypes'
  <1> SUFFICES ASSUME TypeOK, [Next]_vars PROVE LocalTypes'
    OBVIOUS
  <1>1. ASSUME NEW d \in Device, SavePins(d)
        PROVE  LocalTypes'
    BY <1>1, TypeParts DEF SavePins, LocalTypes, PassTypes, PassType
  <1>2. ASSUME NEW d \in Device, Finish(d)
        PROVE  LocalTypes'
    BY <1>2, TypeParts DEF Finish, LocalTypes, PassTypes, PassType
  <1>3. ASSUME NEW d \in Device, NEW u \in User, Trust(d, u)
        PROVE  LocalTypes'
    BY <1>3, TypeParts DEF Trust, local, RelayTypes, LocalTypes
  <1>4. ASSUME record' = record /\ pins' = pins
        PROVE  LocalTypes'
    BY <1>4, TypeParts DEF LocalTypes
  <1>5. CASE UNCHANGED vars
    BY <1>4, <1>5 DEF vars, relayVars, content, loopVars, local, ghosts, history
  <1>6. CASE Next
    BY Zenon, <1>1, <1>2, <1>3, <1>4, <1>6, Frames DEF Next
  <1> QED
    BY <1>5, <1>6

\* Putting a pass into a device.
LEMMA PassSet ==
    ASSUME PassTypes, NEW d \in Device, NEW p \in PassType,
           p.stage # "none" => p.ring # <<>>, pass' = [pass EXCEPT ![d] = p]
    PROVE  PassTypes'
  BY DEF PassTypes

\* No pins are pins.
LEMMA NoPinsType == NoPins \in [User -> 0..MaxIdentity]
  BY BoundsAssumption DEF NoPins

\* No pass is a pass.
LEMMA NoPassType == NoPass \in PassType /\ NoPass.stage = "none"
  BY EmptyRing, BoundsAssumption DEF NoPass, Fresh, NoPins, PassType

\* A pass starts with a ring and never loses it.
LEMMA PassStep == TypeOK /\ [Next]_vars => PassTypes'
  <1> SUFFICES ASSUME TypeOK, [Next]_vars PROVE PassTypes'
    OBVIOUS
  <1>1. ASSUME NEW d \in Device, FirstKey(d)
        PROVE  PassTypes'
    <2> DEFINE p == Fresh("list", "loop", Rotate(<<>>, d))
    <2>1. Rotate(<<>>, d) \in Ring /\ Rotate(<<>>, d) # <<>>
      BY FirstRing
    <2>2. p \in PassType /\ p.ring # <<>>
      BY <2>1, NoPinsType DEF Fresh, PassType
    <2> QED
      BY <1>1, <2>2, PassSet, TypeParts DEF FirstKey, StartPass
  <1>2. ASSUME NEW d \in Device, Join(d)
        PROVE  PassTypes'
    <2> DEFINE p == Fresh("list", "loop", ring'[d])
    <2>1. ring'[d] \in Ring /\ ring'[d] # <<>>
      BY <1>2, TypeParts, UsersAssumption DEF Join, RowTypes, CanFetch
    <2>2. p \in PassType /\ p.ring # <<>>
      BY <2>1, BoundsAssumption DEF Fresh, NoPins, PassType
    <2> QED
      BY <1>2, <2>2, PassSet, TypeParts DEF Join, StartPass
  <1>3. ASSUME NEW d \in Device, Rekey(d)
        PROVE  PassTypes'
    <2> DEFINE p == Fresh("list", "rekey", ring[d])
    <2>1. p \in PassType /\ p.ring # <<>>
      BY <1>3, TypeParts, BoundsAssumption DEF Rekey, Fresh, NoPins, PassType
    <2> QED
      BY <1>3, <2>1, PassSet, TypeParts DEF Rekey, StartPass
  <1>4. ASSUME NEW d \in Device, Share(d)
        PROVE  PassTypes'
    <2> DEFINE p == Fresh("wrap", "share", ring[d])
    <2>1. CASE ring[d] = <<>>
      BY <1>4, <2>1, TypeParts DEF Share, PassTypes
    <2>2. CASE ring[d] # <<>>
      <3>1. p \in PassType /\ p.ring # <<>>
        BY <2>2, TypeParts, BoundsAssumption DEF Fresh, NoPins, PassType
      <3> QED
        BY <1>4, <2>2, <3>1, PassSet, TypeParts DEF Share, StartPass
    <2> QED
      BY <2>1, <2>2
  <1>5. ASSUME NEW d \in Device, ListTeam(d)
        PROVE  PassTypes'
    <2> DEFINE gone == record[d] \ Members
               p == [pass[d] EXCEPT !.gone = gone,
                       !.stage = IF gone # {} \/ pass[d].kind = "rekey" THEN "merge" ELSE "wrap"]
    <2>1. p \in PassType /\ p.ring # <<>>
      BY <1>5, TypeParts DEF ListTeam, At, PassTypes, PassType, LocalTypes
    <2>2. CASE pass' = [pass EXCEPT ![d] = p]
      BY <2>1, <2>2, PassSet, TypeParts
    <2>3. CASE pass' = [pass EXCEPT ![d] = NoPass]
      BY <2>3, NoPassType, PassSet, TypeParts
    <2> QED
      BY <1>5, <2>2, <2>3 DEF ListTeam, Go
  <1>6. ASSUME NEW d \in Device, Merge(d)
        PROVE  PassTypes'
    <2> DEFINE u == UserOf[d]
               skip == d \in Nameless \/ bundle[u] = 0 \/ rows[u] = NoRow \/ ~CanRead(u)
               r == IF skip THEN pass[d].ring ELSE UnionFrom(pass[d].ring, rows[u].ring)
               p == [pass[d] EXCEPT !.stage = "mint", !.ring = r]
    <2>1. pass[d].ring \in Ring /\ pass[d].ring # <<>> /\ rows[u].ring \in Ring
      BY <1>6, TypeParts, UsersAssumption DEF Merge, At, PassTypes, PassType, RowTypes
    <2>2. r \in Ring /\ r # <<>>
      BY <2>1, UnionRing
    <2>3. p \in PassType /\ p.ring # <<>>
      BY <2>2, TypeParts DEF PassTypes, PassType
    <2> QED
      BY <1>6, <2>3, PassSet, TypeParts DEF Merge, Go
  <1>7. ASSUME NEW d \in Device, Mint(d)
        PROVE  PassTypes'
    <2> DEFINE r == Rotate(pass[d].ring, d)
               p == [pass[d] EXCEPT !.ring = r,
                       !.stage = IF pass[d].gone = {} THEN "wrap" ELSE "delete"]
    <2>1. r \in Ring /\ r # <<>>
      BY <1>7, RotateRing, TypeParts DEF Mint, PassTypes, PassType
    <2>2. p \in PassType /\ p.ring # <<>>
      BY <2>1, TypeParts DEF PassTypes, PassType
    <2> QED
      BY <1>7, <2>2, PassSet, TypeParts DEF Mint, Go
  <1>8. ASSUME NEW d \in Device, ListMembers(d)
        PROVE  PassTypes'
    <2> DEFINE new == {[user |-> u, id |-> bundle[u]] : u \in Wrapped(d)}
               known == IF \E u \in Wrapped(d) : pins[d][u] = 0
                        THEN [u \in User |-> IF u \in Wrapped(d) THEN bundle[u]
                                                                ELSE pins[d][u]]
                        ELSE NoPins
               p == [pass[d] EXCEPT !.stage = "put", !.todo = new, !.pins = known]
    <2>1. new \in SUBSET [user : User, id : 1..MaxIdentity]
      BY TypeParts DEF Wrapped, Members, RelayTypes
    <2>2. known \in [User -> 0..MaxIdentity]
      BY NoPinsType, TypeParts DEF RelayTypes, LocalTypes
    <2>3. p \in PassType /\ p.ring # <<>>
      BY <1>8, <2>1, <2>2, TypeParts DEF ListMembers, At, PassTypes, PassType
    <2> QED
      BY <1>8, <2>3, PassSet, TypeParts DEF ListMembers, Go
  <1>9. ASSUME NEW d \in Device, SavePins(d)
        PROVE  PassTypes'
    <2> DEFINE p == [pass[d] EXCEPT !.stage = "record", !.pins = NoPins]
    <2>1. pass[d] \in PassType /\ pass[d].ring # <<>>
      BY <1>9, TypeParts DEF SavePins, At, PassTypes
    <2>2. p \in PassType /\ p.ring # <<>>
      BY <2>1, NoPinsType DEF PassType
    <2> QED
      BY <1>9, <2>2, PassSet, TypeParts DEF SavePins, Go
  <1>10. ASSUME NEW d \in Device, Finish(d)
        PROVE  PassTypes'
    BY <1>10, NoPassType, PassSet, TypeParts DEF Finish, Go
  <1>11. ASSUME NEW d \in Device, Abort(d)
        PROVE  PassTypes'
    BY <1>11, NoPassType, PassSet, TypeParts DEF Abort, Go
  <1>12. ASSUME NEW d \in Device, NEW u \in User, Delete(d, u)
        PROVE  PassTypes'
    <2> DEFINE p == [pass[d] EXCEPT !.gone = @ \ {u},
                 !.stage = IF pass[d].gone = {u} THEN "wrap" ELSE "delete"]
    <2>1. p \in PassType /\ p.ring # <<>>
      BY <1>12, TypeParts, BoundsAssumption DEF Delete, At, PassTypes, PassType
    <2> QED
      BY <1>12, <2>1, PassSet, TypeParts DEF Delete, Go
  <1>13. ASSUME NEW d \in Device, NEW t \in pass[d].todo, Put(d, t)
        PROVE  PassTypes'
    <2> DEFINE p == [pass[d] EXCEPT !.todo = @ \ {t}, !.done = @ \cup {t.user}]
    <2>1. pass[d] \in PassType /\ pass[d].ring # <<>>
      BY <1>13, TypeParts DEF Put, At, PassTypes
    <2>2. t.user \in User
      BY <2>1 DEF PassType
    <2>3. p \in PassType /\ p.ring # <<>>
      BY <2>1, <2>2 DEF PassType
    <2> QED
      BY <1>13, <2>3, PassSet, TypeParts DEF Put, Go
  <1>14. ASSUME pass' = pass
        PROVE  PassTypes'
    BY <1>14, TypeParts DEF PassTypes
  <1>15. CASE UNCHANGED vars
    BY <1>14, <1>15 DEF vars, relayVars, content, loopVars, local, ghosts, history
  <1>16. CASE Next
    BY Zenon, <1>1, <1>2, <1>3, <1>4, <1>5, <1>6, <1>7, <1>8, <1>9, <1>10, <1>11, <1>12,
       <1>13, <1>14, <1>16, Frames
       DEF Next
  <1> QED
    BY <1>15, <1>16

\* The history variables.
LEMMA GhostStep == TypeOK /\ [Next]_vars => GhostTypes'
  <1> SUFFICES ASSUME TypeOK, [Next]_vars PROVE GhostTypes'
    OBVIOUS
  <1>1. ASSUME NEW by \in User, NEW u \in User, NEW r \in Role \ {"none"}, AddMember(by, u,
               r)
        PROVE  GhostTypes'
    BY <1>1, TypeParts, BoundsAssumption DEF AddMember, Command, GhostTypes, Regain
  <1>2. ASSUME NEW by \in User, NEW u \in User, RemoveMember(by, u)
        PROVE  GhostTypes'
    BY <1>2, TypeParts, BoundsAssumption DEF RemoveMember, Command, GhostTypes, ghosts
  <1>3. ASSUME NEW u \in User, Keygen(u)
        PROVE  GhostTypes'
    BY <1>3, TypeParts, BoundsAssumption DEF Keygen, Command, GhostTypes, ghosts
  <1>4. ASSUME NEW d \in Device, LookUp(d)
        PROVE  GhostTypes'
    BY <1>4, TypeParts, BoundsAssumption DEF LookUp, Command, GhostTypes, ghosts
  <1>5. ASSUME NEW d \in Device, Create(d)
        PROVE  GhostTypes'
    BY <1>5, TypeParts DEF Create, Regain, GhostTypes
  <1>6. ASSUME NEW d \in Device, FirstKey(d)
        PROVE  GhostTypes'
    <2>1. Newest(Rotate(<<>>, d)) \in Key
      BY FirstRing
    <2> QED
      BY <1>6, <2>1, TypeParts DEF FirstKey, Minted, GhostTypes
  <1>7. ASSUME NEW d \in Device, Join(d)
        PROVE  GhostTypes'
    BY <1>7, TypeParts, BoundsAssumption DEF Join, Command, GhostTypes, Regain
  <1>8. ASSUME NEW d \in Device, Rekey(d)
        PROVE  GhostTypes'
    BY <1>8, TypeParts, BoundsAssumption DEF Rekey, Command, GhostTypes, ghosts
  <1>9. ASSUME NEW d \in Device, Share(d)
        PROVE  GhostTypes'
    BY <1>9, TypeParts, BoundsAssumption DEF Share, Command, GhostTypes, Regain
  <1>10. ASSUME NEW d \in Device, Mint(d)
        PROVE  GhostTypes'
    <2>1. Newest(Rotate(pass[d].ring, d)) \in Key
      BY <1>10, RotateRing, TypeParts DEF Mint, PassTypes, PassType
    <2> QED
      BY <1>10, <2>1, TypeParts DEF Mint, Minted, GhostTypes
  <1>11. ASSUME NEW d \in Device, Mirror(d)
        PROVE  GhostTypes'
    BY <1>11, TypeParts, BoundsAssumption DEF Mirror, Command, GhostTypes, ghosts
  <1>12. ASSUME NEW d \in Device, Clone(d)
        PROVE  GhostTypes'
    BY <1>12, TypeParts, BoundsAssumption DEF Clone, Command, GhostTypes, ghosts
  <1>13. ASSUME NEW d \in Device, Snapshot(d)
        PROVE  GhostTypes'
    BY <1>13, TypeParts, BoundsAssumption DEF Snapshot, Command, GhostTypes, ghosts
  <1>14. ASSUME NEW d \in Device, NEW u \in User, Trust(d, u)
        PROVE  GhostTypes'
    BY <1>14, TypeParts, BoundsAssumption DEF Trust, Command, GhostTypes, ghosts
  <1>15. ASSUME minted' = minted /\ unseen' = unseen /\ left' = left
        PROVE  GhostTypes'
    BY <1>15, TypeParts DEF GhostTypes
  <1>16. CASE UNCHANGED vars
    BY <1>15, <1>16 DEF vars, relayVars, content, loopVars, local, ghosts, history
  <1>17. CASE Next
    BY Zenon, <1>1, <1>2, <1>3, <1>4, <1>5, <1>6, <1>7, <1>8, <1>9, <1>10, <1>11, <1>12,
       <1>13, <1>14, <1>15, <1>17, Frames
       DEF Next
  <1> QED
    BY <1>16, <1>17

\* The initial state.
LEMMA InitTypes == Init => TypeOK
  <1> SUFFICES ASSUME Init PROVE TypeOK
    OBVIOUS
  <1>1. RelayTypes
    <2>1. PICK o \in User : role = [u \in User |-> IF u = o THEN "owner" ELSE "none"]
      BY DEF Init
    <2>2. role \in [User -> Role]
      BY <2>1 DEF Role
    <2>3. existed \in BOOLEAN /\ attached \in BOOLEAN
      BY DEF Init
    <2>4. bundle \in [User -> 0..MaxIdentity]
      BY BoundsAssumption DEF Init
    <2> QED
      BY <2>2, <2>3, <2>4 DEF RelayTypes
  <1>2. RowTypes
    BY EmptyRing, BoundsAssumption DEF Init, RowTypes, NoRow
  <1>3. ContentTypes /\ ring \in [Device -> Ring] /\ LoopTypes /\ LocalTypes
    BY EmptyRing, NoPinsType DEF Init, ContentTypes, LoopTypes, LocalTypes
  <1>4. PassTypes /\ GhostTypes
    BY NoPassType, BoundsAssumption DEF Init, PassTypes, GhostTypes
  <1> QED
    BY <1>1, <1>2, <1>3, <1>4, TypeParts

(***************************************************************************)
(* Steps.                                                                  *)
(***************************************************************************)
\* The rings a device works with are rings.
LEMMA RingsOf ==
    ASSUME TypeOK, NEW d \in Device
    PROVE  /\ ring[d] \in Ring /\ mem[d] \in Ring /\ pass[d].ring \in Ring
           /\ UserOf[d] \in User
           /\ pass[d].stage # "none" => pass[d].ring # <<>>
  BY UsersAssumption, TypeParts DEF LoopTypes, PassTypes, PassType

\* A row has a ring, and none is empty.
LEMMA RowsOf ==
    ASSUME TypeOK, NEW u \in User
    PROVE  rows[u].ring \in Ring /\ (rows[u] # NoRow => rows[u].ring # <<>>)
  BY TypeParts DEF RowTypes

\* A pass works with the ring on file: nothing but the pass itself extends the
\* ring of its device while it runs.
LEMMA FollowStep ==
    ASSUME TypeOK, PassesFollow, [Next]_vars
    PROVE  PassesFollow'
  <1>1. ASSUME NEW d \in Device, Create(d)
        PROVE  PassesFollow'
    BY <1>1 DEF Create, PassesFollow
  <1>2. ASSUME NEW d \in Device, FirstKey(d)
        PROVE  PassesFollow'
    <2>1. /\ pass'[d].stage # "none" => pass'[d].ring = ring'[d]
          /\ pass'[d].stage \in {"merge", "mint", "delete", "wrap"} => attached'
          /\ pass'[d].stage # "put" => pass'[d].todo = {}
      BY <1>2, RingsOf, TypeParts
         DEF FirstKey, At, Go, NoPass, StartPass, Fresh, PassTypes, PassType, PassesFollow
    <2>2. \A e \in Device \ {d} : pass'[e] = pass[e] /\ ring'[e] = ring[e]
      BY <1>2, TypeParts DEF FirstKey, Go, StartPass, PassTypes
    <2>3. attached => attached'
      BY <1>2, Frames DEF FirstKey, Attach
    <2> QED
      BY <2>1, <2>2, <2>3 DEF PassesFollow
  <1>3. ASSUME NEW d \in Device, Join(d)
        PROVE  PassesFollow'
    <2>1. /\ pass'[d].stage # "none" => pass'[d].ring = ring'[d]
          /\ pass'[d].stage \in {"merge", "mint", "delete", "wrap"} => attached'
          /\ pass'[d].stage # "put" => pass'[d].todo = {}
      BY <1>3, RingsOf, TypeParts
         DEF Join, At, Go, NoPass, StartPass, Fresh, PassTypes, PassType, PassesFollow
    <2>2. \A e \in Device \ {d} : pass'[e] = pass[e] /\ ring'[e] = ring[e]
      BY <1>3, TypeParts DEF Join, Go, StartPass, PassTypes
    <2>3. attached => attached'
      BY <1>3, Frames DEF Join, Attach
    <2> QED
      BY <2>1, <2>2, <2>3 DEF PassesFollow
  <1>4. ASSUME NEW d \in Device, Rekey(d)
        PROVE  PassesFollow'
    <2>1. /\ pass'[d].stage # "none" => pass'[d].ring = ring'[d]
          /\ pass'[d].stage \in {"merge", "mint", "delete", "wrap"} => attached'
          /\ pass'[d].stage # "put" => pass'[d].todo = {}
      BY <1>4, RingsOf, TypeParts
         DEF Rekey, At, Go, NoPass, StartPass, Fresh, PassTypes, PassType, PassesFollow
    <2>2. \A e \in Device \ {d} : pass'[e] = pass[e] /\ ring'[e] = ring[e]
      BY <1>4, TypeParts DEF Rekey, Go, StartPass, PassTypes
    <2>3. attached => attached'
      BY <1>4, Frames DEF Rekey, Attach
    <2> QED
      BY <2>1, <2>2, <2>3 DEF PassesFollow
  <1>5. ASSUME NEW d \in Device, Share(d)
        PROVE  PassesFollow'
    <2>1. CASE ring[d] = <<>>
      BY <1>5, <2>1 DEF Share, PassesFollow
    <2>2. CASE ring[d] # <<>>
      <3>1. pass'[d].ring = ring'[d] /\ attached' /\ pass'[d].todo = {}
        BY <1>5, <2>2, TypeParts DEF Share, StartPass, Fresh, PassTypes
      <3>2. \A e \in Device \ {d} : pass'[e] = pass[e] /\ ring'[e] = ring[e]
        BY <1>5, <2>2, TypeParts DEF Share, StartPass, PassTypes
      <3> QED
        BY <1>5, <3>1, <3>2 DEF Share, PassesFollow
    <2> QED
      BY <2>1, <2>2
  <1>6. ASSUME NEW d \in Device, ListTeam(d)
        PROVE  PassesFollow'
    <2>1. attached' = attached /\ ring' = ring
      BY <1>6, Frames
    <2> DEFINE p == [pass[d] EXCEPT !.gone = record[d] \ Members,
                 !.stage = IF record[d] \ Members # {} \/ pass[d].kind = "rekey"
                           THEN "merge" ELSE "wrap"]
    <2>2. pass[d] \in PassType /\ pass[d].stage = "list" /\ pass[d].ring = ring[d]
          /\ pass[d].todo = {}
      BY <1>6, TypeParts DEF ListTeam, At, PassTypes, PassesFollow
    <2>3. p.ring = ring[d] /\ p.todo = {} /\ p.stage \in {"merge", "wrap"}
      BY <2>2 DEF PassType
    <2>4. NoPass.stage = "none" /\ NoPass.todo = {}
      BY DEF NoPass, Fresh
    <2>5. (attached /\ pass'[d] = p) \/ pass'[d] = NoPass
      BY <1>6, TypeParts DEF ListTeam, Go, PassTypes
    <2>6. /\ pass'[d].stage # "none" => pass'[d].ring = ring'[d]
          /\ pass'[d].stage \in {"merge", "mint", "delete", "wrap"} => attached'
          /\ pass'[d].stage # "put" => pass'[d].todo = {}
      BY <2>1, <2>3, <2>4, <2>5
    <2>7. \A e \in Device \ {d} : pass'[e] = pass[e] /\ ring'[e] = ring[e]
      BY <1>6, TypeParts DEF ListTeam, Go, StartPass, PassTypes
    <2>8. attached => attached'
      BY <1>6, Frames DEF ListTeam, Attach
    <2> QED
      BY <2>6, <2>7, <2>8 DEF PassesFollow
  <1>7. ASSUME NEW d \in Device, Merge(d)
        PROVE  PassesFollow'
    <2>1. attached' = attached
      BY <1>7, Frames
    <2>2. /\ pass'[d].stage # "none" => pass'[d].ring = ring'[d]
          /\ pass'[d].stage \in {"merge", "mint", "delete", "wrap"} => attached'
          /\ pass'[d].stage # "put" => pass'[d].todo = {}
      BY <1>7, <2>1, RingsOf, TypeParts
         DEF Merge, At, Go, NoPass, StartPass, Fresh, PassTypes, PassType, PassesFollow
    <2>3. \A e \in Device \ {d} : pass'[e] = pass[e] /\ ring'[e] = ring[e]
      BY <1>7, TypeParts DEF Merge, Go, StartPass, PassTypes
    <2>4. attached => attached'
      BY <1>7, Frames DEF Merge, Attach
    <2> QED
      BY <2>2, <2>3, <2>4 DEF PassesFollow
  <1>8. ASSUME NEW d \in Device, Mint(d)
        PROVE  PassesFollow'
    <2>1. attached' = attached
      BY <1>8, Frames
    <2>2. /\ pass'[d].stage # "none" => pass'[d].ring = ring'[d]
          /\ pass'[d].stage \in {"merge", "mint", "delete", "wrap"} => attached'
          /\ pass'[d].stage # "put" => pass'[d].todo = {}
      BY <1>8, <2>1, RingsOf, TypeParts
         DEF Mint, At, Go, NoPass, StartPass, Fresh, PassTypes, PassType, PassesFollow
    <2>3. \A e \in Device \ {d} : pass'[e] = pass[e] /\ ring'[e] = ring[e]
      BY <1>8, TypeParts DEF Mint, Go, StartPass, PassTypes
    <2>4. attached => attached'
      BY <1>8, Frames DEF Mint, Attach
    <2> QED
      BY <2>2, <2>3, <2>4 DEF PassesFollow
  <1>9. ASSUME NEW d \in Device, ListMembers(d)
        PROVE  PassesFollow'
    <2>1. /\ pass'[d].stage # "none" => pass'[d].ring = ring'[d]
          /\ pass'[d].stage \in {"merge", "mint", "delete", "wrap"} => attached'
          /\ pass'[d].stage # "put" => pass'[d].todo = {}
      BY <1>9, RingsOf, TypeParts
         DEF ListMembers, At, Go, NoPass, StartPass, Fresh, PassTypes, PassType,
             PassesFollow
    <2>2. \A e \in Device \ {d} : pass'[e] = pass[e] /\ ring'[e] = ring[e]
      BY <1>9, TypeParts DEF ListMembers, Go, StartPass, PassTypes
    <2>3. attached => attached'
      BY <1>9, Frames DEF ListMembers, Attach
    <2> QED
      BY <2>1, <2>2, <2>3 DEF PassesFollow
  <1>10. ASSUME NEW d \in Device, SavePins(d)
        PROVE  PassesFollow'
    <2>1. /\ pass'[d].stage # "none" => pass'[d].ring = ring'[d]
          /\ pass'[d].stage \in {"merge", "mint", "delete", "wrap"} => attached'
          /\ pass'[d].stage # "put" => pass'[d].todo = {}
      BY <1>10, RingsOf, TypeParts
         DEF SavePins, At, Go, NoPass, StartPass, Fresh, PassTypes, PassType, PassesFollow
    <2>2. \A e \in Device \ {d} : pass'[e] = pass[e] /\ ring'[e] = ring[e]
      BY <1>10, TypeParts DEF SavePins, Go, StartPass, PassTypes
    <2>3. attached => attached'
      BY <1>10, Frames DEF SavePins, Attach
    <2> QED
      BY <2>1, <2>2, <2>3 DEF PassesFollow
  <1>11. ASSUME NEW d \in Device, Finish(d)
        PROVE  PassesFollow'
    <2>1. /\ pass'[d].stage # "none" => pass'[d].ring = ring'[d]
          /\ pass'[d].stage \in {"merge", "mint", "delete", "wrap"} => attached'
          /\ pass'[d].stage # "put" => pass'[d].todo = {}
      BY <1>11, RingsOf, TypeParts
         DEF Finish, At, Go, NoPass, StartPass, Fresh, PassTypes, PassType, PassesFollow,
             loopVars
    <2>2. \A e \in Device \ {d} : pass'[e] = pass[e] /\ ring'[e] = ring[e]
      BY <1>11, TypeParts DEF Finish, Go, StartPass, PassTypes, loopVars
    <2>3. attached => attached'
      BY <1>11, Frames DEF Finish, Attach
    <2> QED
      BY <2>1, <2>2, <2>3 DEF PassesFollow
  <1>12. ASSUME NEW d \in Device, Abort(d)
        PROVE  PassesFollow'
    <2>1. /\ pass'[d].stage # "none" => pass'[d].ring = ring'[d]
          /\ pass'[d].stage \in {"merge", "mint", "delete", "wrap"} => attached'
          /\ pass'[d].stage # "put" => pass'[d].todo = {}
      BY <1>12, RingsOf, TypeParts
         DEF Abort, At, Go, NoPass, StartPass, Fresh, PassTypes, PassType, PassesFollow
    <2>2. \A e \in Device \ {d} : pass'[e] = pass[e] /\ ring'[e] = ring[e]
      BY <1>12, TypeParts DEF Abort, Go, StartPass, PassTypes
    <2>3. attached => attached'
      BY <1>12, Frames DEF Abort, Attach
    <2> QED
      BY <2>1, <2>2, <2>3 DEF PassesFollow
  <1>13. ASSUME NEW d \in Device, GetKey(d)
        PROVE  PassesFollow'
    <2>1. ASSUME NEW e \in Device, ring'[e] # ring[e]
          PROVE  pass[e].stage = "none"
      BY <1>13, <2>1, RingsOf, TypeParts DEF GetKey, Idle, At, PassesFollow
    <2> QED
      BY <1>13, <2>1, Frames DEF PassesFollow
  <1>14. ASSUME NEW d \in Device, Clone(d)
        PROVE  PassesFollow'
    <2>1. ASSUME NEW e \in Device, ring'[e] # ring[e]
          PROVE  pass[e].stage = "none"
      BY <1>14, <2>1, RingsOf, TypeParts DEF Clone, Idle, At, PassesFollow
    <2> QED
      BY <1>14, <2>1, Frames DEF PassesFollow
  <1>15. ASSUME NEW d \in Device, NEW u \in User, Delete(d, u)
        PROVE  PassesFollow'
    <2>1. /\ pass'[d].stage # "none" => pass'[d].ring = ring'[d]
          /\ pass'[d].stage \in {"merge", "mint", "delete", "wrap"} => attached'
          /\ pass'[d].stage # "put" => pass'[d].todo = {}
      BY <1>15, RingsOf, TypeParts
         DEF Delete, At, Go, NoPass, StartPass, Fresh, PassTypes, PassType, PassesFollow
    <2>2. \A e \in Device \ {d} : pass'[e] = pass[e] /\ ring'[e] = ring[e]
      BY <1>15, TypeParts DEF Delete, Go, StartPass, PassTypes
    <2>3. attached => attached'
      BY <1>15, Frames DEF Delete, Attach
    <2> QED
      BY <2>1, <2>2, <2>3 DEF PassesFollow
  <1>16. ASSUME NEW d \in Device, NEW t \in pass[d].todo, Put(d, t)
        PROVE  PassesFollow'
    <2>1. /\ pass'[d].stage # "none" => pass'[d].ring = ring'[d]
          /\ pass'[d].stage \in {"merge", "mint", "delete", "wrap"} => attached'
          /\ pass'[d].stage # "put" => pass'[d].todo = {}
      BY <1>16, RingsOf, TypeParts
         DEF Put, At, Go, NoPass, StartPass, Fresh, PassTypes, PassType, PassesFollow
    <2>2. \A e \in Device \ {d} : pass'[e] = pass[e] /\ ring'[e] = ring[e]
      BY <1>16, TypeParts DEF Put, Go, StartPass, PassTypes
    <2>3. attached => attached'
      BY <1>16, Frames DEF Put, Attach
    <2> QED
      BY <2>1, <2>2, <2>3 DEF PassesFollow
  <1>17. ASSUME pass' = pass /\ ring' = ring /\ attached' = attached
        PROVE  PassesFollow'
    BY <1>17 DEF PassesFollow
  <1>18. CASE UNCHANGED vars
    BY <1>17, <1>18 DEF vars, relayVars, content, loopVars, local, ghosts, history
  <1>19. CASE Next
    BY Zenon, <1>1, <1>2, <1>3, <1>4, <1>5, <1>6, <1>7, <1>8, <1>9, <1>10, <1>11, <1>12,
       <1>13, <1>14, <1>15, <1>16, <1>17, <1>19, Frames
       DEF Next
  <1> QED
    BY <1>18, <1>19

\* A ring file only gets longer.
LEMMA GrowStep ==
    ASSUME TypeOK, PassesFollow, [Next]_vars
    PROVE  \A e \in Device : Len(ring'[e]) >= Len(ring[e])
  <1>1. ASSUME NEW d \in Device, FirstKey(d)
        PROVE  \A e \in Device : Len(ring'[e]) >= Len(ring[e])
    <2>1. ASSUME NEW e \in Device
          PROVE  Len(ring'[e]) >= Len(ring[e])
      <3>1. ring'[e] \in Ring /\ ring[e] \in Ring
        BY RingStep, TypeParts
      <3>2. ring'[e] = ring[e] \/ ring[e] = <<>>
        BY <1>1, TypeParts DEF FirstKey
      <3> QED
        BY <3>1, <3>2, RingShape
    <2> QED
      BY <2>1
  <1>2. ASSUME NEW d \in Device, Join(d)
        PROVE  \A e \in Device : Len(ring'[e]) >= Len(ring[e])
    <2>1. ASSUME NEW e \in Device
          PROVE  Len(ring'[e]) >= Len(ring[e])
      <3>1. ring'[e] \in Ring /\ ring[e] \in Ring
        BY RingStep, TypeParts
      <3>2. ring'[e] = ring[e] \/ ring[e] = <<>>
        BY <1>2, TypeParts DEF Join
      <3> QED
        BY <3>1, <3>2, RingShape
    <2> QED
      BY <2>1
  <1>3. ASSUME NEW d \in Device, Merge(d)
        PROVE  \A e \in Device : Len(ring'[e]) >= Len(ring[e])
    <2>1. Len(ring'[d]) >= Len(ring[d])
      <3>1. CASE ring' = ring
        BY <3>1, RingsOf, RingShape
      <3>2. CASE ring' # ring
        <4>1. ring'[d] = UnionFrom(pass[d].ring, rows[UserOf[d]].ring)
          BY <1>3, <3>2, TypeParts DEF Merge
        <4>2. pass[d].ring = ring[d]
          BY <1>3 DEF Merge, At, PassesFollow
        <4> QED
          BY <4>1, <4>2, RingsOf, RowsOf, UnionRing
      <3> QED
        BY <3>1, <3>2
    <2>2. \A e \in Device \ {d} : ring'[e] = ring[e]
      BY <1>3, TypeParts DEF Merge
    <2> QED
      BY <2>1, <2>2, RingsOf, RingShape
  <1>4. ASSUME NEW d \in Device, Mint(d)
        PROVE  \A e \in Device : Len(ring'[e]) >= Len(ring[e])
    <2>1. Len(ring'[d]) = Len(ring[d]) + 1
      BY <1>4, RingsOf, RotateRing, TypeParts DEF Mint, At, PassesFollow
    <2>2. \A e \in Device \ {d} : ring'[e] = ring[e]
      BY <1>4, TypeParts DEF Mint
    <2> QED
      BY <2>1, <2>2, RingsOf, RingShape
  <1>5. ASSUME NEW d \in Device, GetKey(d)
        PROVE  \A e \in Device : Len(ring'[e]) >= Len(ring[e])
    <2>1. ASSUME NEW e \in Device
          PROVE  Len(ring'[e]) >= Len(ring[e])
      <3>1. ring'[e] \in Ring /\ ring[e] \in Ring
        BY RingStep, TypeParts
      <3>2. ring'[e] = ring[e] \/ ring[e] = <<>>
        BY <1>5, TypeParts DEF GetKey
      <3> QED
        BY <3>1, <3>2, RingShape
    <2> QED
      BY <2>1
  <1>6. ASSUME NEW d \in Device, Clone(d)
        PROVE  \A e \in Device : Len(ring'[e]) >= Len(ring[e])
    <2>1. ASSUME NEW e \in Device
          PROVE  Len(ring'[e]) >= Len(ring[e])
      <3>1. ring'[e] \in Ring /\ ring[e] \in Ring
        BY RingStep, TypeParts
      <3>2. ring'[e] = ring[e] \/ ring[e] = <<>>
        BY <1>6, TypeParts DEF Clone
      <3> QED
        BY <3>1, <3>2, RingShape
    <2> QED
      BY <2>1
  <1>7. ASSUME ring' = ring
        PROVE  \A e \in Device : Len(ring'[e]) >= Len(ring[e])
    BY <1>7, RingsOf, RingShape
  <1>8. CASE UNCHANGED vars
    BY <1>7, <1>8 DEF vars, relayVars, content, loopVars, local, ghosts, history
  <1>9. CASE Next
    BY Zenon, <1>1, <1>2, <1>3, <1>4, <1>5, <1>6, <1>7, <1>9, Frames DEF Next
  <1> QED
    BY <1>8, <1>9

\* The key a first join or a rotation mints: its generation is the minter's
\* newest, and above all it had on file.
LEMMA FreshKey ==
    ASSUME TypeOK, PassesFollow, MintedOnFile, NEW d \in Device, FirstKey(d) \/ Mint(d)
    PROVE  \E k \in Key : /\ k[2] = d /\ k \notin minted /\ Minted(k)
                          /\ k = Newest(ring'[d]) /\ k \in Keys(ring'[d])
                          /\ k[1] = Len(ring'[d])
                          /\ pass'[d].ring = ring'[d]
                          /\ Keys(ring'[d]) = Keys(ring[d]) \cup {k}
                          /\ \A e \in Device \ {d} : pass'[e] = pass[e] /\ ring'[e] = ring[e]
                          /\ pass'[d].todo = {} /\ mem' = mem /\ rows' = rows
  <1> DEFINE k == <<Len(ring[d]) + 1, d>>
  <1>1. ring[d] \in Ring
    BY RingsOf
  <1>2. k \notin minted
    BY <1>1, RingShape DEF MintedOnFile
  <1>3. CASE FirstKey(d)
    <2>1. /\ ring[d] = <<>> /\ ring'[d] = Rotate(<<>>, d) /\ Minted(Newest(Rotate(<<>>, d)))
          /\ mem' = mem /\ rows' = rows
          /\ \A e \in Device \ {d} : pass'[e] = pass[e] /\ ring'[e] = ring[e]
      BY <1>3, Frames, TypeParts DEF FirstKey, StartPass, PassTypes
    <2>2. pass'[d].ring = ring'[d] /\ pass'[d].todo = {}
      BY <1>3, <2>1, TypeParts DEF FirstKey, StartPass, Fresh, PassTypes
    <2>3. /\ k = <<1, d>> /\ k \in Key /\ Newest(ring'[d]) = k /\ Len(ring'[d]) = 1
          /\ Keys(ring'[d]) = {k} /\ Keys(ring[d]) = {}
      BY <2>1, FirstRing, EmptyRing
    <2> QED
      BY <1>2, <2>1, <2>2, <2>3
  <1>4. CASE Mint(d)
    <2>1. /\ pass[d].ring = ring[d] /\ pass[d].todo = {} /\ Len(ring[d]) < MaxGen
      BY <1>4 DEF Mint, At, PassesFollow
    <2>2. /\ ring'[d] = Rotate(ring[d], d) /\ Minted(Newest(Rotate(ring[d], d)))
          /\ mem' = mem /\ rows' = rows
          /\ \A e \in Device \ {d} : pass'[e] = pass[e] /\ ring'[e] = ring[e]
      BY <1>4, <2>1, Frames, TypeParts DEF Mint, Go, PassTypes
    <2>3. pass'[d].ring = ring'[d] /\ pass'[d].todo = {}
      BY <1>4, <2>1, <2>2, TypeParts DEF Mint, Go, PassTypes, PassType
    <2>4. /\ k \in Key /\ Newest(ring'[d]) = k /\ Len(ring'[d]) = Len(ring[d]) + 1
          /\ Keys(ring'[d]) = Keys(ring[d]) \cup {k}
      BY <1>1, <2>1, <2>2, RotateRing
    <2> QED
      BY <1>2, <2>2, <2>3, <2>4
  <1> QED
    BY <1>3, <1>4

\* A key is on its minter's file from the step that mints it on.
LEMMA MintStep ==
    ASSUME TypeOK, PassesFollow, MintedOnFile, [Next]_vars
    PROVE  /\ minted \subseteq minted'
           /\ \A k \in minted' \ minted : k[1] <= Len(ring'[k[2]]) /\ k \in Keys(ring'[k[2]])
  <1>1. ASSUME NEW d \in Device, FirstKey(d)
        PROVE  /\ minted \subseteq minted'
               /\ \A k \in minted' \ minted : k[1] <= Len(ring'[k[2]]) /\ k \in Keys(ring'[k[2]])
    <2>1. PICK k \in Key : /\ k[2] = d /\ Minted(k) /\ k \in Keys(ring'[d])
                          /\ k[1] = Len(ring'[d])
      BY <1>1, FreshKey
    <2>2. Len(ring'[d]) \in Nat
      BY RingStep, TypeParts, RingShape
    <2>3. minted' = minted \cup {k}
      BY <2>1 DEF Minted
    <2> QED
      BY <2>1, <2>2, <2>3
  <1>2. ASSUME NEW d \in Device, Mint(d)
        PROVE  /\ minted \subseteq minted'
               /\ \A k \in minted' \ minted : k[1] <= Len(ring'[k[2]]) /\ k \in Keys(ring'[k[2]])
    <2>1. PICK k \in Key : /\ k[2] = d /\ Minted(k) /\ k \in Keys(ring'[d])
                          /\ k[1] = Len(ring'[d])
      BY <1>2, FreshKey
    <2>2. Len(ring'[d]) \in Nat
      BY RingStep, TypeParts, RingShape
    <2>3. minted' = minted \cup {k}
      BY <2>1 DEF Minted
    <2> QED
      BY <2>1, <2>2, <2>3
  <1>3. ASSUME minted' = minted
        PROVE  /\ minted \subseteq minted'
               /\ \A k \in minted' \ minted : k[1] <= Len(ring'[k[2]]) /\ k \in Keys(ring'[k[2]])
    BY <1>3
  <1>4. CASE UNCHANGED vars
    BY <1>3, <1>4 DEF vars, relayVars, content, loopVars, local, ghosts, history
  <1>5. CASE Next
    BY Zenon, <1>1, <1>2, <1>3, <1>5, Frames DEF Next
  <1> QED
    BY <1>4, <1>5

\* What a device comes to hold is its user's row or the key it mints itself.
LEMMA HeldStep ==
    ASSUME TypeOK, PassesFollow, MintedOnFile, [Next]_vars
    PROVE  \A e \in Device : Held(e)' \subseteq Held(e) \cup Keys(rows[UserOf[e]].ring)
                                    \cup {k \in minted' \ minted : k[2] = e}
  <1>1. ASSUME NEW d \in Device, FirstKey(d)
        PROVE  \A e \in Device : Held(e)' \subseteq Held(e) \cup Keys(rows[UserOf[e]].ring)
                                    \cup {k \in minted' \ minted : k[2] = e}
    <2>1. PICK k \in Key : /\ k[2] = d /\ k \notin minted /\ Minted(k)
                          /\ pass'[d].ring = ring'[d] /\ mem' = mem
                          /\ Keys(ring'[d]) = Keys(ring[d]) \cup {k}
                          /\ \A e \in Device \ {d} : pass'[e] = pass[e] /\ ring'[e] = ring[e]
      BY <1>1, FreshKey
    <2>2. minted' = minted \cup {k}
      BY <2>1 DEF Minted
    <2> QED
      BY <2>1, <2>2 DEF Held
  <1>2. ASSUME NEW d \in Device, Join(d)
        PROVE  \A e \in Device : Held(e)' \subseteq Held(e) \cup Keys(rows[UserOf[e]].ring)
                                    \cup {k \in minted' \ minted : k[2] = e}
    <2>1. /\ ring'[d] \in {ring[d], rows[UserOf[d]].ring} /\ mem'[d] = mem[d]
          /\ pass'[d].ring \in {ring[d], rows[UserOf[d]].ring}
      BY <1>2, Frames, TypeParts DEF Join, StartPass, Fresh, PassTypes, PassType
    <2>2. \A e \in Device \ {d} : ring'[e] = ring[e] /\ mem'[e] = mem[e] /\ pass'[e] = pass[e]
      BY <1>2, Frames, TypeParts DEF Join, StartPass, PassTypes
    <2> QED
      BY <2>1, <2>2, EmptyRing DEF Held
  <1>3. ASSUME NEW d \in Device, Rekey(d)
        PROVE  \A e \in Device : Held(e)' \subseteq Held(e) \cup Keys(rows[UserOf[e]].ring)
                                    \cup {k \in minted' \ minted : k[2] = e}
    <2>1. /\ ring'[d] = ring[d] /\ mem'[d] = mem[d]
          /\ pass'[d].ring = ring[d]
      BY <1>3, Frames, TypeParts DEF Rekey, StartPass, Fresh, loopVars, PassTypes, PassType
    <2>2. \A e \in Device \ {d} : ring'[e] = ring[e] /\ mem'[e] = mem[e] /\ pass'[e] = pass[e]
      BY <1>3, Frames, TypeParts DEF Rekey, StartPass, loopVars, PassTypes
    <2> QED
      BY <2>1, <2>2, EmptyRing DEF Held
  <1>4. ASSUME NEW d \in Device, Share(d)
        PROVE  \A e \in Device : Held(e)' \subseteq Held(e) \cup Keys(rows[UserOf[e]].ring)
                                    \cup {k \in minted' \ minted : k[2] = e}
    <2>1. /\ ring' = ring /\ mem' = mem
          /\ \A e \in Device : pass'[e].ring \in {pass[e].ring, ring[e]}
      BY <1>4, Frames, TypeParts DEF Share, StartPass, Fresh, PassTypes
    <2> QED
      BY <2>1 DEF Held
  <1>5. ASSUME NEW d \in Device, ListTeam(d)
        PROVE  \A e \in Device : Held(e)' \subseteq Held(e) \cup Keys(rows[UserOf[e]].ring)
                                    \cup {k \in minted' \ minted : k[2] = e}
    <2> DEFINE p == [pass[d] EXCEPT !.gone = record[d] \ Members,
                 !.stage = IF record[d] \ Members # {} \/ pass[d].kind = "rekey"
                           THEN "merge" ELSE "wrap"]
    <2>1. p.ring = pass[d].ring /\ NoPass.ring = <<>>
      BY TypeParts DEF PassTypes, PassType, NoPass, Fresh
    <2>2. mem \in [Device -> Ring] /\ pass \in [Device -> PassType] /\ ring' = ring
      BY <1>5, TypeParts, Frames DEF LoopTypes, PassTypes
    <2>3. CASE pass' = [pass EXCEPT ![d] = p] /\ mem' = mem
      BY <2>1, <2>2, <2>3 DEF Held
    <2>4. CASE pass' = [pass EXCEPT ![d] = NoPass] /\ mem' = [mem EXCEPT ![d] = pass[d].ring]
      BY <2>1, <2>2, <2>4, EmptyRing DEF Held
    <2> QED
      BY <1>5, <2>3, <2>4 DEF ListTeam, Go, loopVars
  <1>6. ASSUME NEW d \in Device, Merge(d)
        PROVE  \A e \in Device : Held(e)' \subseteq Held(e) \cup Keys(rows[UserOf[e]].ring)
                                    \cup {k \in minted' \ minted : k[2] = e}
    <2>1. /\ ring'[d] \in {ring[d], pass'[d].ring} /\ mem' = mem
          /\ pass'[d].ring \in {pass[d].ring, UnionFrom(pass[d].ring, rows[UserOf[d]].ring)}
      BY <1>6, Frames, TypeParts DEF Merge, Go, PassTypes, PassType
    <2>2. \A e \in Device \ {d} : ring'[e] = ring[e] /\ mem'[e] = mem[e] /\ pass'[e] = pass[e]
      BY <1>6, Frames, TypeParts DEF Merge, Go, PassTypes
    <2>3. Keys(pass'[d].ring) \subseteq Keys(pass[d].ring) \cup Keys(rows[UserOf[d]].ring)
      BY <2>1, RingsOf, RowsOf, UnionRing
    <2> QED
      BY <2>1, <2>2, <2>3 DEF Held
  <1>7. ASSUME NEW d \in Device, Mint(d)
        PROVE  \A e \in Device : Held(e)' \subseteq Held(e) \cup Keys(rows[UserOf[e]].ring)
                                    \cup {k \in minted' \ minted : k[2] = e}
    <2>1. PICK k \in Key : /\ k[2] = d /\ k \notin minted /\ Minted(k)
                          /\ pass'[d].ring = ring'[d] /\ mem' = mem
                          /\ Keys(ring'[d]) = Keys(ring[d]) \cup {k}
                          /\ \A e \in Device \ {d} : pass'[e] = pass[e] /\ ring'[e] = ring[e]
      BY <1>7, FreshKey
    <2>2. minted' = minted \cup {k}
      BY <2>1 DEF Minted
    <2> QED
      BY <2>1, <2>2 DEF Held
  <1>8. ASSUME NEW d \in Device, ListMembers(d)
        PROVE  \A e \in Device : Held(e)' \subseteq Held(e) \cup Keys(rows[UserOf[e]].ring)
                                    \cup {k \in minted' \ minted : k[2] = e}
    <2>1. /\ ring'[d] = ring[d] /\ mem'[d] = mem[d]
          /\ pass'[d].ring = pass[d].ring
      BY <1>8, Frames, TypeParts DEF ListMembers, Go, loopVars, PassTypes, PassType
    <2>2. \A e \in Device \ {d} : ring'[e] = ring[e] /\ mem'[e] = mem[e] /\ pass'[e] = pass[e]
      BY <1>8, Frames, TypeParts DEF ListMembers, Go, loopVars, PassTypes
    <2> QED
      BY <2>1, <2>2, EmptyRing DEF Held
  <1>9. ASSUME NEW d \in Device, SavePins(d)
        PROVE  \A e \in Device : Held(e)' \subseteq Held(e) \cup Keys(rows[UserOf[e]].ring)
                                    \cup {k \in minted' \ minted : k[2] = e}
    <2>1. /\ ring'[d] = ring[d] /\ mem'[d] = mem[d]
          /\ pass'[d].ring = pass[d].ring
      BY <1>9, Frames, TypeParts DEF SavePins, Go, loopVars, PassTypes, PassType
    <2>2. \A e \in Device \ {d} : ring'[e] = ring[e] /\ mem'[e] = mem[e] /\ pass'[e] = pass[e]
      BY <1>9, Frames, TypeParts DEF SavePins, Go, loopVars, PassTypes
    <2> QED
      BY <2>1, <2>2, EmptyRing DEF Held
  <1>10. ASSUME NEW d \in Device, Finish(d)
        PROVE  \A e \in Device : Held(e)' \subseteq Held(e) \cup Keys(rows[UserOf[e]].ring)
                                    \cup {k \in minted' \ minted : k[2] = e}
    <2>1. /\ ring'[d] = ring[d] /\ mem'[d] \in {mem[d], pass[d].ring}
          /\ pass'[d].ring = <<>>
      BY <1>10, Frames, TypeParts
         DEF Finish, Fresh, Go, NoPass, loopVars, LoopTypes, PassTypes, PassType
    <2>2. \A e \in Device \ {d} : ring'[e] = ring[e] /\ mem'[e] = mem[e] /\ pass'[e] = pass[e]
      BY <1>10, Frames, TypeParts DEF Finish, Go, loopVars, LoopTypes, PassTypes
    <2> QED
      BY <2>1, <2>2, EmptyRing DEF Held
  <1>11. ASSUME NEW d \in Device, Abort(d)
        PROVE  \A e \in Device : Held(e)' \subseteq Held(e) \cup Keys(rows[UserOf[e]].ring)
                                    \cup {k \in minted' \ minted : k[2] = e}
    <2>1. /\ ring'[d] = ring[d] /\ mem'[d] = mem[d]
          /\ pass'[d].ring = <<>>
      BY <1>11, Frames, TypeParts DEF Abort, Fresh, Go, NoPass, PassTypes, PassType
    <2>2. \A e \in Device \ {d} : ring'[e] = ring[e] /\ mem'[e] = mem[e] /\ pass'[e] = pass[e]
      BY <1>11, Frames, TypeParts DEF Abort, Go, PassTypes
    <2> QED
      BY <2>1, <2>2, EmptyRing DEF Held
  <1>12. ASSUME NEW d \in Device, Demote(d)
        PROVE  \A e \in Device : Held(e)' \subseteq Held(e) \cup Keys(rows[UserOf[e]].ring)
                                    \cup {k \in minted' \ minted : k[2] = e}
    <2>1. /\ ring'[d] = ring[d] /\ mem'[d] = ring[d]
          /\ pass'[d].ring = pass[d].ring
      BY <1>12, Frames, TypeParts DEF Demote, LoopTypes
    <2>2. \A e \in Device \ {d} : ring'[e] = ring[e] /\ mem'[e] = mem[e] /\ pass'[e] = pass[e]
      BY <1>12, Frames, TypeParts DEF Demote, LoopTypes
    <2> QED
      BY <2>1, <2>2, EmptyRing DEF Held
  <1>13. ASSUME NEW d \in Device, GetKey(d)
        PROVE  \A e \in Device : Held(e)' \subseteq Held(e) \cup Keys(rows[UserOf[e]].ring)
                                    \cup {k \in minted' \ minted : k[2] = e}
    <2>1. /\ ring'[d] \in {ring[d], rows[UserOf[d]].ring} /\ mem'[d] \in {ring[d], rows[UserOf[d]].ring}
          /\ pass'[d].ring = pass[d].ring
      BY <1>13, Frames, TypeParts DEF GetKey, LoopTypes
    <2>2. \A e \in Device \ {d} : ring'[e] = ring[e] /\ mem'[e] = mem[e] /\ pass'[e] = pass[e]
      BY <1>13, Frames, TypeParts DEF GetKey, LoopTypes
    <2> QED
      BY <2>1, <2>2, EmptyRing DEF Held
  <1>14. ASSUME NEW d \in Device, Clone(d)
        PROVE  \A e \in Device : Held(e)' \subseteq Held(e) \cup Keys(rows[UserOf[e]].ring)
                                    \cup {k \in minted' \ minted : k[2] = e}
    <2>1. /\ ring'[d] \in {ring[d], rows[UserOf[d]].ring} /\ mem'[d] = mem[d]
          /\ pass'[d].ring = pass[d].ring
      BY <1>14, Frames, TypeParts DEF Clone, loopVars
    <2>2. \A e \in Device \ {d} : ring'[e] = ring[e] /\ mem'[e] = mem[e] /\ pass'[e] = pass[e]
      BY <1>14, Frames, TypeParts DEF Clone, loopVars
    <2> QED
      BY <2>1, <2>2, EmptyRing DEF Held
  <1>15. ASSUME NEW d \in Device, Stop(d)
        PROVE  \A e \in Device : Held(e)' \subseteq Held(e) \cup Keys(rows[UserOf[e]].ring)
                                    \cup {k \in minted' \ minted : k[2] = e}
    <2>1. /\ ring'[d] = ring[d] /\ mem'[d] = <<>>
          /\ pass'[d].ring = pass[d].ring
      BY <1>15, Frames, TypeParts DEF Stop, LoopTypes
    <2>2. \A e \in Device \ {d} : ring'[e] = ring[e] /\ mem'[e] = mem[e] /\ pass'[e] = pass[e]
      BY <1>15, Frames, TypeParts DEF Stop, LoopTypes
    <2> QED
      BY <2>1, <2>2, EmptyRing DEF Held
  <1>16. ASSUME NEW d \in Device, NEW u \in User, Delete(d, u)
        PROVE  \A e \in Device : Held(e)' \subseteq Held(e) \cup Keys(rows[UserOf[e]].ring)
                                    \cup {k \in minted' \ minted : k[2] = e}
    <2>1. /\ ring'[d] = ring[d] /\ mem'[d] = mem[d]
          /\ pass'[d].ring = pass[d].ring
      BY <1>16, Frames, TypeParts DEF Delete, Go, loopVars, PassTypes, PassType
    <2>2. \A e \in Device \ {d} : ring'[e] = ring[e] /\ mem'[e] = mem[e] /\ pass'[e] = pass[e]
      BY <1>16, Frames, TypeParts DEF Delete, Go, loopVars, PassTypes
    <2> QED
      BY <2>1, <2>2, EmptyRing DEF Held
  <1>17. ASSUME NEW d \in Device, NEW t \in pass[d].todo, Put(d, t)
        PROVE  \A e \in Device : Held(e)' \subseteq Held(e) \cup Keys(rows[UserOf[e]].ring)
                                    \cup {k \in minted' \ minted : k[2] = e}
    <2>1. /\ ring'[d] = ring[d] /\ mem'[d] = mem[d]
          /\ pass'[d].ring = pass[d].ring
      BY <1>17, Frames, TypeParts DEF Put, Go, loopVars, PassTypes, PassType
    <2>2. \A e \in Device \ {d} : ring'[e] = ring[e] /\ mem'[e] = mem[e] /\ pass'[e] = pass[e]
      BY <1>17, Frames, TypeParts DEF Put, Go, loopVars, PassTypes
    <2> QED
      BY <2>1, <2>2, EmptyRing DEF Held
  <1>18. ASSUME ring' = ring /\ mem' = mem /\ pass' = pass
        PROVE  \A e \in Device : Held(e)' \subseteq Held(e) \cup Keys(rows[UserOf[e]].ring)
                                    \cup {k \in minted' \ minted : k[2] = e}
    BY <1>18 DEF Held
  <1>19. CASE UNCHANGED vars
    BY <1>18, <1>19 DEF vars, relayVars, content, loopVars, local, ghosts, history
  <1>20. CASE Next
    BY Zenon, <1>1, <1>2, <1>3, <1>4, <1>5, <1>6, <1>7, <1>8, <1>9, <1>10, <1>11, <1>12,
       <1>13, <1>14, <1>15, <1>16, <1>17, <1>18, <1>20, Frames
       DEF Next
  <1> QED
    BY <1>19, <1>20

\* A row only comes from a pass that means to wrap for its user.
LEMMA RowKeysStep ==
    ASSUME TypeOK, [Next]_vars
    PROVE  \A v \in User : \/ Keys(rows'[v].ring) \subseteq Keys(rows[v].ring)
                           \/ \E e \in Device : \E s \in pass[e].todo :
                                 s.user = v /\ rows'[v].ring = pass[e].ring
  <1>1. ASSUME NEW by \in User, NEW u \in User, RemoveMember(by, u)
        PROVE  \A v \in User : \/ Keys(rows'[v].ring) \subseteq Keys(rows[v].ring)
                           \/ \E e \in Device : \E s \in pass[e].todo :
                                 s.user = v /\ rows'[v].ring = pass[e].ring
    BY <1>1, EmptyRing, TypeParts DEF RemoveMember, NoRow, RowTypes
  <1>2. ASSUME NEW d \in Device, NEW u \in User, Delete(d, u)
        PROVE  \A v \in User : \/ Keys(rows'[v].ring) \subseteq Keys(rows[v].ring)
                           \/ \E e \in Device : \E s \in pass[e].todo :
                                 s.user = v /\ rows'[v].ring = pass[e].ring
    BY <1>2, EmptyRing, TypeParts DEF Delete, NoRow, RowTypes
  <1>3. ASSUME NEW d \in Device, NEW t \in pass[d].todo, Put(d, t)
        PROVE  \A v \in User : \/ Keys(rows'[v].ring) \subseteq Keys(rows[v].ring)
                           \/ \E e \in Device : \E s \in pass[e].todo :
                                 s.user = v /\ rows'[v].ring = pass[e].ring
    BY <1>3, TypeParts DEF Put, RowTypes
  <1>4. ASSUME rows' = rows
        PROVE  \A v \in User : \/ Keys(rows'[v].ring) \subseteq Keys(rows[v].ring)
                           \/ \E e \in Device : \E s \in pass[e].todo :
                                 s.user = v /\ rows'[v].ring = pass[e].ring
    BY <1>4
  <1>5. CASE UNCHANGED vars
    BY <1>4, <1>5 DEF vars, relayVars, content, loopVars, local, ghosts, history
  <1>6. CASE Next
    BY Zenon, <1>1, <1>2, <1>3, <1>4, <1>6, Frames DEF Next
  <1> QED
    BY <1>5, <1>6

\* A pass comes to wrap for someone only while he has a role.
LEMMA TodoStep ==
    ASSUME TypeOK, PassesFollow, [Next]_vars
    PROVE  \A e \in Device :
               \/ pass'[e].todo = {}
               \/ pass'[e].ring = pass[e].ring /\ pass'[e].todo \subseteq pass[e].todo
               \/ /\ pass'[e].ring = pass[e].ring /\ unseen' = unseen
                  /\ \A s \in pass'[e].todo : s.user \notin Outsiders
  <1>1. ASSUME NEW d \in Device, FirstKey(d)
        PROVE  \A e \in Device :
               \/ pass'[e].todo = {}
               \/ pass'[e].ring = pass[e].ring /\ pass'[e].todo \subseteq pass[e].todo
               \/ /\ pass'[e].ring = pass[e].ring /\ unseen' = unseen
                  /\ \A s \in pass'[e].todo : s.user \notin Outsiders
    <2>1. pass'[d].todo = {}
      BY <1>1, FollowStep, TypeParts DEF FirstKey, StartPass, Fresh, PassTypes
    <2>2. \A e \in Device \ {d} : pass'[e] = pass[e]
      BY <1>1, TypeParts DEF FirstKey, StartPass, PassTypes, PassTypes
    <2> QED
      BY <2>1, <2>2
  <1>2. ASSUME NEW d \in Device, Join(d)
        PROVE  \A e \in Device :
               \/ pass'[e].todo = {}
               \/ pass'[e].ring = pass[e].ring /\ pass'[e].todo \subseteq pass[e].todo
               \/ /\ pass'[e].ring = pass[e].ring /\ unseen' = unseen
                  /\ \A s \in pass'[e].todo : s.user \notin Outsiders
    <2>1. pass'[d].todo = {}
      BY <1>2, FollowStep, TypeParts DEF Join, StartPass, Fresh, PassTypes
    <2>2. \A e \in Device \ {d} : pass'[e] = pass[e]
      BY <1>2, TypeParts DEF Join, StartPass, PassTypes, PassTypes
    <2> QED
      BY <2>1, <2>2
  <1>3. ASSUME NEW d \in Device, Rekey(d)
        PROVE  \A e \in Device :
               \/ pass'[e].todo = {}
               \/ pass'[e].ring = pass[e].ring /\ pass'[e].todo \subseteq pass[e].todo
               \/ /\ pass'[e].ring = pass[e].ring /\ unseen' = unseen
                  /\ \A s \in pass'[e].todo : s.user \notin Outsiders
    <2>1. pass'[d].todo = {}
      BY <1>3, FollowStep, TypeParts DEF Rekey, StartPass, Fresh, PassTypes
    <2>2. \A e \in Device \ {d} : pass'[e] = pass[e]
      BY <1>3, TypeParts DEF Rekey, StartPass, PassTypes, PassTypes
    <2> QED
      BY <2>1, <2>2
  <1>4. ASSUME NEW d \in Device, Share(d)
        PROVE  \A e \in Device :
               \/ pass'[e].todo = {}
               \/ pass'[e].ring = pass[e].ring /\ pass'[e].todo \subseteq pass[e].todo
               \/ /\ pass'[e].ring = pass[e].ring /\ unseen' = unseen
                  /\ \A s \in pass'[e].todo : s.user \notin Outsiders
    <2>1. \A e \in Device : pass'[e] = pass[e] \/ pass'[e].todo = {}
      BY <1>4, TypeParts DEF Share, StartPass, Fresh, PassTypes
    <2> QED
      BY <2>1
  <1>5. ASSUME NEW d \in Device, ListTeam(d)
        PROVE  \A e \in Device :
               \/ pass'[e].todo = {}
               \/ pass'[e].ring = pass[e].ring /\ pass'[e].todo \subseteq pass[e].todo
               \/ /\ pass'[e].ring = pass[e].ring /\ unseen' = unseen
                  /\ \A s \in pass'[e].todo : s.user \notin Outsiders
    <2> DEFINE p == [pass[d] EXCEPT !.gone = record[d] \ Members,
                 !.stage = IF record[d] \ Members # {} \/ pass[d].kind = "rekey"
                           THEN "merge" ELSE "wrap"]
    <2>1. p.todo = {} /\ NoPass.todo = {}
      BY <1>5, TypeParts DEF ListTeam, At, PassesFollow, PassTypes, PassType, NoPass, Fresh
    <2>2. pass \in [Device -> PassType]
      BY TypeParts DEF PassTypes
    <2>3. CASE pass' = [pass EXCEPT ![d] = p]
      BY <2>1, <2>2, <2>3
    <2>4. CASE pass' = [pass EXCEPT ![d] = NoPass]
      BY <2>1, <2>2, <2>4
    <2> QED
      BY <1>5, <2>3, <2>4 DEF ListTeam, Go
  <1>6. ASSUME NEW d \in Device, Merge(d)
        PROVE  \A e \in Device :
               \/ pass'[e].todo = {}
               \/ pass'[e].ring = pass[e].ring /\ pass'[e].todo \subseteq pass[e].todo
               \/ /\ pass'[e].ring = pass[e].ring /\ unseen' = unseen
                  /\ \A s \in pass'[e].todo : s.user \notin Outsiders
    <2>1. pass'[d].todo = {}
      BY <1>6, FollowStep, TypeParts DEF Merge, Go, At, PassTypes, PassType, PassesFollow
    <2>2. \A e \in Device \ {d} : pass'[e] = pass[e]
      BY <1>6, TypeParts DEF Merge, Go, At, PassTypes, PassesFollow, PassTypes
    <2> QED
      BY <2>1, <2>2
  <1>7. ASSUME NEW d \in Device, Mint(d)
        PROVE  \A e \in Device :
               \/ pass'[e].todo = {}
               \/ pass'[e].ring = pass[e].ring /\ pass'[e].todo \subseteq pass[e].todo
               \/ /\ pass'[e].ring = pass[e].ring /\ unseen' = unseen
                  /\ \A s \in pass'[e].todo : s.user \notin Outsiders
    <2>1. pass'[d].todo = {}
      BY <1>7, FollowStep, TypeParts DEF Mint, Go, At, PassTypes, PassType, PassesFollow
    <2>2. \A e \in Device \ {d} : pass'[e] = pass[e]
      BY <1>7, TypeParts DEF Mint, Go, At, PassTypes, PassesFollow, PassTypes
    <2> QED
      BY <2>1, <2>2
  <1>8. ASSUME NEW d \in Device, ListMembers(d)
        PROVE  \A e \in Device :
               \/ pass'[e].todo = {}
               \/ pass'[e].ring = pass[e].ring /\ pass'[e].todo \subseteq pass[e].todo
               \/ /\ pass'[e].ring = pass[e].ring /\ unseen' = unseen
                  /\ \A s \in pass'[e].todo : s.user \notin Outsiders
    <2>1. pass'[d].todo = {[user |-> u, id |-> bundle[u]] : u \in Wrapped(d)}
          /\ pass'[d].ring = pass[d].ring
      BY <1>8, TypeParts DEF ListMembers, Go, PassTypes, PassType
    <2>2. \A u \in Members : u \notin Outsiders
      <3>1. existed /\ attached
        BY <1>8 DEF ListMembers, At, PassesFollow, CanRead, RoleOn
      <3>2. \A u \in Members : RoleOn(u) # "none"
        BY <3>1 DEF Members, RoleOn
      <3> QED
        BY <3>2 DEF Outsiders
    <2>3. \A e \in Device \ {d} : pass'[e] = pass[e]
      BY <1>8, TypeParts DEF ListMembers, Go, PassTypes
    <2>4. \A t \in pass'[d].todo : t.user \in Members
      BY <2>1 DEF Wrapped
    <2> QED
      BY <1>8, <2>1, <2>2, <2>3, <2>4, Frames
  <1>9. ASSUME NEW d \in Device, SavePins(d)
        PROVE  \A e \in Device :
               \/ pass'[e].todo = {}
               \/ pass'[e].ring = pass[e].ring /\ pass'[e].todo \subseteq pass[e].todo
               \/ /\ pass'[e].ring = pass[e].ring /\ unseen' = unseen
                  /\ \A s \in pass'[e].todo : s.user \notin Outsiders
    <2>1. pass'[d].todo = {}
      BY <1>9, FollowStep, TypeParts DEF SavePins, Go, PassTypes, PassType
    <2>2. \A e \in Device \ {d} : pass'[e] = pass[e]
      BY <1>9, TypeParts DEF SavePins, Go, PassTypes, PassTypes
    <2> QED
      BY <2>1, <2>2
  <1>10. ASSUME NEW d \in Device, Finish(d)
        PROVE  \A e \in Device :
               \/ pass'[e].todo = {}
               \/ pass'[e].ring = pass[e].ring /\ pass'[e].todo \subseteq pass[e].todo
               \/ /\ pass'[e].ring = pass[e].ring /\ unseen' = unseen
                  /\ \A s \in pass'[e].todo : s.user \notin Outsiders
    <2>1. pass'[d].todo = {}
      BY <1>10, FollowStep, TypeParts DEF Finish, Go, NoPass, Fresh, PassTypes
    <2>2. \A e \in Device \ {d} : pass'[e] = pass[e]
      BY <1>10, TypeParts DEF Finish, Go, NoPass, PassTypes, PassTypes
    <2> QED
      BY <2>1, <2>2
  <1>11. ASSUME NEW d \in Device, Abort(d)
        PROVE  \A e \in Device :
               \/ pass'[e].todo = {}
               \/ pass'[e].ring = pass[e].ring /\ pass'[e].todo \subseteq pass[e].todo
               \/ /\ pass'[e].ring = pass[e].ring /\ unseen' = unseen
                  /\ \A s \in pass'[e].todo : s.user \notin Outsiders
    <2>1. pass'[d].todo = {}
      BY <1>11, FollowStep, TypeParts DEF Abort, Go, NoPass, Fresh, PassTypes
    <2>2. \A e \in Device \ {d} : pass'[e] = pass[e]
      BY <1>11, TypeParts DEF Abort, Go, NoPass, PassTypes, PassTypes
    <2> QED
      BY <2>1, <2>2
  <1>12. ASSUME NEW d \in Device, NEW u \in User, Delete(d, u)
        PROVE  \A e \in Device :
               \/ pass'[e].todo = {}
               \/ pass'[e].ring = pass[e].ring /\ pass'[e].todo \subseteq pass[e].todo
               \/ /\ pass'[e].ring = pass[e].ring /\ unseen' = unseen
                  /\ \A s \in pass'[e].todo : s.user \notin Outsiders
    <2>1. pass'[d].todo = {}
      BY <1>12, FollowStep, TypeParts DEF Delete, Go, At, PassTypes, PassType, PassesFollow
    <2>2. \A e \in Device \ {d} : pass'[e] = pass[e]
      BY <1>12, TypeParts DEF Delete, Go, At, PassTypes, PassesFollow, PassTypes
    <2> QED
      BY <2>1, <2>2
  <1>13. ASSUME NEW d \in Device, NEW t \in pass[d].todo, Put(d, t)
        PROVE  \A e \in Device :
               \/ pass'[e].todo = {}
               \/ pass'[e].ring = pass[e].ring /\ pass'[e].todo \subseteq pass[e].todo
               \/ /\ pass'[e].ring = pass[e].ring /\ unseen' = unseen
                  /\ \A s \in pass'[e].todo : s.user \notin Outsiders
    <2>1. pass'[d].todo \subseteq pass[d].todo /\ pass'[d].ring = pass[d].ring
      BY <1>13, TypeParts DEF Put, Go, PassTypes, PassType
    <2>2. \A e \in Device \ {d} : pass'[e] = pass[e]
      BY <1>13, TypeParts DEF Put, Go, PassTypes
    <2> QED
      BY <2>1, <2>2
  <1>14. ASSUME pass' = pass
        PROVE  \A e \in Device :
               \/ pass'[e].todo = {}
               \/ pass'[e].ring = pass[e].ring /\ pass'[e].todo \subseteq pass[e].todo
               \/ /\ pass'[e].ring = pass[e].ring /\ unseen' = unseen
                  /\ \A s \in pass'[e].todo : s.user \notin Outsiders
    BY <1>14
  <1>15. CASE UNCHANGED vars
    BY <1>14, <1>15 DEF vars, relayVars, content, loopVars, local, ghosts, history
  <1>16. CASE Next
    BY Zenon, <1>1, <1>2, <1>3, <1>4, <1>5, <1>6, <1>7, <1>8, <1>9, <1>10, <1>11, <1>12,
       <1>13, <1>14, <1>16, Frames
       DEF Next
  <1> QED
    BY <1>15, <1>16

\* What a user does not know of grows by what others mint while he has no role.
LEMMA UnseenStep ==
    ASSUME TypeOK, PassesFollow, MintedOnFile,
           \A u \in User : u \notin Outsiders => unseen[u] = {}, [Next]_vars
    PROVE  \A v \in User :
               /\ \A k \in unseen'[v] \ unseen[v] : k \in minted' \ minted /\ UserOf[k[2]] # v
               /\ v \notin Outsiders' => unseen'[v] = {}
  <1>1. ASSUME NEW by \in User, NEW u \in User, NEW r \in Role \ {"none"}, AddMember(by, u,
               r)
        PROVE  \A v \in User :
               /\ \A k \in unseen'[v] \ unseen[v] : k \in minted' \ minted /\ UserOf[k[2]] # v
               /\ v \notin Outsiders' => unseen'[v] = {}
    BY <1>1, TypeParts DEF AddMember, Regain, GhostTypes
  <1>2. ASSUME NEW by \in User, NEW u \in User, RemoveMember(by, u)
        PROVE  \A v \in User :
               /\ \A k \in unseen'[v] \ unseen[v] : k \in minted' \ minted /\ UserOf[k[2]] # v
               /\ v \notin Outsiders' => unseen'[v] = {}
    <2>1. Outsiders \subseteq Outsiders'
      BY <1>2, TypeParts, Frames DEF RemoveMember, Outsiders, RoleOn, RelayTypes
    <2> QED
      BY <1>2, <2>1, Frames
  <1>3. ASSUME NEW d \in Device, Create(d)
        PROVE  \A v \in User :
               /\ \A k \in unseen'[v] \ unseen[v] : k \in minted' \ minted /\ UserOf[k[2]] # v
               /\ v \notin Outsiders' => unseen'[v] = {}
    BY <1>3, TypeParts DEF Create, Regain, GhostTypes
  <1>4. ASSUME NEW d \in Device, FirstKey(d)
        PROVE  \A v \in User :
               /\ \A k \in unseen'[v] \ unseen[v] : k \in minted' \ minted /\ UserOf[k[2]] # v
               /\ v \notin Outsiders' => unseen'[v] = {}
    <2>1. PICK k \in Key : k \notin minted /\ Minted(k)
      BY <1>4, FreshKey
    <2>2. Outsiders' = Outsiders
      BY <1>4, Frames DEF Outsiders, RoleOn
    <2> QED
      BY <2>1, <2>2 DEF Minted
  <1>5. ASSUME NEW d \in Device, Join(d)
        PROVE  \A v \in User :
               /\ \A k \in unseen'[v] \ unseen[v] : k \in minted' \ minted /\ UserOf[k[2]] # v
               /\ v \notin Outsiders' => unseen'[v] = {}
    BY <1>5, TypeParts DEF Join, Regain, GhostTypes
  <1>6. ASSUME NEW d \in Device, Share(d)
        PROVE  \A v \in User :
               /\ \A k \in unseen'[v] \ unseen[v] : k \in minted' \ minted /\ UserOf[k[2]] # v
               /\ v \notin Outsiders' => unseen'[v] = {}
    BY <1>6, TypeParts DEF Share, Regain, GhostTypes
  <1>7. ASSUME NEW d \in Device, Mint(d)
        PROVE  \A v \in User :
               /\ \A k \in unseen'[v] \ unseen[v] : k \in minted' \ minted /\ UserOf[k[2]] # v
               /\ v \notin Outsiders' => unseen'[v] = {}
    <2>1. PICK k \in Key : k \notin minted /\ Minted(k)
      BY <1>7, FreshKey
    <2>2. Outsiders' = Outsiders
      BY <1>7, Frames DEF Outsiders, RoleOn
    <2> QED
      BY <2>1, <2>2 DEF Minted
  <1>8. ASSUME existed' = existed /\ attached' = attached /\ role' = role /\ minted' =
               minted /\ unseen' = unseen
        PROVE  \A v \in User :
               /\ \A k \in unseen'[v] \ unseen[v] : k \in minted' \ minted /\ UserOf[k[2]] # v
               /\ v \notin Outsiders' => unseen'[v] = {}
    <2>1. Outsiders' = Outsiders
      BY <1>8 DEF Outsiders, RoleOn
    <2> QED
      BY <1>8, <2>1
  <1>9. CASE UNCHANGED vars
    BY <1>8, <1>9 DEF vars, relayVars, content, loopVars, local, ghosts, history
  <1>10. CASE Next
    BY Zenon, <1>1, <1>2, <1>3, <1>4, <1>5, <1>6, <1>7, <1>8, <1>10, Frames DEF Next
  <1> QED
    BY <1>9, <1>10

\* Without forks a ring file never loses a key.
LEMMA RingKeysStep ==
    ASSUME TypeOK, PassesFollow, MintedOnFile, KeysKnown, NoForks, [Next]_vars
    PROVE  \A e \in Device : Keys(ring[e]) \subseteq Keys(ring'[e])
  <1>1. ASSUME NEW d \in Device, FirstKey(d)
        PROVE  \A e \in Device : Keys(ring[e]) \subseteq Keys(ring'[e])
    <2>1. \A e \in Device : ring'[e] = ring[e] \/ ring[e] = <<>>
      BY <1>1, TypeParts DEF FirstKey
    <2> QED
      BY <2>1, EmptyRing
  <1>2. ASSUME NEW d \in Device, Join(d)
        PROVE  \A e \in Device : Keys(ring[e]) \subseteq Keys(ring'[e])
    <2>1. \A e \in Device : ring'[e] = ring[e] \/ ring[e] = <<>>
      BY <1>2, TypeParts DEF Join
    <2> QED
      BY <2>1, EmptyRing
  <1>3. ASSUME NEW d \in Device, Merge(d)
        PROVE  \A e \in Device : Keys(ring[e]) \subseteq Keys(ring'[e])
    <2> DEFINE u == UserOf[d]
    <2>1. /\ ring[d] \in Ring /\ rows[u].ring \in Ring /\ pass[d].ring = ring[d]
      BY <1>3, RingsOf, RowsOf DEF Merge, At, PassesFollow
    <2>2. ring'[d] \in {ring[d], UnionFrom(ring[d], rows[u].ring)}
      BY <1>3, <2>1, TypeParts DEF Merge
    <2>3. ASSUME NEW g \in 1..Len(ring[d]), g \in 1..Len(rows[u].ring)
          PROVE  ring[d][g] = rows[u].ring[g]
      <3>1. <<g, ring[d][g]>> \in minted /\ <<g, rows[u].ring[g]>> \in minted
        BY <2>1, <2>3, KeysOfRing, RingsOf DEF KeysKnown, Held
      <3> QED
        BY <3>1 DEF NoForks
    <2>4. Keys(ring[d]) \subseteq Keys(UnionFrom(ring[d], rows[u].ring))
      BY <2>1, <2>3, UnionRing
    <2>5. \A e \in Device \ {d} : ring'[e] = ring[e]
      BY <1>3, TypeParts DEF Merge
    <2> QED
      BY <2>2, <2>4, <2>5
  <1>4. ASSUME NEW d \in Device, Mint(d)
        PROVE  \A e \in Device : Keys(ring[e]) \subseteq Keys(ring'[e])
    <2>1. /\ Keys(ring[d]) \subseteq Keys(ring'[d])
          /\ \A e \in Device \ {d} : ring'[e] = ring[e]
      BY <1>4, FreshKey
    <2> QED
      BY <2>1
  <1>5. ASSUME NEW d \in Device, GetKey(d)
        PROVE  \A e \in Device : Keys(ring[e]) \subseteq Keys(ring'[e])
    <2>1. \A e \in Device : ring'[e] = ring[e] \/ ring[e] = <<>>
      BY <1>5, TypeParts DEF GetKey
    <2> QED
      BY <2>1, EmptyRing
  <1>6. ASSUME NEW d \in Device, Clone(d)
        PROVE  \A e \in Device : Keys(ring[e]) \subseteq Keys(ring'[e])
    <2>1. \A e \in Device : ring'[e] = ring[e] \/ ring[e] = <<>>
      BY <1>6, TypeParts DEF Clone
    <2> QED
      BY <2>1, EmptyRing
  <1>7. ASSUME ring' = ring
        PROVE  \A e \in Device : Keys(ring[e]) \subseteq Keys(ring'[e])
    BY <1>7
  <1>8. CASE UNCHANGED vars
    BY <1>7, <1>8 DEF vars, relayVars, content, loopVars, local, ghosts, history
  <1>9. CASE Next
    BY Zenon, <1>1, <1>2, <1>3, <1>4, <1>5, <1>6, <1>7, <1>9, Frames DEF Next
  <1> QED
    BY <1>8, <1>9

(***************************************************************************)
(* The invariant is inductive.                                             *)
(***************************************************************************)

\* Every step keeps the types.
LEMMA TypeStep == TypeOK /\ [Next]_vars => TypeOK'
  <1> SUFFICES ASSUME TypeOK, [Next]_vars PROVE TypeOK'
    OBVIOUS
  <1>1. /\ RelayTypes' /\ RowTypes' /\ ContentTypes' /\ (ring \in [Device -> Ring])'
        /\ LoopTypes' /\ LocalTypes' /\ PassTypes' /\ GhostTypes'
    BY RelayStep, RowStep, ContentStep, RingStep, LoopStep, LocalStep, PassStep, GhostStep
  <1> QED
    BY <1>1 DEF TypeOK, RelayTypes, RowTypes, ContentTypes, LoopTypes, LocalTypes,
                PassTypes, GhostTypes

\* What is used was minted: content under the newest key of a ring, rows and
\* rings out of other rings.
LEMMA KnownStep == IInv /\ [Next]_vars => KeysKnown'
  <1> SUFFICES ASSUME IInv, [Next]_vars PROVE KeysKnown'
    OBVIOUS
  <1> USE DEF IInv
  <1>1. minted \subseteq minted'
    BY MintStep
  <1>2. Needed' \subseteq minted'
    <2>1. ASSUME NEW d \in Device, Snapshot(d)
          PROVE  Needed' \subseteq minted'
      <3>1. Newest(ring[d]) \in minted
        BY <2>1, RingsOf, NewestOfRing DEF Snapshot, KeysKnown, Held
      <3> QED
        BY <2>1, <1>1, <3>1, Frames DEF Snapshot, KeysKnown, Needed
    <2>2. ASSUME NEW d \in Device, NEW edited \in SUBSET File, Converge(d, edited)
          PROVE  Needed' \subseteq minted'
      <3>1. Newest(mem[d]) \in minted
        BY <2>2, RingsOf, TypeParts, NewestOfRing DEF Converge, LoopTypes, KeysKnown, Held
      <3>2. head'.seal = Newest(mem[d])
        BY <2>2 DEF Converge
      <3>3. \A f \in File : head'.file[f] \in {Newest(mem[d]), head.file[f]}
        BY <2>2 DEF Converge
      <3>4. snaps' = snaps
        BY <2>2, Frames
      <3> QED
        BY <1>1, <3>1, <3>2, <3>3, <3>4 DEF KeysKnown, Needed
    <2>3. ASSUME head' = head /\ snaps' = snaps
          PROVE  Needed' \subseteq minted'
      BY <2>3, <1>1 DEF KeysKnown, Needed
    <2>4. CASE UNCHANGED vars
      BY <2>3, <2>4 DEF vars, content
    <2>5. CASE Next
      BY Zenon, <2>1, <2>2, <2>3, <2>5, Frames DEF Next
    <2> QED
      BY <2>4, <2>5
  <1>3. ASSUME NEW u \in User
        PROVE  Keys(rows'[u].ring) \subseteq minted'
    <2>1. CASE Keys(rows'[u].ring) \subseteq Keys(rows[u].ring)
      BY <1>1, <2>1 DEF KeysKnown
    <2>2. CASE \E d \in Device : rows'[u].ring = pass[d].ring
      BY <1>1, <2>2 DEF KeysKnown, Held
    <2> QED
      BY <2>1, <2>2, RowKeysStep
  <1>4. ASSUME NEW d \in Device
        PROVE  Held(d)' \subseteq minted'
    <2>1. Held(d) \subseteq minted /\ Keys(rows[UserOf[d]].ring) \subseteq minted
      BY RingsOf DEF KeysKnown
    <2> QED
      BY <1>1, <2>1, HeldStep
  <1> QED
    BY <1>2, <1>3, <1>4 DEF KeysKnown

\* What was minted stays on its minter's file, which only grows.
LEMMA OnFileStep == IInv /\ [Next]_vars => MintedOnFile'
  <1> SUFFICES ASSUME IInv, [Next]_vars, NEW k \in minted' PROVE k[1] <= Len(ring'[k[2]])
    BY DEF MintedOnFile
  <1> USE DEF IInv
  <1>1. CASE k \notin minted
    BY <1>1, MintStep
  <1>2. CASE k \in minted
    <2>1. k[2] \in Device /\ k[1] \in Nat
      BY <1>2, KeyPair, TypeParts, BoundsAssumption DEF GhostTypes
    <2>2. k[1] <= Len(ring[k[2]]) /\ Len(ring'[k[2]]) >= Len(ring[k[2]])
      BY <1>2, <2>1, GrowStep DEF MintedOnFile
    <2>3. Len(ring[k[2]]) \in Nat /\ Len(ring'[k[2]]) \in Nat
      BY <2>1, RingStep, RingsOf, RingShape
    <2> QED
      BY <2>1, <2>2, <2>3
  <1> QED
    BY <1>1, <1>2

\* A key minted after a user lost his role is never in what a device of his
\* comes to hold, nor in a row a pass writes for him.
LEMMA UnknownStep == IInv /\ [Next]_vars => Unknown'
  <1> SUFFICES ASSUME IInv, [Next]_vars, NEW u \in User
               PROVE  /\ u \notin Outsiders' => unseen'[u] = {}
                      /\ unseen'[u] \subseteq minted'
                      /\ Keys(rows'[u].ring) \cap unseen'[u] = {}
                      /\ \A d \in Device :
                            /\ UserOf[d] = u => Held(d)' \cap unseen'[u] = {}
                            /\ \A t \in pass'[d].todo :
                                  t.user = u => Keys(pass'[d].ring) \cap unseen'[u] = {}
    BY DEF Unknown
  <1> USE DEF IInv
  <1>1. /\ u \notin Outsiders' => unseen'[u] = {}
        /\ \A k \in unseen'[u] \ unseen[u] : k \in minted' \ minted /\ UserOf[k[2]] # u
    BY UnseenStep DEF Unknown
  <1>2. unseen'[u] \subseteq minted'
    BY <1>1, MintStep DEF Unknown
  <1>3. \A k \in minted \cap unseen'[u] : k \in unseen[u]
    BY <1>1
  <1>4. Keys(rows'[u].ring) \cap unseen'[u] = {}
    <2>1. CASE Keys(rows'[u].ring) \subseteq Keys(rows[u].ring)
      BY <1>3, <2>1 DEF Unknown, KeysKnown
    <2>2. CASE \E d \in Device : \E t \in pass[d].todo :
                  t.user = u /\ rows'[u].ring = pass[d].ring
      <3>1. PICK d \in Device : /\ rows'[u].ring = pass[d].ring
                                /\ Keys(pass[d].ring) \cap unseen[u] = {}
        BY <2>2 DEF Unknown
      <3>2. Keys(pass[d].ring) \subseteq minted
        BY DEF KeysKnown, Held
      <3> QED
        BY <1>3, <3>1, <3>2
    <2> QED
      BY <2>1, <2>2, RowKeysStep
  <1>5. ASSUME NEW d \in Device, UserOf[d] = u, NEW k \in Held(d)', k \in unseen'[u]
        PROVE  FALSE
    <2>1. CASE k \in Held(d) \cup Keys(rows[u].ring)
      BY <1>3, <1>5, <2>1 DEF Unknown, KeysKnown
    <2>2. CASE k \in minted' \ minted /\ k[2] = d
      BY <1>1, <1>5, <2>2 DEF Unknown
    <2> QED
      BY <1>5, <2>1, <2>2, HeldStep
  <1>6. ASSUME NEW d \in Device, NEW t \in pass'[d].todo, t.user = u
        PROVE  Keys(pass'[d].ring) \cap unseen'[u] = {}
    <2>1. Keys(pass[d].ring) \subseteq minted
      BY DEF KeysKnown, Held
    <2>2. CASE pass'[d].ring = pass[d].ring /\ t \in pass[d].todo
      BY <1>3, <1>6, <2>1, <2>2 DEF Unknown
    <2>3. CASE pass'[d].ring = pass[d].ring /\ unseen' = unseen /\ t.user \notin Outsiders
      BY <1>6, <2>3 DEF Unknown
    <2> QED
      BY <1>6, <2>2, <2>3, TodoStep
  <1> QED
    BY <1>1, <1>2, <1>4, <1>5, <1>6

\* Without forks no merge replaces a key of the minter's own.
LEMMA MintersStep == IInv /\ [Next]_vars => MintersKeep'
  <1> SUFFICES ASSUME IInv, [Next]_vars, NoForks', NEW k \in minted'
               PROVE  k \in Keys(ring'[k[2]])
    BY DEF MintersKeep
  <1> USE DEF IInv
  <1>1. NoForks
    BY MintStep DEF NoForks
  <1>2. CASE k \notin minted
    BY <1>2, MintStep
  <1>3. CASE k \in minted
    <2>1. k[2] \in Device /\ k \in Keys(ring[k[2]])
      BY <1>1, <1>3, KeyPair, TypeParts DEF GhostTypes, MintersKeep
    <2> QED
      BY <1>1, <2>1, RingKeysStep
  <1> QED
    BY <1>2, <1>3

\* Nobody has a key yet.
LEMMA InitInvariant == Init => IInv
  <1> SUFFICES ASSUME Init PROVE IInv
    OBVIOUS
  <1>1. TypeOK
    BY InitTypes
  <1>2. \A d \in Device : ring[d] = <<>> /\ mem[d] = <<>> /\ pass[d].ring = <<>>
                          /\ pass[d].stage = "none" /\ pass[d].todo = {}
    BY DEF Init, NoPass, Fresh
  <1>3. \A u \in User : rows[u].ring = <<>> /\ unseen[u] = {}
    BY DEF Init, NoRow
  <1>4. minted = {} /\ Needed = {}
    BY DEF Init, Needed
  <1>5. PassesFollow
    BY <1>2 DEF PassesFollow
  <1>6. KeysKnown
    BY <1>2, <1>3, <1>4, EmptyRing DEF KeysKnown, Held
  <1>7. MintedOnFile /\ MintersKeep
    BY <1>4 DEF MintedOnFile, MintersKeep
  <1>8. Unknown
    BY <1>2, <1>3 DEF Unknown
  <1> QED
    BY <1>1, <1>5, <1>6, <1>7, <1>8 DEF IInv

\* The invariant holds initially and is kept by every step.
THEOREM Invariance == Spec => []IInv
  <1>1. IInv /\ [Next]_vars => IInv'
    BY TypeStep, FollowStep, KnownStep, OnFileStep, UnknownStep, MintersStep DEF IInv
  <1> QED
    BY InitInvariant, <1>1, PTL DEF Spec

(***************************************************************************)
(* The theorems.                                                           *)
(***************************************************************************)

\* Every variable keeps its type, and no row, pass or converging loop ever has
\* an empty ring: nothing but the first join invents a ring (e2e.rs:241-246).
THEOREM TypeCorrect == Spec => []TypeOK
  <1>1. IInv => TypeOK
    BY DEF IInv
  <1> QED
    BY <1>1, Invariance, PTL

\* No generation is used that its minter does not have on file: what is used
\* was minted, and a mint stores the ring before the relay hears of it
\* (e2e.rs:756-759).
THEOREM StoredBeforeUse == Spec => []PersistedFirst
  <1>1. IInv => PersistedFirst
    <2> SUFFICES ASSUME IInv PROVE PersistedFirst
      OBVIOUS
    <2>1. /\ \A k \in Needed : k \in minted
          /\ \A u \in User : \A k \in Keys(rows[u].ring) : k \in minted
          /\ \A d \in Device : \A k \in Held(d) : k \in minted
      BY DEF IInv, KeysKnown
    <2>2. \A k \in minted : k[1] <= Len(ring[k[2]])
      BY DEF IInv, MintedOnFile
    <2>3. \A k \in UNION {Keys(rows[u].ring) : u \in User} : k \in minted
      BY Zenon, <2>1
    <2>4. \A k \in UNION {Held(d) : d \in Device} : k \in minted
      BY Zenon, <2>1
    <2> QED
      BY <2>1, <2>2, <2>3, <2>4 DEF PersistedFirst
  <1> QED
    BY <1>1, Invariance, PTL

\* Removal cuts off: no key that others minted since a user lost his role is in
\* his row or on a device of his (e2e.rs:486-488, routes.rs:783-788).
THEOREM RemovedStayOut == Spec => []Cutoff
  <1>1. IInv => Cutoff
    BY DEF IInv, Cutoff, Unknown, Outsiders
  <1> QED
    BY <1>1, Invariance, PTL

\* Content is only ever stranded by two mints of one generation: without them a
\* minter's own file keeps every key it minted, and the merge adopts only what
\* is missing (DESIGN.md:1867-1870).
THEOREM NothingStranded == Spec => []LostOnlyByForks
  <1>1. IInv => LostOnlyByForks
    <2> SUFFICES ASSUME IInv, NoForks, NEW k \in Needed
                 PROVE  \E d \in Device : k \in Keys(ring[d])
      BY DEF LostOnlyByForks
    <2>1. k \in minted /\ k[2] \in Device
      BY KeyPair, TypeParts DEF IInv, KeysKnown, GhostTypes
    <2> QED
      BY <2>1 DEF IInv, MintersKeep
  <1> QED
    BY <1>1, Invariance, PTL

\* More than one owner is someone else who is an owner.
LEMMA AnotherOwner ==
    ASSUME NEW u, Cardinality(Owners) > 1
    PROVE  \E v \in Owners : v # u
  <1> SUFFICES ASSUME \A v \in Owners : v = u PROVE FALSE
    OBVIOUS
  <1>1. Owners = {} \/ Owners = {u}
    OBVIOUS
  <1>2. Cardinality({}) = 0 /\ Cardinality({u}) = 1
    BY FS_EmptySet, FS_Singleton
  <1> QED
    BY <1>1, <1>2

\* No team is ever without an owner: whoever grants or removes stays one, and
\* who demotes or removes himself leaves another (routes.rs:783-785, 816).
THEOREM TeamsAreOwned == Spec => []TeamIsOwned
  <1>1. Init => TeamIsOwned
    BY DEF Init, TeamIsOwned, Owners
  <1>2. TypeOK /\ TeamIsOwned /\ [Next]_vars => TeamIsOwned'
    <2> SUFFICES ASSUME TypeOK, TeamIsOwned, [Next]_vars PROVE \E v \in User : role'[v] = "owner"
      BY DEF TeamIsOwned, Owners
    <2>1. ASSUME NEW by \in User, NEW u \in User, NEW r \in Role \ {"none"}, AddMember(by,
                 u, r)
          PROVE  \E v \in User : role'[v] = "owner"
      <3>1. role' = [role EXCEPT ![u] = r] /\ role[by] = "owner" /\ role \in [User -> Role]
        BY <2>1, TypeParts DEF AddMember, RelayTypes
      <3>2. CASE by # u \/ r = "owner"
        BY <3>1, <3>2
      <3>3. CASE by = u /\ r # "owner"
        <4>1. PICK v \in Owners : v # u
          BY <2>1, <3>3, AnotherOwner DEF AddMember
        <4> QED
          BY <3>1, <4>1 DEF Owners
      <3> QED
        BY <3>2, <3>3
    <2>2. ASSUME NEW by \in User, NEW u \in User, RemoveMember(by, u)
          PROVE  \E v \in User : role'[v] = "owner"
      <3>1. role' = [role EXCEPT ![u] = "none"] /\ role \in [User -> Role]
        BY <2>2, TypeParts DEF RemoveMember, RelayTypes
      <3>2. CASE role[u] = "owner"
        <4>1. PICK v \in Owners : v # u
          BY <2>2, <3>2, AnotherOwner DEF RemoveMember
        <4> QED
          BY <3>1, <4>1 DEF Owners
      <3>3. CASE role[u] # "owner"
        <4>1. PICK v \in User : role[v] = "owner"
          BY DEF TeamIsOwned, Owners
        <4> QED
          BY <3>1, <3>3, <4>1
      <3> QED
        BY <3>2, <3>3
    <2>3. ASSUME role' = role
          PROVE  \E v \in User : role'[v] = "owner"
      BY <2>3 DEF TeamIsOwned, Owners
    <2>4. CASE UNCHANGED vars
      BY <2>3, <2>4 DEF vars, relayVars
    <2>5. CASE Next
      BY Zenon, <2>1, <2>2, <2>3, <2>5, Frames DEF Next
    <2> QED
      BY <2>4, <2>5
  <1> QED
    BY <1>1, <1>2, TypeCorrect, PTL DEF Spec

\* No step shortens a ring file.
THEOREM FilesGrow == Spec => RingsGrow
  <1>1. IInv /\ [Next]_vars => [\A d \in Device : Len(ring'[d]) >= Len(ring[d])]_vars
    BY GrowStep DEF IInv
  <1> QED
    BY <1>1, Invariance, PTL DEF Spec, RingsGrow

\* No key is minted twice: the generation of a first join or of a rotation is
\* above all that its device has on file.
THEOREM KeysAreFresh ==
    Spec => [][\A d \in Device : FirstKey(d) \/ Mint(d) => Newest(ring'[d]) \notin minted]_vars
  <1>1. IInv /\ [Next]_vars =>
            [\A d \in Device : FirstKey(d) \/ Mint(d) => Newest(ring'[d]) \notin minted]_vars
    BY FreshKey DEF IInv
  <1> QED
    BY <1>1, Invariance, PTL DEF Spec
=============================================================================
