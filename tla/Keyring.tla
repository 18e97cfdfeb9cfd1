------------------------------- MODULE Keyring -------------------------------
(***************************************************************************)
(* The key rings of one end-to-end encrypted workspace (core/src/e2e.rs)   *)
(* with everything they depend on: the team and its roles                  *)
(* (relay/src/routes.rs, db.rs), the identity bundles and the pins         *)
(* (cli/src/main.rs, core/src/known_keys.rs), the rows of wrapped rings    *)
(* the relay keeps, and the commands and loops that read, extend and       *)
(* publish rings (cli/src/main.rs, cli/src/loops.rs).                      *)
(*                                                                         *)
(* A ring maps the generations 1..n to keys; from_legacy, rotate and the   *)
(* union of two rings build no other shape.  No two keys are minted for    *)
(* one generation by one device (the theorem KeysAreFresh), so a ring is   *)
(* the sequence of the devices that minted its generations and a key is    *)
(* the pair of its generation and its minter.  The empty sequence is a     *)
(* device without a ring file.                                             *)
(***************************************************************************)
EXTENDS Integers, Sequences, FiniteSets

CONSTANTS
    User,           \* the relay's users
    Device,         \* folders, each on a machine of its own
    UserOf,         \* whose token, and whose identity, a device has
    Nameless,       \* the devices that run without --name
    Founder,        \* who registers the workspace, and so owns it
    File,           \* the files of the workspace
    MaxGen,         \* bound: generations of a ring
    MaxCommands,    \* bound: commands the users give
    MaxIdentity     \* bound: identities a user makes

ASSUME UsersAssumption == /\ UserOf \in [Device -> User]
                          /\ Nameless \subseteq Device
                          /\ Founder \in User
ASSUME BoundsAssumption == /\ MaxGen \in Nat \ {0} /\ MaxIdentity \in Nat \ {0}
                           /\ MaxCommands \in Nat

VARIABLES
    existed,    \* the workspace is registered at the relay
    attached,   \* it is attached to the team
    role,       \* the roles of the team's members
    bundle,     \* the identity bundle a user registered: 0, none yet
    rows,       \* wrapped_keys: a user's ring, and the identity it is for
    head,       \* the key of the head's manifest and of each file's chunks
    snaps,      \* the keys the snapshots are sealed under
    ring,       \* .pear/workspace_keys of a device
    mode,       \* what the device's join or mirror is doing
    mem,        \* the ring a running loop works with
    record,     \* .pear/wrapped_members.json
    pins,       \* known_keys of a device's machine
    pass,       \* the rotation or wrap pass a device is in
    minted,     \* every key minted so far (history)
    unseen,     \* what others minted since a user last had a role (history)
    left        \* the commands still to come (the bound MaxCommands)

relayVars == <<existed, attached, role, bundle, rows>>
content == <<head, snaps>>
loopVars == <<mode, mem>>
local == <<record, pins>>
ghosts == <<minted, unseen>>
history == <<ghosts, left>>
vars == <<relayVars, content, ring, loopVars, local, pass, history>>

(***************************************************************************)
(* Rings.                                                                  *)
(***************************************************************************)
Key == (1..MaxGen) \X Device
Ring == {r \in Seq(Device) : Len(r) <= MaxGen}
NoKey == <<0, 0>>

Keys(r) == {<<g, r[g]>> : g \in DOMAIN r}
Newest(r) == <<Len(r), r[Len(r)]>>

\* Keyring::rotate: a fresh key, one generation above the newest.
Rotate(r, d) == Append(r, d)

\* Mutant: the relay's ring replaces the local one.
UnionReplaces(mine, other) == other

\* Keyring::union_from: generations missing here are adopted, and the other
\* ring wins where the two differ.
UnionFrom(mine, other) ==
    [g \in 1..(IF Len(mine) < Len(other) THEN Len(other) ELSE Len(mine)) |->
        IF g \in DOMAIN other THEN other[g] ELSE mine[g]]

(***************************************************************************)
(* The relay's roles.                                                      *)
(***************************************************************************)
Role == {"none", "reader", "writer", "owner"}
Members == {u \in User : role[u] # "none"}
Owners == {u \in User : role[u] = "owner"}

RoleOn(u) == CASE ~existed -> "none"
               [] existed /\ u = Founder -> "owner"
               [] existed /\ u # Founder /\ attached -> role[u]
               [] OTHER -> "none"
Outsiders == {u \in User : RoleOn(u) = "none"}
CanRead(u) == RoleOn(u) # "none"
CanWrite(u) == RoleOn(u) \in {"writer", "owner"}
CanAttach(u) == existed /\ u = Founder /\ role[u] \in {"writer", "owner"}

(***************************************************************************)
(* Rows, passes and what a device starts with.                             *)
(***************************************************************************)
NoRow == [to |-> 0, ring |-> <<>>]
NoPins == [u \in User |-> 0]
Fresh(stage, kind, r) ==
    [stage |-> stage, kind |-> kind, ring |-> r, gone |-> {}, todo |-> {},
     done |-> {}, pins |-> NoPins]
NoPass == Fresh("none", "none", <<>>)

Init ==
    /\ existed = FALSE /\ attached = FALSE
    /\ \E o \in User : role = [u \in User |-> IF u = o THEN "owner" ELSE "none"]
    /\ bundle = [u \in User |-> 0]
    /\ rows = [u \in User |-> NoRow]
    /\ head = [seal |-> NoKey, file |-> [f \in File |-> NoKey]]
    /\ snaps = {}
    /\ ring = [d \in Device |-> <<>>]
    /\ mode = [d \in Device |-> "off"]
    /\ mem = [d \in Device |-> <<>>]
    /\ record = [d \in Device |-> {}]
    /\ pins = [d \in Device |-> NoPins]
    /\ pass = [d \in Device |-> NoPass]
    /\ minted = {}
    /\ unseen = [u \in User |-> {}]
    /\ left = MaxCommands

\* Whoever has a role again starts over: the next wrap hands him the full
\* ring.
Regain == unseen' = [u \in User |-> IF u \in Outsiders' THEN unseen[u] ELSE {}]

\* A user gives a command.
Command == left > 0 /\ left' = left - 1

\* A key exists from the moment it is generated.
Minted(k) ==
    /\ minted' = minted \cup {k}
    /\ unseen' = [u \in User |-> IF u \in Outsiders /\ u # UserOf[k[2]]
                                 THEN unseen[u] \cup {k} ELSE unseen[u]]

(***************************************************************************)
(* The team: each handler runs as one transaction under the relay's        *)
(* database lock.                                                          *)
(***************************************************************************)
\* The last owner may not demote himself.
AddMember(by, u, r) ==
    /\ Command
    /\ role[by] = "owner" /\ role[u] # r
    /\ (by = u /\ r # "owner") => Cardinality(Owners) > 1
    /\ role' = [role EXCEPT ![u] = r]
    /\ UNCHANGED <<existed, attached, bundle, rows, content, ring, loopVars,
                   local, pass, minted>>
    /\ Regain

\* Owners remove, members leave; the last owner stays.  The member's row
\* goes in the same transaction when the workspace is the team's.
RemoveMember(by, u) ==
    /\ Command
    /\ role[by] = "owner" \/ (by = u /\ by \in Members)
    /\ u \in Members
    /\ role[u] = "owner" => Cardinality(Owners) > 1
    /\ role' = [role EXCEPT ![u] = "none"]
    /\ rows' = IF attached THEN [rows EXCEPT ![u] = NoRow] ELSE rows
    /\ UNCHANGED <<existed, attached, bundle, content, ring, loopVars, local,
                   pass, ghosts>>

\* pear user keygen: the first identity, or a new one after the files were
\* lost.  The user's devices all have it (pear user export, import).
Keygen(u) ==
    /\ Command
    /\ bundle[u] < MaxIdentity
    /\ bundle' = [bundle EXCEPT ![u] = @ + 1]
    /\ UNCHANGED <<existed, attached, role, rows, content, ring, loopVars,
                   local, pass, ghosts>>

\* pear trust: pin the identity the relay serves now.
Trust(d, u) ==
    /\ Command
    /\ bundle[u] \notin {0, pins[d][u]}
    /\ pins' = [pins EXCEPT ![d][u] = bundle[u]]
    /\ UNCHANGED <<relayVars, content, ring, loopVars, record, pass, ghosts>>

(***************************************************************************)
(* Joining: register_workspace, then the ring, then the rotation pass.     *)
(***************************************************************************)
At(d, stage) == pass[d].stage = stage
Idle(d) == mode[d] = "off" /\ At(d, "none")

\* The device reads its user's row: what fetch_and_unwrap_workspace_key
\* needs to succeed.
CanFetch(d) ==
    LET u == UserOf[d] IN
    /\ d \notin Nameless /\ bundle[u] # 0
    /\ CanRead(u)
    /\ rows[u] # NoRow /\ rows[u].to = bundle[u]

StartPass(d, kind, stage, r) == pass' = [pass EXCEPT ![d] = Fresh(stage, kind, r)]

\* --team: the owner of the workspace attaches it; anyone else goes on
\* without.
Attach(d) ==
    /\ attached' \in {attached, attached \/ CanAttach(UserOf[d])}

\* The relay has no such workspace yet.
LookUp(d) ==
    /\ Command
    /\ Idle(d) /\ ~existed
    /\ mode' = [mode EXCEPT ![d] = "creating"]
    /\ UNCHANGED <<relayVars, content, ring, mem, local, pass, ghosts>>

\* The create is idempotent: whoever has a role on a workspace that was
\* registered meanwhile takes its id_conflict for a success.
Create(d) ==
    LET u == UserOf[d] IN
    /\ mode[d] = "creating"
    /\ IF existed THEN CanRead(u) ELSE u = Founder
    /\ existed' = TRUE
    /\ attached' \in {attached, attached \/ (u = Founder /\ role[u] \in {"writer", "owner"})}
    /\ mode' = [mode EXCEPT ![d] = "created"]
    /\ UNCHANGED <<role, bundle, rows, content, ring, mem, local, pass, minted, left>>
    /\ Regain

\* load_or_create_workspace_keyring: this join found no workspace, so it is
\* the writer that mints generation 1.
FirstKey(d) ==
    LET r == Rotate(<<>>, d) IN
    /\ mode[d] = "created" /\ ring[d] = <<>>
    /\ ring' = [ring EXCEPT ![d] = r]
    /\ Minted(Newest(r))
    /\ mode' = [mode EXCEPT ![d] = "joining"]
    /\ StartPass(d, "loop", "list", r)
    /\ UNCHANGED <<relayVars, content, mem, local, left>>

\* A join of a workspace that is there: with the ring on file, or with the
\* user's own row, stored before anything else happens.
Join(d) ==
    /\ Command
    /\ Idle(d) /\ CanRead(UserOf[d])
    /\ \/ ring[d] # <<>> /\ UNCHANGED ring
       \/ /\ ring[d] = <<>> /\ CanFetch(d)
          /\ ring' = [ring EXCEPT ![d] = rows[UserOf[d]].ring]
    /\ Attach(d)
    /\ mode' = [mode EXCEPT ![d] = "joining"]
    /\ StartPass(d, "loop", "list", ring'[d])
    /\ UNCHANGED <<existed, role, bundle, rows, content, mem, local, minted>>
    /\ Regain

\* Mutant: a rekey without a ring file starts from nothing.
RekeyInvents(d) ==
    /\ Command
    /\ At(d, "none") /\ mode[d] \notin {"creating", "created"}
    /\ CanRead(UserOf[d]) /\ attached
    /\ StartPass(d, "rekey", "list", ring[d])
    /\ UNCHANGED <<relayVars, content, ring, loopVars, local, ghosts>>

\* pear rekey: it needs a team and a ring, and a loop may be running.
Rekey(d) ==
    /\ Command
    /\ At(d, "none") /\ mode[d] \notin {"creating", "created"}
    /\ CanRead(UserOf[d]) /\ attached /\ ring[d] # <<>>
    /\ StartPass(d, "rekey", "list", ring[d])
    /\ UNCHANGED <<relayVars, content, ring, loopVars, local, ghosts>>

\* pear share: attach, then wrap the ring as it is.
Share(d) ==
    /\ Command
    /\ At(d, "none") /\ mode[d] \notin {"creating", "created"}
    /\ CanAttach(UserOf[d])
    /\ attached' = TRUE
    /\ IF ring[d] # <<>> THEN StartPass(d, "share", "wrap", ring[d])
                         ELSE UNCHANGED pass
    /\ UNCHANGED <<existed, role, bundle, rows, content, ring, loopVars, local,
                   minted>>
    /\ Regain

(***************************************************************************)
(* rotation_maintenance (kinds "loop" and "rekey") and wrap_maintenance    *)
(* ("share"), one relay call or file write at a time.                      *)
(***************************************************************************)
Go(d, p) == pass' = [pass EXCEPT ![d] = p]

\* Without a team there is nothing to do; the listing is for members only.
\* Who was wrapped for and is gone makes the pass rotate, and so does rekey.
ListTeam(d) ==
    LET gone == record[d] \ Members
        p == [pass[d] EXCEPT !.gone = gone,
                !.stage = IF gone # {} \/ pass[d].kind = "rekey" THEN "merge" ELSE "wrap"]
    IN /\ At(d, "list") /\ CanRead(UserOf[d])
       /\ \/ /\ attached /\ UserOf[d] \in Members
             /\ Go(d, p)
             /\ UNCHANGED loopVars
          \/ /\ ~attached
             /\ Go(d, NoPass)
             /\ mode' = [mode EXCEPT ![d] = "converging"]
             /\ mem' = [mem EXCEPT ![d] = pass[d].ring]
       /\ UNCHANGED <<relayVars, content, ring, local, history>>

\* merge_relay_keyring, and its result stored before the mint.  No name, no
\* identity and no row (a 404, so no role too) are ordinary: the pass goes on
\* with its own ring.  A row for another identity is an error.
Merge(d) ==
    LET u == UserOf[d]
        skip == d \in Nameless \/ bundle[u] = 0 \/ rows[u] = NoRow \/ ~CanRead(u)
        r == IF skip THEN pass[d].ring ELSE UnionFrom(pass[d].ring, rows[u].ring)
    IN /\ At(d, "merge")
       /\ skip \/ rows[u].to = bundle[u]
       /\ ring' = IF r = pass[d].ring THEN ring ELSE [ring EXCEPT ![d] = r]
       /\ Go(d, [pass[d] EXCEPT !.stage = "mint", !.ring = r])
       /\ UNCHANGED <<relayVars, content, loopVars, local, history>>

\* Mutant: the rotated ring goes to the relay first.
MintUnsaved(d) ==
    LET r == Rotate(pass[d].ring, d) IN
    /\ At(d, "mint") /\ Len(pass[d].ring) < MaxGen
    /\ Minted(Newest(r))
    /\ Go(d, [pass[d] EXCEPT !.ring = r,
                !.stage = IF pass[d].gone = {} THEN "wrap" ELSE "delete"])
    /\ UNCHANGED <<relayVars, content, ring, loopVars, local, left>>

\* The new generation is stored before the relay hears of it.
Mint(d) ==
    LET r == Rotate(pass[d].ring, d) IN
    /\ At(d, "mint") /\ Len(pass[d].ring) < MaxGen
    /\ ring' = [ring EXCEPT ![d] = r]
    /\ Minted(Newest(r))
    /\ Go(d, [pass[d] EXCEPT !.ring = r,
                !.stage = IF pass[d].gone = {} THEN "wrap" ELSE "delete"])
    /\ UNCHANGED <<relayVars, content, loopVars, local, left>>

\* The rows of the departed, one call each.
Delete(d, u) ==
    /\ At(d, "delete") /\ u \in pass[d].gone
    /\ CanWrite(UserOf[d])
    /\ rows' = [rows EXCEPT ![u] = NoRow]
    /\ Go(d, [pass[d] EXCEPT !.gone = @ \ {u},
                !.stage = IF pass[d].gone = {u} THEN "wrap" ELSE "delete"])
    /\ UNCHANGED <<existed, attached, role, bundle, content, ring, loopVars,
                   local, history>>

\* Mutant: whoever was wrapped for last time is wrapped for again.
WrappedAgain(d) ==
    {u \in Members \cup record[d] : bundle[u] # 0 /\ pins[d][u] \in {0, bundle[u]}}

\* classify_member: who has a bundle is wrapped for unless it differs from
\* the pin, and is pinned at first sight.
Wrapped(d) == {u \in Members : bundle[u] # 0 /\ pins[d][u] \in {0, bundle[u]}}

\* The second listing, which wrap_maintenance makes for itself.
\* The pins are read here; a first sight makes them dirty.
ListMembers(d) ==
    /\ At(d, "wrap") /\ CanRead(UserOf[d]) /\ UserOf[d] \in Members
    /\ Go(d, [pass[d] EXCEPT !.stage = "put",
                !.todo = {[user |-> u, id |-> bundle[u]] : u \in Wrapped(d)},
                !.pins = IF \E u \in Wrapped(d) : pins[d][u] = 0
                         THEN [u \in User |-> IF u \in Wrapped(d) THEN bundle[u]
                                                                 ELSE pins[d][u]]
                         ELSE NoPins])
    /\ UNCHANGED <<relayVars, content, ring, loopVars, local, history>>

\* PUT keys/:user: writers only, and it replaces the row.
Put(d, t) ==
    /\ At(d, "put") /\ t \in pass[d].todo
    /\ CanWrite(UserOf[d])
    /\ rows' = [rows EXCEPT ![t.user] = [to |-> t.id, ring |-> pass[d].ring]]
    /\ Go(d, [pass[d] EXCEPT !.todo = @ \ {t}, !.done = @ \cup {t.user}])
    /\ UNCHANGED <<existed, attached, role, bundle, content, ring, loopVars,
                   local, history>>

\* known_keys::save replaces the whole file by what the pass has in memory,
\* when this pass pinned someone.
SavePins(d) ==
    /\ At(d, "put") /\ pass[d].todo = {}
    /\ pins' = IF pass[d].pins # NoPins THEN [pins EXCEPT ![d] = pass[d].pins]
                                         ELSE pins
    /\ Go(d, [pass[d] EXCEPT !.stage = "record", !.pins = NoPins])
    /\ UNCHANGED <<relayVars, content, ring, loopVars, record, history>>

\* A rotation pass records whom it wrapped for; a join then starts its loop
\* with the ring it has in memory, and never reads the file again.
Finish(d) ==
    /\ At(d, "record")
    /\ record' = IF pass[d].kind = "share" THEN record
                 ELSE [record EXCEPT ![d] = pass[d].done]
    /\ IF pass[d].kind = "loop"
       THEN /\ mode' = [mode EXCEPT ![d] = "converging"]
            /\ mem' = [mem EXCEPT ![d] = pass[d].ring]
       ELSE UNCHANGED loopVars
    /\ Go(d, NoPass)
    /\ UNCHANGED <<relayVars, content, ring, pins, history>>

\* A failed call or a crash of the command: what it wrote stays.  A join
\* dies of it.
Abort(d) ==
    /\ ~At(d, "none")
    /\ mode' = IF pass[d].kind = "loop" THEN [mode EXCEPT ![d] = "off"] ELSE mode
    /\ Go(d, NoPass)
    /\ UNCHANGED <<relayVars, content, ring, mem, local, history>>

(***************************************************************************)
(* The loops and the other commands that use a ring.                       *)
(***************************************************************************)
\* One converge that publishes: the head must open under the loop's ring,
\* and what changed is sealed under its newest key.  Which files this device
\* has to fetch, and so to open, is left free.
Converge(d, edited) ==
    LET k == Newest(mem[d]) IN
    /\ mode[d] = "converging" /\ CanWrite(UserOf[d])
    /\ IF head.seal = NoKey THEN edited = File
       ELSE head.seal \in Keys(mem[d]) /\ edited # {}
    /\ head' = [seal |-> k,
                file |-> [f \in File |-> IF f \in edited THEN k ELSE head.file[f]]]
    /\ UNCHANGED <<relayVars, snaps, ring, loopVars, local, pass, history>>

\* A reader's converge is refused: it goes on as a mirror, with the ring on
\* file.
Demote(d) ==
    /\ mode[d] = "converging" /\ RoleOn(UserOf[d]) = "reader"
    /\ mode' = [mode EXCEPT ![d] = "mirroring"]
    /\ mem' = [mem EXCEPT ![d] = ring[d]]
    /\ UNCHANGED <<relayVars, content, ring, local, pass, history>>

\* pear mirror waits until it has a ring, its own or its user's row.
Mirror(d) ==
    /\ Command
    /\ Idle(d) /\ CanRead(UserOf[d])
    /\ mode' = [mode EXCEPT ![d] = "waiting"]
    /\ UNCHANGED <<relayVars, content, ring, mem, local, pass, ghosts>>

GetKey(d) ==
    /\ mode[d] = "waiting"
    /\ \/ ring[d] # <<>> /\ UNCHANGED ring
       \/ /\ ring[d] = <<>> /\ CanFetch(d)
          /\ ring' = [ring EXCEPT ![d] = rows[UserOf[d]].ring]
    /\ mem' = [mem EXCEPT ![d] = ring'[d]]
    /\ mode' = [mode EXCEPT ![d] = "mirroring"]
    /\ UNCHANGED <<relayVars, content, local, pass, history>>

\* pull_once_e2e decrypts the head's manifest and every chunk.
Opens(r) == {head.seal} \cup {head.file[f] : f \in File} \subseteq Keys(r) \cup {NoKey}

\* pear clone into a fresh directory; one that fails, because it has no key or
\* the wrong ones, clears it again.
Clone(d) ==
    /\ Command
    /\ Idle(d) /\ ring[d] = <<>> /\ CanFetch(d)
    /\ Opens(rows[UserOf[d]].ring)
    /\ ring' = [ring EXCEPT ![d] = rows[UserOf[d]].ring]
    /\ UNCHANGED <<relayVars, content, loopVars, local, pass, ghosts>>

\* pear snapshot: the manifest and every chunk under the newest key on file.
Snapshot(d) ==
    /\ Command
    /\ mode[d] \notin {"creating", "created"}
    /\ ring[d] # <<>> /\ CanWrite(UserOf[d])
    /\ snaps' = snaps \cup {Newest(ring[d])}
    /\ UNCHANGED <<relayVars, head, ring, loopVars, local, pass, ghosts>>

\* A join or a mirror ends, or crashes.
Stop(d) ==
    /\ mode[d] # "off" /\ mode[d] # "joining"
    /\ mode' = [mode EXCEPT ![d] = "off"]
    /\ mem' = [mem EXCEPT ![d] = <<>>]
    /\ UNCHANGED <<relayVars, content, ring, local, pass, history>>

Next ==
    \/ \E by, u \in User :
          \/ \E r \in Role \ {"none"} : AddMember(by, u, r)
          \/ RemoveMember(by, u)
    \/ \E u \in User : Keygen(u)
    \/ \E d \in Device :
          \/ LookUp(d) \/ Create(d) \/ FirstKey(d) \/ Join(d)
          \/ Rekey(d) \/ Share(d)
          \/ ListTeam(d) \/ Merge(d) \/ Mint(d)
          \/ ListMembers(d) \/ SavePins(d) \/ Finish(d) \/ Abort(d)
          \/ Demote(d) \/ Mirror(d) \/ GetKey(d) \/ Clone(d) \/ Snapshot(d)
          \/ Stop(d)
          \/ \E u \in User : Trust(d, u) \/ Delete(d, u)
          \/ \E t \in pass[d].todo : Put(d, t)
          \/ \E edited \in SUBSET File : Converge(d, edited)

Spec == Init /\ [][Next]_vars

(***************************************************************************)
(* Properties.                                                             *)
(***************************************************************************)
PassType ==
    [stage : {"none", "list", "merge", "mint", "delete", "wrap", "put", "record"},
     kind : {"none", "loop", "rekey", "share"},
     ring : Ring, gone : SUBSET User, done : SUBSET User,
     todo : SUBSET [user : User, id : 1..MaxIdentity],
     pins : [User -> 0..MaxIdentity]]

\* The type invariant; a row, a pass and a running loop have a ring, never an
\* empty one (e2e.rs:63-66, main.rs:953-963).
TypeOK ==
    /\ existed \in BOOLEAN /\ attached \in BOOLEAN
    /\ role \in [User -> Role]
    /\ bundle \in [User -> 0..MaxIdentity]
    /\ rows \in [User -> [to : 0..MaxIdentity, ring : Ring]]
    /\ head \in [seal : Key \cup {NoKey}, file : [File -> Key \cup {NoKey}]]
    /\ snaps \subseteq Key
    /\ ring \in [Device -> Ring]
    /\ mode \in [Device -> {"off", "creating", "created", "joining", "converging",
                            "waiting", "mirroring"}]
    /\ mem \in [Device -> Ring]
    /\ record \in [Device -> SUBSET User]
    /\ pins \in [Device -> [User -> 0..MaxIdentity]]
    /\ pass \in [Device -> PassType]
    /\ minted \subseteq Key
    /\ unseen \in [User -> SUBSET Key]
    /\ left \in 0..MaxCommands
    /\ \A u \in User : rows[u] # NoRow => rows[u].ring # <<>>
    /\ \A d \in Device : /\ pass[d].stage # "none" => pass[d].ring # <<>>
                         /\ mode[d] = "converging" => mem[d] # <<>>

\* What a device can open: the ring on file, its loop's and its pass's.
Held(d) == Keys(ring[d]) \cup Keys(mem[d]) \cup Keys(pass[d].ring)

\* The keys the relay's content is sealed under.
Needed == ({head.seal} \cup {head.file[f] : f \in File} \cup snaps) \ {NoKey}

\* Every key anyone uses - in a row, in a loop's or a pass's memory, under
\* the head or a snapshot - is of a generation that its minter has on file:
\* the rotated ring is stored before the relay hears of it, so no crash of a
\* pass forgets a generation that is in use (e2e.rs:756-759).
PersistedFirst ==
    \A k \in Needed \cup (UNION {Keys(rows[u].ring) : u \in User})
                    \cup (UNION {Held(d) : d \in Device}) :
        k[1] <= Len(ring[k[2]])

\* A team always has an owner, whatever its owners do to each other and to
\* themselves (routes.rs:783-785, 816: with none it would be unmanageable).
TeamIsOwned == Owners # {}

\* A user without a role has no key that others minted since he last had one,
\* on no device, in no loop and in no row the relay keeps for him, not even
\* one that a pass puts back after his removal: a pass lists the members
\* again after its mint (e2e.rs:486-488, 756-767; routes.rs:783-788).
Cutoff ==
    \A u \in Outsiders :
        /\ Keys(rows[u].ring) \cap unseen[u] = {}
        /\ \A d \in Device : UserOf[d] = u => Held(d) \cap unseen[u] = {}

\* No generation has two keys.
NoForks == \A j, k \in minted : j[1] = k[1] => j = k

\* As long as no two devices mint the same generation, every key that the
\* head or a snapshot needs is in the ring file of some device, through any
\* rotations, stale writers, crashes and removals (DESIGN.md:1867-1870:
\* content is never stranded).
LostOnlyByForks ==
    NoForks => \A k \in Needed : \E d \in Device : k \in Keys(ring[d])

\* A ring file never loses a generation: a rotation, a merge and a fetch only
\* ever add to it, and nothing else writes it while a pass runs.
RingsGrow == [][\A d \in Device : Len(ring'[d]) >= Len(ring[d])]_vars
=============================================================================
