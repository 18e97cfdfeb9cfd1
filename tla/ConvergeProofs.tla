--------------------------- MODULE ConvergeProofs ---------------------------
(***************************************************************************)
(* Theorems about Converge, for any devices, paths, times and bounds.      *)
(***************************************************************************)
EXTENDS Converge, MergeProofs, SequenceTheorems

(***************************************************************************)
(* Types of the operators the actions are built from.                      *)
(***************************************************************************)

\* The contents saved so far are contents, and remain so.
LEMMA KnownIsEntry ==
  ASSUME edits \in Nat
  PROVE  Known \subseteq Entry
  BY DEF Known, Entry

\* A save only adds to the contents saved so far.
LEMMA KnownGrows ==
  ASSUME edits \in Nat, edits' \in Nat, edits <= edits'
  PROVE  Known \subseteq Known'
  BY DEF Known

\* Writing or deleting a file leaves a manifest of the tree.
LEMMA WithIsManifest ==
  ASSUME NEW E, NEW m, IsManifest(m, E), NEW p, NEW e \in E
  PROVE  IsManifest(With(m, p, e), E)
  BY DEF IsManifest, With

\* delete_file leaves a manifest of the tree.
LEMMA WithoutIsManifest ==
  ASSUME NEW E, NEW m, IsManifest(m, E), NEW p
  PROVE  IsManifest(Without(m, p), E)
  BY DEF IsManifest, Without

\* A scan lists entries of the tree or of the base.
LEMMA ScanIsManifest ==
  ASSUME NEW E, NEW d, IsManifest(disk[d], E), IsManifest(pointer[d], E),
         NEW failed
  PROVE  IsManifest(Scan(d, failed), E)
  BY DEF IsManifest, Scan

\* The pass of a device between two converges.
LEMMA NoPassOK == ASSUME NEW E PROVE PassOK(NoPass, E)
  BY ConvergeAssumption, EmptyIsManifest DEF PassOK, NoPass, Phase

\* A pass over some contents is a pass over more contents.
LEMMA PassMonotonic ==
  ASSUME NEW E, NEW F, E \subseteq F, NEW x, PassOK(x, E)
  PROVE  PassOK(x, F)
  BY ManifestMonotonic DEF PassOK

\* The fields a pass updates.
LEMMA PassUpdates ==
  ASSUME NEW E, NEW x, PassOK(x, E)
  PROVE  /\ \A f \in Phase : PassOK([x EXCEPT !.phase = f], E)
         /\ \A t : PassOK([x EXCEPT !.todo = t], E)
         /\ \A c \in SUBSET x.copies : PassOK([x EXCEPT !.copies = c], E)
  BY DEF PassOK

\* What converge_once knows once get_head has answered is a pass.
LEMMA FetchedPass ==
  ASSUME NEW E, NEW base, IsManifest(base, E), NEW remote, IsManifest(remote, E),
         NEW stamp, NEW attempt \in 0 .. MaxAttempts, NEW seq \in Nat
  PROVE  PassOK([phase |-> "fetched", stamp |-> stamp, attempt |-> attempt,
                 base |-> base, remote |-> remote, seq |-> seq,
                 merged |-> Empty, copies |-> {}, todo |-> {}], E)
  BY EmptyIsManifest DEF PassOK, Phase

\* What converge_once knows after the scan and the merge is a pass, whatever
\* manifest and conflict copies of known contents the merge returned.
LEMMA MergedPass ==
  ASSUME NEW E, NEW x, PassOK(x, E), NEW m, IsManifest(m, E),
         NEW cs, \A c \in cs : c.entry \in E, NEW t
  PROVE  /\ PassOK([x EXCEPT !.phase = "copying", !.merged = m,
                             !.copies = cs, !.todo = t], E)
  <1>. DEFINE x1 == [x EXCEPT !.phase = "copying"]
              x2 == [x1 EXCEPT !.merged = m]
              x3 == [x2 EXCEPT !.copies = cs]
              x4 == [x3 EXCEPT !.todo = t]
  <1>1. [x EXCEPT !.phase = "copying", !.merged = m,
                  !.copies = cs, !.todo = t] = x4
    OBVIOUS
  <1>2. PassOK(x1, E)
    BY PassUpdates DEF Phase
  <1>. HIDE DEF x1
  <1>3. PassOK(x2, E)
    BY <1>2 DEF PassOK
  <1>. HIDE DEF x2
  <1>4. PassOK(x3, E)
    BY <1>3 DEF PassOK
  <1>. HIDE DEF x3
  <1>5. PassOK(x4, E)
    BY <1>4, PassUpdates
  <1>. QED  BY <1>1, <1>5

\* What a publication does to the pass that wins the compare-and-swap.
LEMMA PublishedPass ==
  ASSUME NEW E, NEW x, PassOK(x, E)
  PROVE  LET y == [x EXCEPT !.phase = "committing", !.seq = @ + 1]
         IN  /\ PassOK(y, E) /\ y.base = x.base /\ y.remote = x.remote
             /\ y.phase = "committing" /\ y.merged = x.merged /\ y.seq = x.seq + 1
  <1>. DEFINE x1 == [x EXCEPT !.phase = "committing"]
              x2 == [x1 EXCEPT !.seq = x.seq + 1]
  <1>1. PassOK(x1, E) /\ x1.base = x.base /\ x1.remote = x.remote
        /\ x1.phase = "committing" /\ x1.merged = x.merged /\ x1.seq = x.seq
    BY PassUpdates DEF Phase, PassOK
  <1>2. [x EXCEPT !.phase = "committing", !.seq = @ + 1] = x2
    BY <1>1
  <1>. HIDE DEF x1
  <1>3. PassOK(x2, E) /\ x2.base = x.base /\ x2.remote = x.remote
        /\ x2.phase = "committing" /\ x2.merged = x.merged /\ x2.seq = x.seq + 1
    BY <1>1 DEF PassOK
  <1>. QED  BY <1>2, <1>3

(***************************************************************************)
(* One device moves: what its trees, its pass and the heads become.        *)
(***************************************************************************)

\* A tree per device, when one device's tree is replaced or none is.
LEMMA TreesStep ==
  ASSUME NEW E, NEW F, E \subseteq F, NEW f, TreesOK(f, E), NEW d \in Device,
         NEW m, IsManifest(m, F), NEW g, g = f \/ g = [f EXCEPT ![d] = m]
  PROVE  TreesOK(g, F)
  <1>1. \A e \in Device : IsManifest(f[e], F)
    BY ManifestMonotonic DEF TreesOK
  <1>. QED  BY <1>1 DEF TreesOK

\* A pass per device, when one device's pass is replaced or none is.
LEMMA PassesStep ==
  ASSUME NEW E, NEW F, E \subseteq F, NEW f, PassesOK(f, E), NEW d \in Device,
         NEW x, PassOK(x, F), NEW g, g = f \/ g = [f EXCEPT ![d] = x]
  PROVE  PassesOK(g, F)
  <1>1. \A e \in Device : PassOK(f[e], F)
    BY PassMonotonic DEF PassesOK
  <1>. QED  BY <1>1 DEF PassesOK

\* insert_head: the heads are only ever appended to.
LEMMA HeadsStep ==
  ASSUME NEW E, HeadsOK(E), NEW m, IsManifest(m, E), heads' = Append(heads, m)
  PROVE  /\ HeadsOK(E)'
         /\ Len(heads) \in Nat /\ Len(heads') = Len(heads) + 1
         /\ DOMAIN heads = 1 .. Len(heads)
         /\ DOMAIN heads' = 1 .. Len(heads')
         /\ \A i \in DOMAIN heads : heads'[i] = heads[i]
         /\ heads'[Len(heads')] = m
  <1>. DEFINE S == {heads[i] : i \in DOMAIN heads} \cup {m}
  <1>1. heads \in Seq(S)
    BY SeqMonotonic DEF HeadsOK
  <1>. HIDE DEF S
  <1>2. m \in S
    BY DEF S
  <1>3. /\ Len(heads) \in Nat /\ Len(heads') = Len(heads) + 1
        /\ DOMAIN heads = 1 .. Len(heads)
        /\ DOMAIN heads' = 1 .. Len(heads')
        /\ \A i \in DOMAIN heads : heads'[i] = heads[i]
        /\ heads'[Len(heads')] = m
    BY <1>1, <1>2, AppendProperties, LenProperties
  <1>4. {heads'[i] : i \in DOMAIN heads'} = S
    BY <1>3 DEF S
  <1>5. heads' \in Seq(S)
    BY <1>1, <1>2, AppendProperties
  <1>6. \A i \in DOMAIN heads' : IsManifest(heads'[i], E)
    BY <1>3 DEF HeadsOK
  <1>. QED  BY <1>3, <1>4, <1>5, <1>6 DEF HeadsOK

\* Published manifests stay manifests when a user saves something new.
LEMMA HeadsUnchanged ==
  ASSUME NEW E, NEW F, E \subseteq F, HeadsOK(E), UNCHANGED heads
  PROVE  HeadsOK(F)'
  BY ManifestMonotonic DEF HeadsOK

\* get_head: a published manifest, or the empty one before the first.
LEMMA RelayHeadOK ==
  ASSUME NEW E, HeadsOK(E)
  PROVE  /\ IsManifest(RelayHead, E)
         /\ Len(heads) \in Nat
         /\ RelayHead \in Published
  <1>1. Len(heads) \in Nat /\ DOMAIN heads = 1 .. Len(heads)
    BY LenProperties DEF HeadsOK
  <1>2. CASE heads = <<>>
    BY <1>1, <1>2, EmptyIsManifest DEF RelayHead, Published
  <1>3. CASE heads # <<>>
    <2>1. Len(heads) \in DOMAIN heads
      BY <1>1, <1>3, EmptySeq DEF HeadsOK
    <2>. QED  BY <1>1, <1>3, <2>1 DEF RelayHead, Published, HeadsOK
  <1>. QED  BY <1>2, <1>3

(***************************************************************************)
(* Type correctness.                                                       *)
(***************************************************************************)

\* Two empty workspaces and an empty relay have their types.
LEMMA TypeInit == Init => TypeOK
  <1>. SUFFICES ASSUME Init PROVE TypeOK
    OBVIOUS
  <1>1. edits \in 0 .. MaxEdits /\ faults \in 0 .. MaxFaults
    BY ConvergeAssumption DEF Init
  <1>2. HeadsOK(Known)
    BY EmptySeq DEF Init, HeadsOK
  <1>3. /\ TreesOK(disk, Known) /\ TreesOK(kept, Known)
        /\ TreesOK(pointer, Known)
    BY EmptyIsManifest DEF Init, TreesOK
  <1>4. PassesOK(pass, Known)
    BY NoPassOK DEF Init, PassesOK
  <1>5. HistoryOK
    BY EmptySeq DEF Init, HistoryOK
  <1>6. noted \in [Device -> Nat]
    BY DEF Init
  <1>. QED  BY <1>1, <1>2, <1>3, <1>4, <1>5, <1>6 DEF TypeOK

\* A step of a pass that leaves the tree, the kept copies and the base alone,
\* or changes one of them, and gives the pass a state of its type.
LEMMA PassStepType ==
  ASSUME TypeOK, NEW d \in Device,
         NEW x, PassOK(x, Known), pass' = [pass EXCEPT ![d] = x],
         NEW m, IsManifest(m, Known),
         disk' = disk \/ disk' = [disk EXCEPT ![d] = m],
         NEW k, IsManifest(k, Known),
         kept' = kept \/ kept' = [kept EXCEPT ![d] = k],
         NEW b, IsManifest(b, Known),
         pointer' = pointer \/ pointer' = [pointer EXCEPT ![d] = b],
         faults' \in 0 .. MaxFaults,
         HeadsOK(Known)', UNCHANGED <<noted, edits, history>>
  PROVE  TypeOK'
  <1>1. Known' = Known
    BY DEF Known
  <1>2. TreesOK(disk, Known)'
    BY <1>1, TreesStep DEF TypeOK
  <1>3. TreesOK(kept, Known)'
    BY <1>1, TreesStep DEF TypeOK
  <1>4. TreesOK(pointer, Known)'
    BY <1>1, TreesStep DEF TypeOK
  <1>5. PassesOK(pass, Known)'
    BY <1>1, PassesStep DEF TypeOK
  <1>6. HistoryOK'
    BY DEF TypeOK, HistoryOK, history
  <1>. QED  BY <1>2, <1>3, <1>4, <1>5, <1>6 DEF TypeOK

\* The user of a device writes or deletes one file.
LEMMA UserStepType ==
  ASSUME TypeOK, NEW d \in Device, User(d)
  PROVE  TypeOK'
  <1>. DEFINE n == edits + 1
  <1>1. /\ edits \in Nat /\ edits' = n /\ n \in 0 .. MaxEdits
        /\ UNCHANGED <<heads, kept, pointer, noted, pass, faults>>
    <2>1. edits \in Nat /\ edits <= MaxEdits /\ MaxEdits \in Nat
      BY ConvergeAssumption DEF TypeOK
    <2>2. /\ edits < MaxEdits /\ edits' = n
          /\ UNCHANGED <<heads, kept, pointer, noted, pass, faults>>
      BY DEF User, Save, Delete, MayEdit
    <2>. QED  BY <2>1, <2>2
  <1>2. Known \subseteq Known'
    BY <1>1, KnownGrows
  <1>3. IsManifest(disk[d], Known')
    BY <1>2, ManifestMonotonic DEF TypeOK, TreesOK
  <1>4. \E m : IsManifest(m, Known') /\ disk' = [disk EXCEPT ![d] = m]
    <2>1. CASE \E p \in UserPaths, t \in MTimes : Save(d, p, t)
      <3>1. PICK p \in UserPaths, t \in MTimes : Save(d, p, t)
        BY <2>1
      <3>2. [data |-> n, mtime |-> t] \in Known'
        BY <1>1, ConvergeAssumption DEF Known
      <3>3. disk' = [disk EXCEPT ![d] = With(disk[d], p, [data |-> n, mtime |-> t])]
        BY <3>1 DEF Save
      <3>. QED  BY <1>3, <3>2, <3>3, WithIsManifest
    <2>2. CASE \E p \in DOMAIN disk[d] : Delete(d, p)
      <3>1. PICK p : Delete(d, p)
        BY <2>2
      <3>2. disk' = [disk EXCEPT ![d] = Without(disk[d], p)]
        BY <3>1 DEF Delete
      <3>. QED  BY <1>3, <3>2, WithoutIsManifest
    <2>. QED  BY <2>1, <2>2 DEF User
  <1>5. TreesOK(disk, Known)'
    BY <1>2, <1>4, TreesStep DEF TypeOK
  <1>6. TreesOK(kept, Known)'
    BY <1>1, <1>2, <1>3, TreesStep DEF TypeOK
  <1>7. TreesOK(pointer, Known)'
    BY <1>1, <1>2, <1>3, TreesStep DEF TypeOK
  <1>8. PassesOK(pass, Known)'
    BY <1>1, <1>2, NoPassOK, PassesStep DEF TypeOK
  <1>9. HeadsOK(Known)'
    BY <1>1, <1>2, HeadsUnchanged DEF TypeOK
  <1>10. HistoryOK'
    <2>1. author \in Seq(SUBSET (1 .. n)) /\ Len(author) = edits
      BY <1>1, SeqMonotonic DEF TypeOK, HistoryOK
    <2>2. ASSUME NEW p PROVE Lineage(d, p) \subseteq 1 .. edits
      <3>1. CASE p \in DOMAIN disk[d]
        <4>1. disk[d][p].data \in 1 .. edits
          BY <3>1 DEF TypeOK, TreesOK, IsManifest, Known
        <4>2. author[disk[d][p].data] \in SUBSET (1 .. edits)
          BY <4>1, ElementOfSeq DEF TypeOK, HistoryOK
        <4>. QED  BY <3>1, <4>1, <4>2 DEF Lineage
      <3>. QED  BY <3>1 DEF Lineage
    <2>3. \E a \in SUBSET (1 .. n) : author' = Append(author, a)
      <3>1. \A p : Lineage(d, p) \in SUBSET (1 .. n)
        BY <1>1, <2>2
      <3>. QED  BY <3>1 DEF User, Save, Delete
    <2>4. author' \in Seq(SUBSET (1 .. n)) /\ Len(author') = n
      BY <2>1, <2>3, <1>1, AppendProperties
    <2>5. gone' \subseteq 1 .. n
      <3>1. gone \subseteq 1 .. n /\ n \in 1 .. n
        BY <1>1 DEF TypeOK, HistoryOK
      <3>2. \E p : gone' \subseteq gone \cup Lineage(d, p) \cup {n}
        BY DEF User, Save, Delete
      <3>3. 1 .. edits \subseteq 1 .. n
        BY <1>1
      <3>. QED  BY <2>2, <3>1, <3>2, <3>3
    <2>. QED  BY <1>1, <2>4, <2>5 DEF HistoryOK
  <1>. QED  BY <1>1, <1>5, <1>6, <1>7, <1>8, <1>9, <1>10 DEF TypeOK

\* What the type invariant says of one device.
LEMMA DeviceTypes ==
  ASSUME TypeOK, NEW d \in Device
  PROVE  /\ IsManifest(disk[d], Known) /\ IsManifest(kept[d], Known)
         /\ IsManifest(pointer[d], Known) /\ PassOK(pass[d], Known)
         /\ IsManifest(RelayHead, Known) /\ Len(heads) \in Nat
         /\ Known \subseteq Entry /\ HeadsOK(Known)
  <1>1. edits \in Nat
    BY ConvergeAssumption DEF TypeOK
  <1>2. HeadsOK(Known)
    BY DEF TypeOK
  <1>. QED  BY <1>1, <1>2, RelayHeadOK, KnownIsEntry DEF TypeOK, TreesOK, PassesOK

\* A fetch, whatever base it starts from.
LEMMA FetchType ==
  ASSUME TypeOK, NEW d \in Device, NEW base, IsManifest(base, Known),
         NEW stamp, NEW attempt \in 0 .. MaxAttempts, Fetch(d, base, stamp, attempt)
  PROVE  \E x : PassOK(x, Known) /\ pass' = [pass EXCEPT ![d] = x]
  BY DeviceTypes, FetchedPass DEF Fetch

\* The scan and the merge leave the device with a pass of its type.
LEMMA ScanAndMergeType ==
  ASSUME TypeOK, NEW d \in Device, ScanAndMerge(d)
  PROVE  \E x : PassOK(x, Known) /\ pass' = [pass EXCEPT ![d] = x]
  <1>1. PICK failed \in MayFail(d) :
          LET local == Scan(d, failed)
              out   == Merge3(pass[d].base, local, pass[d].remote,
                              d, pass[d].stamp)
          IN  pass' = [pass EXCEPT ![d].phase  = "copying",
                                   ![d].merged = out.merged,
                                   ![d].copies = CopiesToMake(out.conflicts),
                                   ![d].todo   = ApplyFromRemote(local, out)]
    BY DEF ScanAndMerge
  <1>. DEFINE local == Scan(d, failed)
              out == Merge3(pass[d].base, local, pass[d].remote, d, pass[d].stamp)
              cs == CopiesToMake(out.conflicts)
              t == ApplyFromRemote(local, out)
              m == out.merged
              x == [pass[d] EXCEPT !.phase = "copying", !.merged = m,
                                   !.copies = cs, !.todo = t]
  <1>2. IsManifest(local, Known) /\ IsManifest(pass[d].remote, Known)
    BY DeviceTypes, ScanIsManifest DEF PassOK
  <1>3. IsManifest(m, Known)
    BY <1>2, DeviceTypes, MergedIsManifest
  <1>4. \A c \in cs : c.entry \in Known
    <2>1. out.conflicts = Conflicts(pass[d].base, local, pass[d].remote, d, pass[d].stamp)
      BY DEF Merge3
    <2>. HIDE DEF local, out
    <2>2. \A c \in out.conflicts : c.entry \in Known
      BY <1>2, <2>1, DeviceTypes, ConflictsHoldEntries
    <2>. QED  BY <2>2 DEF CopiesToMake
  <1>5. pass' = [pass EXCEPT ![d] = x]
    <2>1. pass' = [pass EXCEPT ![d].phase = "copying", ![d].merged = m,
                               ![d].copies = cs, ![d].todo = t]
      BY <1>1
    <2>. HIDE DEF m, cs, t
    <2>2. pass = [e \in Device |-> pass[e]]
      BY DEF TypeOK, PassesOK
    <2>. QED  BY <2>1, <2>2
  <1>. HIDE DEF m, cs, t
  <1>6. PassOK(x, Known)
    BY <1>3, <1>4, DeviceTypes, MergedPass
  <1>. QED  BY <1>5, <1>6

\* A step that only moves a pass to another phase keeps its type.
LEMMA PhaseType ==
  ASSUME TypeOK, NEW d \in Device, NEW f \in Phase,
         pass' = [pass EXCEPT ![d].phase = f]
  PROVE  \E x : PassOK(x, Known) /\ pass' = [pass EXCEPT ![d] = x]
  <1>1. PassOK([pass[d] EXCEPT !.phase = f], Known)
    BY DeviceTypes, PassUpdates
  <1>2. pass = [e \in Device |-> pass[e]]
    BY DEF TypeOK, PassesOK
  <1>3. pass' = [pass EXCEPT ![d] = [pass[d] EXCEPT !.phase = f]]
    BY <1>2
  <1>. QED  BY <1>1, <1>3

\* Materializing one conflict copy keeps the types of both places it may go to.
LEMMA MakeCopyType ==
  ASSUME TypeOK, NEW d \in Device, MakeCopy(d)
  PROVE  TypeOK'
  <1>1. PICK c \in pass[d].copies :
          /\ c.side = "local" => c.path \in DOMAIN disk[d]
          /\ IF c.localOnly
             THEN /\ kept' = [kept EXCEPT ![d] = With(kept[d], c.copy, CopyEntry(d, c))]
                  /\ UNCHANGED disk
             ELSE /\ disk' = [disk EXCEPT ![d] = With(disk[d], c.copy, CopyEntry(d, c))]
                  /\ UNCHANGED kept
          /\ pass' = [pass EXCEPT ![d].copies = @ \ {c}]
    BY DEF MakeCopy
  <1>2. c.entry \in Known
    BY DeviceTypes DEF PassOK
  <1>3. CopyEntry(d, c) \in Known
    <2>1. CASE c.side = "local"
      <3>1. disk[d][c.path] \in Known
        BY <1>1, <2>1, DeviceTypes DEF IsManifest
      <3>2. c.entry.mtime \in Int
        BY <1>2 DEF Known
      <3>3. [disk[d][c.path] EXCEPT !.mtime = c.entry.mtime] \in Known
        BY <3>1, <3>2 DEF Known
      <3>. QED  BY <2>1, <3>3 DEF CopyEntry
    <2>. QED  BY <1>2, <2>1 DEF CopyEntry
  <1>. DEFINE x == [pass[d] EXCEPT !.copies = pass[d].copies \ {c}]
  <1>4. PassOK(x, Known)
    BY DeviceTypes, PassUpdates
  <1>5. pass' = [pass EXCEPT ![d] = x]
    BY <1>1 DEF TypeOK, PassesOK
  <1>6. /\ IsManifest(With(kept[d], c.copy, CopyEntry(d, c)), Known)
        /\ IsManifest(With(disk[d], c.copy, CopyEntry(d, c)), Known)
    BY <1>3, DeviceTypes, WithIsManifest
  <1>7. HeadsOK(Known)' /\ faults' \in 0 .. MaxFaults
    BY HeadsUnchanged DEF MakeCopy, TypeOK, HeadsOK, Known
  <1>8. UNCHANGED <<pointer, noted, edits, history>>
    BY DEF MakeCopy
  <1>. HIDE DEF x
  <1>9. DOMAIN disk = Device /\ IsManifest(pointer[d], Known)
    BY DeviceTypes DEF TypeOK, TreesOK
  <1>. QED  BY <1>1, <1>4, <1>5, <1>6, <1>7, <1>8, <1>9, PassStepType

\* A step that changes only what a pass holds in memory.
LEMMA MemoryStepType ==
  ASSUME TypeOK, NEW d \in Device,
         \E x : PassOK(x, Known) /\ pass' = [pass EXCEPT ![d] = x],
         UNCHANGED <<heads, disk, kept, pointer, noted, edits, history>>,
         faults' \in 0 .. MaxFaults
  PROVE  TypeOK'
  <1>1. PICK x : PassOK(x, Known) /\ pass' = [pass EXCEPT ![d] = x]
    OBVIOUS
  <1>2. HeadsOK(Known)'
    BY HeadsUnchanged DEF TypeOK, Known, HeadsOK
  <1>. QED  BY <1>1, <1>2, DeviceTypes, PassStepType

\* apply_commit writes an entry of the merged manifest or deletes a path.
LEMMA ApplyPathType ==
  ASSUME TypeOK, NEW d \in Device, ApplyPath(d)
  PROVE  TypeOK'
  <1>1. PICK p \in pass[d].todo :
          /\ disk' = [disk EXCEPT ![d] =
                        IF Deletes(d, p) THEN Without(disk[d], p)
                        ELSE With(disk[d], p, pass[d].merged[p])]
          /\ pass' = [pass EXCEPT ![d].todo = @ \ {p}]
    BY DEF ApplyPath, NextPaths
  <1>. DEFINE m == IF Deletes(d, p) THEN Without(disk[d], p)
                   ELSE With(disk[d], p, pass[d].merged[p])
              x == [pass[d] EXCEPT !.todo = pass[d].todo \ {p}]
  <1>2. IsManifest(m, Known)
    <2>1. CASE Deletes(d, p)
      BY <2>1, DeviceTypes, WithoutIsManifest
    <2>2. CASE ~Deletes(d, p)
      <3>1. pass[d].merged[p] \in Known
        BY <2>2, DeviceTypes DEF Deletes, PassOK, IsManifest
      <3>. QED  BY <2>2, <3>1, DeviceTypes, WithIsManifest
    <2>. QED  BY <2>1, <2>2
  <1>3. PassOK(x, Known)
    BY DeviceTypes, PassUpdates
  <1>4. pass' = [pass EXCEPT ![d] = x]
    BY <1>1 DEF TypeOK, PassesOK
  <1>5. HeadsOK(Known)' /\ faults' \in 0 .. MaxFaults
    BY HeadsUnchanged DEF ApplyPath, TypeOK, HeadsOK, Known
  <1>6. UNCHANGED <<kept, pointer, noted, edits, history>>
    BY DEF ApplyPath
  <1>7. disk' = [disk EXCEPT ![d] = m]
    BY <1>1
  <1>. HIDE DEF x, m
  <1>. QED  BY <1>2, <1>3, <1>4, <1>5, <1>6, <1>7, DeviceTypes, PassStepType

\* The two writes of manifest.json: after the apply, and after the publication.
LEMMA BaseStepType ==
  ASSUME TypeOK, NEW d \in Device, MoveBase(d) \/ Commit(d)
  PROVE  TypeOK'
  <1>1. \E x : PassOK(x, Known) /\ pass' = [pass EXCEPT ![d] = x]
    BY PhaseType, NoPassOK DEF MoveBase, Commit, Phase
  <1>2. \E b : IsManifest(b, Known) /\ pointer' = [pointer EXCEPT ![d] = b]
    BY DeviceTypes DEF MoveBase, Commit, PassOK
  <1>3. UNCHANGED <<heads, disk, kept, noted, edits, faults, history>>
    BY DEF MoveBase, Commit
  <1>4. HeadsOK(Known)' /\ faults' \in 0 .. MaxFaults
    BY <1>3, HeadsUnchanged DEF TypeOK, HeadsOK, Known
  <1>. QED  BY <1>1, <1>2, <1>3, <1>4, DeviceTypes, PassStepType

\* put_head appends the merged manifest, whether or not its answer arrives.
LEMMA PublishType ==
  ASSUME TypeOK, NEW d \in Device, Publish(d) \/ AnswerLost(d)
  PROVE  TypeOK'
  <1>1. \E x : PassOK(x, Known) /\ pass' = [pass EXCEPT ![d] = x]
    <2>1. CASE Publish(d)
      <3>. DEFINE x == [pass[d] EXCEPT !.phase = "committing", !.seq = @ + 1]
      <3>1. PassOK(x, Known)
        BY DeviceTypes, PublishedPass
      <3>2. pass' = [pass EXCEPT ![d] = x]
        BY <2>1 DEF Publish, TypeOK, PassesOK
      <3>. QED  BY <3>1, <3>2
    <2>2. CASE AnswerLost(d)
      BY <2>2, NoPassOK DEF AnswerLost
    <2>. QED  BY <2>1, <2>2
  <1>2. heads' = Append(heads, pass[d].merged) /\ IsManifest(pass[d].merged, Known)
    BY DeviceTypes DEF Publish, AnswerLost, PassOK
  <1>3. UNCHANGED <<disk, kept, pointer, noted, edits, history>>
    BY DEF Publish, AnswerLost
  <1>4. HeadsOK(Known)'
    <2>1. Known' = Known
      BY <1>3 DEF Known
    <2>. QED  BY <1>2, <2>1, DeviceTypes, HeadsStep DEF HeadsOK
  <1>5. faults' \in 0 .. MaxFaults
    BY ConvergeAssumption DEF Publish, AnswerLost, TypeOK
  <1>. QED  BY <1>1, <1>3, <1>4, <1>5, DeviceTypes, PassStepType

\* The write of remote.json changes only the sequence the device noted.
LEMMA NoteHeadType ==
  ASSUME TypeOK, NEW d \in Device, NoteHead(d)
  PROVE  TypeOK'
  <1>1. pass[d].seq \in Nat
    BY DeviceTypes DEF PassOK
  <1>2. noted' \in [Device -> Nat]
    BY <1>1 DEF NoteHead, TypeOK
  <1>3. UNCHANGED <<heads, disk, kept, pointer, pass, edits, faults, history>>
    BY DEF NoteHead
  <1>. QED  BY <1>2, <1>3
            DEF TypeOK, HeadsOK, TreesOK, PassesOK, HistoryOK, Known, history

\* Every step keeps the types.
LEMMA TypeStep == TypeOK /\ [Next]_vars => TypeOK'
  <1>. SUFFICES ASSUME TypeOK, [Next]_vars PROVE TypeOK'
    OBVIOUS
  <1>1. CASE UNCHANGED vars
    BY <1>1 DEF vars, TypeOK, HeadsOK, TreesOK, PassesOK, HistoryOK, Known
  <1>2. ASSUME NEW d \in Device, Begin(d) \/ LoseRace(d) PROVE TypeOK'
    <2>1. UNCHANGED <<heads, disk, kept, pointer, noted, edits, faults, history>>
      BY <1>2 DEF Begin, LoseRace
    <2>2. \E x : PassOK(x, Known) /\ pass' = [pass EXCEPT ![d] = x]
      <3>1. CASE Begin(d)
        BY <3>1, DeviceTypes, FetchType, ConvergeAssumption DEF Begin
      <3>2. CASE LoseRace(d)
        <4>1. pass[d].attempt \in 0 .. MaxAttempts /\ IsManifest(pass[d].remote, Known)
          BY DeviceTypes DEF PassOK
        <4>2. CASE pass[d].attempt < MaxAttempts
          <5>1. pass[d].attempt + 1 \in 0 .. MaxAttempts
            BY <4>1, <4>2, ConvergeAssumption
          <5>2. Fetch(d, pass[d].remote, pass[d].stamp, pass[d].attempt + 1)
            BY <3>2, <4>2 DEF LoseRace
          <5>. QED  BY <4>1, <5>1, <5>2, FetchType
        <4>3. CASE ~(pass[d].attempt < MaxAttempts)
          BY <3>2, <4>3, NoPassOK DEF LoseRace
        <4>. QED  BY <4>2, <4>3
      <3>. QED  BY <1>2, <3>1, <3>2
    <2>. QED  BY <2>1, <2>2, MemoryStepType DEF TypeOK
  <1>3. ASSUME NEW d \in Device, ScanAndMerge(d) PROVE TypeOK'
    <2>1. UNCHANGED <<heads, disk, kept, pointer, noted, edits, faults, history>>
      BY <1>3 DEF ScanAndMerge
    <2>. QED  BY <1>3, <2>1, ScanAndMergeType, MemoryStepType DEF TypeOK
  <1>4. ASSUME NEW d \in Device,
               MergeInvalid(d) \/ CopyVanished(d) \/ ApplyBlocked(d) \/ Interrupt(d)
        PROVE  TypeOK'
    <2>1. UNCHANGED <<heads, disk, kept, pointer, noted, edits, history>>
      BY <1>4 DEF MergeInvalid, CopyVanished, ApplyBlocked, Interrupt
    <2>2. pass' = [pass EXCEPT ![d] = NoPass]
      BY <1>4 DEF MergeInvalid, CopyVanished, ApplyBlocked, Interrupt
    <2>3. faults' \in 0 .. MaxFaults
      BY <1>4, ConvergeAssumption
         DEF MergeInvalid, CopyVanished, ApplyBlocked, Interrupt, TypeOK
    <2>. QED  BY <2>1, <2>2, <2>3, NoPassOK, MemoryStepType
  <1>5. ASSUME NEW d \in Device, StartApply(d) \/ NothingToPublish(d) PROVE TypeOK'
    <2>1. UNCHANGED <<heads, disk, kept, pointer, noted, edits, faults, history>>
      BY <1>5 DEF StartApply, NothingToPublish
    <2>2. \E f \in Phase : pass' = [pass EXCEPT ![d].phase = f]
      BY <1>5 DEF StartApply, NothingToPublish, Phase
    <2>. QED  BY <2>1, <2>2, PhaseType, MemoryStepType DEF TypeOK
  <1>. QED
    BY <1>1, <1>2, <1>3, <1>4, <1>5, UserStepType, MakeCopyType, ApplyPathType,
       BaseStepType, PublishType, NoteHeadType
       DEF Next, Step, Fault

\* Type correctness of the whole pass, whatever is interrupted.
THEOREM TypeCorrect == Spec => []TypeOK
  BY TypeInit, TypeStep, PTL DEF Spec

(***************************************************************************)
(* The base of every merge is a published head.                            *)
(*                                                                         *)
(* The base a pass leaves behind is the head it merged against (MoveBase,  *)
(* LoseRace) or what it published (Commit).  So the induction needs to     *)
(* know, of a pass before its push, that its remote is the head of its     *)
(* sequence, and of a pass that commits, that its merge is.                *)
(***************************************************************************)

BaseInv ==
  /\ TypeOK
  /\ BaseIsPublished
  /\ MergesTheSubmitted
  /\ CommitsTheHead

\* The parts of BaseInv that speak of one device.
DeviceInv(d) ==
  /\ pointer[d] \in Published /\ pass[d].base \in Published
  /\ pass[d].phase \notin {"idle", "committing"} =>
        pass[d].seq \in 0 .. Len(heads) /\ pass[d].remote = HeadAt(heads, pass[d].seq)
  /\ pass[d].phase = "committing" =>
        pass[d].seq \in DOMAIN heads /\ pass[d].merged = heads[pass[d].seq]

\* The invariant is about one device at a time.
LEMMA BaseInvByDevice ==
  BaseInv <=> TypeOK /\ \A d \in Device : DeviceInv(d)
  BY DEF BaseInv, BaseIsPublished, MergesTheSubmitted, CommitsTheHead, DeviceInv

\* The relay forgets no head that a device may have kept.
LEMMA HeadsGrow ==
  ASSUME TypeOK, TypeOK',
         heads' = heads \/ \E d \in Device : heads' = Append(heads, pass[d].merged)
  PROVE  /\ Len(heads) \in Nat /\ DOMAIN heads = 1 .. Len(heads)
         /\ Len(heads') \in Nat /\ DOMAIN heads' = 1 .. Len(heads')
         /\ Len(heads) <= Len(heads')
         /\ \A i \in DOMAIN heads : heads'[i] = heads[i]
         /\ Published \subseteq Published'
         /\ \A i \in 0 .. Len(heads) : HeadAt(heads', i) = HeadAt(heads, i)
  <1>1. /\ Len(heads) \in Nat /\ DOMAIN heads = 1 .. Len(heads)
        /\ Len(heads') \in Nat /\ DOMAIN heads' = 1 .. Len(heads')
    BY LenProperties DEF TypeOK, HeadsOK
  <1>2. CASE heads' = heads
    BY <1>1, <1>2 DEF Published
  <1>3. CASE \E d \in Device : heads' = Append(heads, pass[d].merged)
    <2>1. PICK d \in Device : heads' = Append(heads, pass[d].merged)
      BY <1>3
    <2>2. IsManifest(pass[d].merged, Known) /\ HeadsOK(Known)
      BY DeviceTypes DEF PassOK
    <2>3. Len(heads') = Len(heads) + 1 /\ \A i \in DOMAIN heads : heads'[i] = heads[i]
      BY <2>1, <2>2, HeadsStep
    <2>4. Len(heads) <= Len(heads')
      BY <1>1, <2>3
    <2>. DEFINE n == Len(heads)  k == Len(heads')
                D == DOMAIN heads  G == DOMAIN heads'
    <2>5. D \subseteq G /\ \A i \in 0 .. n : i # 0 => i \in D
      <3>1. n \in Nat /\ D = 1 .. n /\ k \in Nat /\ G = 1 .. k /\ n <= k
        BY <1>1, <2>4
      <3>. HIDE DEF n, k, D, G
      <3>. QED  BY <3>1
    <2>6. Published \subseteq Published'
      BY <2>3, <2>5 DEF Published
    <2>7. ASSUME NEW i \in 0 .. Len(heads)
          PROVE  HeadAt(heads', i) = HeadAt(heads, i)
      <3>1. i # 0 => heads'[i] = heads[i]
        BY <2>3, <2>5
      <3>. QED  BY <3>1 DEF HeadAt
    <2>. QED  BY <1>1, <2>3, <2>4, <2>6, <2>7
  <1>. QED  BY <1>1, <1>2, <1>3

\* The manifest of any sequence the relay gave out is a published one.
LEMMA HeadAtPublished ==
  ASSUME TypeOK, NEW i \in 0 .. Len(heads)
  PROVE  HeadAt(heads, i) \in Published
  <1>1. DOMAIN heads = 1 .. Len(heads)
    BY LenProperties DEF TypeOK, HeadsOK
  <1>. QED  BY <1>1 DEF HeadAt, Published

\* Only put_head changes the heads, and then by one.
LEMMA HeadsMove ==
  ASSUME [Next]_vars
  PROVE  heads' = heads \/ \E d \in Device : heads' = Append(heads, pass[d].merged)
  BY DEF Next, Step, User, Fault, Save, Delete, Begin, ScanAndMerge,
         MergeInvalid, MakeCopy, CopyVanished, StartApply, ApplyPath,
         ApplyBlocked, MoveBase, NothingToPublish, Publish, LoseRace, NoteHead,
         Commit, AnswerLost, Interrupt, vars

\* A device that does not move keeps its part of the invariant.
LEMMA OthersKeep ==
  ASSUME TypeOK, TypeOK', [Next]_vars, NEW e \in Device, DeviceInv(e),
         pass'[e] = pass[e], pointer'[e] = pointer[e]
  PROVE  DeviceInv(e)'
  <1>1. /\ Len(heads) \in Nat /\ DOMAIN heads = 1 .. Len(heads)
        /\ Len(heads') \in Nat /\ DOMAIN heads' = 1 .. Len(heads')
        /\ Len(heads) <= Len(heads')
        /\ \A i \in DOMAIN heads : heads'[i] = heads[i]
        /\ Published \subseteq Published'
        /\ \A i \in 0 .. Len(heads) : HeadAt(heads', i) = HeadAt(heads, i)
    BY HeadsGrow, HeadsMove
  <1>2. pointer'[e] \in Published' /\ pass'[e].base \in Published'
    BY <1>1 DEF DeviceInv
  <1>3. ASSUME pass'[e].phase \notin {"idle", "committing"}
        PROVE  /\ pass'[e].seq \in 0 .. Len(heads')
               /\ pass'[e].remote = HeadAt(heads', pass'[e].seq)
    BY <1>1, <1>3 DEF DeviceInv
  <1>4. ASSUME pass'[e].phase = "committing"
        PROVE  pass'[e].seq \in DOMAIN heads' /\ pass'[e].merged = heads'[pass'[e].seq]
    BY <1>1, <1>4 DEF DeviceInv
  <1>. QED  BY <1>2, <1>3, <1>4 DEF DeviceInv

\* A device whose pass ends keeps its base; the next pass starts from it.
LEMMA EndKeeps ==
  ASSUME TypeOK, TypeOK', [Next]_vars, NEW d \in Device, DeviceInv(d),
         pass' = [pass EXCEPT ![d] = NoPass],
         pointer'[d] \in Published'
  PROVE  DeviceInv(d)'
  <1>1. pass'[d] = NoPass
    BY DEF TypeOK, PassesOK
  <1>2. pass'[d].base = Empty /\ pass'[d].phase = "idle"
    BY <1>1 DEF NoPass
  <1>. QED  BY <1>2 DEF DeviceInv, Published

\* A fetch: the remote is the head, its sequence the one to submit.
LEMMA FetchKeeps ==
  ASSUME TypeOK, NEW d \in Device, NEW base \in Published,
         pointer[d] \in Published, NEW stamp, NEW attempt,
         Fetch(d, base, stamp, attempt), UNCHANGED <<heads, pointer>>
  PROVE  DeviceInv(d)'
  <1>1. pass'[d] = [phase |-> "fetched", stamp |-> stamp, attempt |-> attempt,
                    base |-> base, remote |-> RelayHead, seq |-> Len(heads),
                    merged |-> Empty, copies |-> {}, todo |-> {}]
    BY DEF Fetch, TypeOK, PassesOK
  <1>2. /\ pass'[d].phase = "fetched" /\ pass'[d].base = base
        /\ pass'[d].remote = RelayHead /\ pass'[d].seq = Len(heads)
    BY <1>1
  <1>3. Len(heads) \in Nat /\ (heads = <<>> <=> Len(heads) = 0)
    <2>1. heads \in Seq({heads[i] : i \in DOMAIN heads})
      BY DEF TypeOK, HeadsOK
    <2>. QED  BY <2>1, EmptySeq
  <1>4. RelayHead = HeadAt(heads, Len(heads))
    BY <1>3 DEF RelayHead, HeadAt
  <1>5. Published' = Published /\ pointer' = pointer /\ heads' = heads
    BY DEF Published
  <1>6. pass'[d].base \in Published'
    BY <1>2, <1>5
  <1>7. pass'[d].seq \in 0 .. Len(heads') /\ pass'[d].remote = HeadAt(heads', pass'[d].seq)
    BY <1>2, <1>3, <1>4, <1>5
  <1>8. pass'[d].phase # "committing"
    BY <1>2
  <1>. QED  BY <1>5, <1>6, <1>7, <1>8 DEF DeviceInv

\* A step within a pass that does not touch what it merges against.
LEMMA InPassKeeps ==
  ASSUME NEW d \in Device, DeviceInv(d), UNCHANGED heads,
         pass'[d].base = pass[d].base, pass'[d].remote = pass[d].remote,
         pass'[d].seq = pass[d].seq,
         pass[d].phase \notin {"idle", "committing"},
         pass'[d].phase # "committing",
         pointer'[d] \in {pointer[d], pass[d].remote},
         pass[d].remote \in Published
  PROVE  DeviceInv(d)'
  <1>1. Published' = Published
    BY DEF Published
  <1>2. pointer'[d] \in Published' /\ pass'[d].base \in Published'
    BY <1>1 DEF DeviceInv
  <1>3. pass'[d].seq \in 0 .. Len(heads') /\ pass'[d].remote = HeadAt(heads', pass'[d].seq)
    BY DEF DeviceInv
  <1>. QED  BY <1>2, <1>3 DEF DeviceInv

\* The device that takes the step keeps its own part of the invariant.
LEMMA MoverKeeps ==
  ASSUME TypeOK, TypeOK', [Next]_vars, NEW d \in Device, DeviceInv(d),
         Step(d) \/ User(d) \/ Fault(d)
  PROVE  DeviceInv(d)'
  <1>1. /\ Len(heads) \in Nat /\ DOMAIN heads = 1 .. Len(heads)
        /\ Len(heads') \in Nat /\ DOMAIN heads' = 1 .. Len(heads')
        /\ Published \subseteq Published'
    BY HeadsGrow, HeadsMove
  <1>2. pass[d].phase \notin {"idle", "committing"} => pass[d].remote \in Published
    BY HeadAtPublished DEF DeviceInv
  <1>3. PassOK(pass[d], Known) /\ pass = [e \in Device |-> pass[e]]
        /\ pointer = [e \in Device |-> pointer[e]]
    BY DeviceTypes DEF TypeOK, PassesOK, TreesOK
  <1>4. CASE User(d)
    <2>1. UNCHANGED <<heads, pointer, pass>>
      BY <1>4 DEF User, Save, Delete
    <2>. QED  BY <2>1, OthersKeep
  <1>5. CASE Begin(d)
    <2>1. PICK s \in Stamps : Fetch(d, pointer[d], s, 1)
      BY <1>5 DEF Begin
    <2>2. UNCHANGED <<heads, pointer>>
      BY <1>5 DEF Begin
    <2>. QED  BY <2>1, <2>2, FetchKeeps DEF DeviceInv
  <1>6. CASE LoseRace(d)
    <2>1. UNCHANGED <<heads, pointer>> /\ pass[d].phase = "pushing"
      BY <1>6 DEF LoseRace
    <2>2. CASE pass[d].attempt < MaxAttempts
      <3>1. Fetch(d, pass[d].remote, pass[d].stamp, pass[d].attempt + 1)
        BY <1>6, <2>2 DEF LoseRace
      <3>2. pass[d].remote \in Published
        BY <1>2, <2>1
      <3>. QED  BY <2>1, <3>1, <3>2, FetchKeeps DEF DeviceInv
    <2>3. CASE ~(pass[d].attempt < MaxAttempts)
      <3>1. pass' = [pass EXCEPT ![d] = NoPass]
        BY <1>6, <2>3 DEF LoseRace
      <3>2. pointer'[d] \in Published'
        BY <1>1, <2>1 DEF DeviceInv
      <3>. QED  BY <3>1, <3>2, EndKeeps
    <2>. QED  BY <2>2, <2>3
  <1>7. CASE MergeInvalid(d) \/ CopyVanished(d) \/ ApplyBlocked(d) \/ Fault(d)
    <2>1. pass' = [pass EXCEPT ![d] = NoPass] /\ pointer' = pointer
      BY <1>7 DEF MergeInvalid, CopyVanished, ApplyBlocked, Fault, AnswerLost, Interrupt
    <2>2. pointer'[d] \in Published'
      BY <1>1, <2>1 DEF DeviceInv
    <2>. QED  BY <2>1, <2>2, EndKeeps
  <1>8. CASE ScanAndMerge(d)
    <2>1. \E m, cs, t : pass' = [pass EXCEPT ![d].phase = "copying", ![d].merged = m,
                                            ![d].copies = cs, ![d].todo = t]
      BY <1>8 DEF ScanAndMerge
    <2>2. PICK m, cs, t : pass' = [pass EXCEPT ![d].phase = "copying", ![d].merged = m,
                                            ![d].copies = cs, ![d].todo = t]
      BY <2>1
    <2>3. UNCHANGED <<heads, pointer>> /\ pass[d].phase = "fetched"
      BY <1>8 DEF ScanAndMerge
    <2>. DEFINE x1 == [pass[d] EXCEPT !.phase = "copying"]
                x2 == [x1 EXCEPT !.merged = m]
                x3 == [x2 EXCEPT !.copies = cs]
                x4 == [x3 EXCEPT !.todo = t]
    <2>4. pass'[d] = x4
      BY <1>3, <2>2
    <2>5. /\ x1 = [phase |-> "copying", stamp |-> x1.stamp, attempt |-> x1.attempt,
                   base |-> pass[d].base, remote |-> pass[d].remote,
                   seq |-> pass[d].seq, merged |-> x1.merged,
                   copies |-> x1.copies, todo |-> x1.todo]
      BY <1>3 DEF PassOK
    <2>. HIDE DEF x1
    <2>6. x2 = [phase |-> "copying", stamp |-> x2.stamp, attempt |-> x2.attempt,
                base |-> pass[d].base, remote |-> pass[d].remote,
                seq |-> pass[d].seq, merged |-> x2.merged,
                copies |-> x2.copies, todo |-> x2.todo]
      BY <2>5
    <2>. HIDE DEF x2
    <2>7. x3 = [phase |-> "copying", stamp |-> x3.stamp, attempt |-> x3.attempt,
                base |-> pass[d].base, remote |-> pass[d].remote,
                seq |-> pass[d].seq, merged |-> x3.merged,
                copies |-> x3.copies, todo |-> x3.todo]
      BY <2>6
    <2>. HIDE DEF x3
    <2>8. /\ pass'[d].base = pass[d].base /\ pass'[d].remote = pass[d].remote
          /\ pass'[d].seq = pass[d].seq /\ pass'[d].phase = "copying"
      BY <2>4, <2>7
    <2>. QED  BY <1>2, <2>3, <2>8, InPassKeeps
  <1>9. CASE MakeCopy(d) \/ StartApply(d) \/ ApplyPath(d) \/ MoveBase(d)
    <2>1. UNCHANGED heads /\ pass[d].phase \in {"copying", "applying"}
      BY <1>9 DEF MakeCopy, StartApply, ApplyPath, MoveBase
    <2>2. pointer'[d] \in {pointer[d], pass[d].remote}
      BY <1>3, <1>9 DEF MakeCopy, StartApply, ApplyPath, MoveBase
    <2>3. \/ \E c : pass'[d] = [pass[d] EXCEPT !.copies = c]
          \/ \E t : pass'[d] = [pass[d] EXCEPT !.todo = t]
          \/ \E f \in {"pushing", "applying"} : pass'[d] = [pass[d] EXCEPT !.phase = f]
      BY <1>3, <1>9 DEF MakeCopy, StartApply, ApplyPath, MoveBase
    <2>4. /\ pass'[d].base = pass[d].base /\ pass'[d].remote = pass[d].remote
          /\ pass'[d].seq = pass[d].seq /\ pass'[d].phase # "committing"
      BY <1>3, <2>1, <2>3 DEF PassOK
    <2>. QED  BY <1>2, <2>1, <2>2, <2>4, InPassKeeps
  <1>10. CASE NothingToPublish(d)
    <2>1. /\ UNCHANGED <<heads, pointer>> /\ pass[d].phase = "pushing"
          /\ pass[d].merged = pass[d].remote /\ pass[d].seq > 0
      BY <1>10 DEF NothingToPublish, Agrees
    <2>2. pass'[d] = [pass[d] EXCEPT !.phase = "committing"]
      BY <1>3, <1>10 DEF NothingToPublish
    <2>3. /\ pass'[d].base = pass[d].base /\ pass'[d].merged = pass[d].merged
          /\ pass'[d].seq = pass[d].seq /\ pass'[d].phase = "committing"
      BY <1>3, <2>2 DEF PassOK
    <2>4. pass[d].seq \in DOMAIN heads /\ pass[d].remote = heads[pass[d].seq]
      BY <1>1, <2>1 DEF DeviceInv, HeadAt
    <2>5. Published' = Published
      BY <2>1 DEF Published
    <2>. QED  BY <2>1, <2>3, <2>4, <2>5 DEF DeviceInv
  <1>11. CASE Publish(d)
    <2>1. /\ UNCHANGED pointer /\ pass[d].seq = Len(heads)
          /\ heads' = Append(heads, pass[d].merged)
      BY <1>11 DEF Publish, CasWins
    <2>2. pass'[d] = [pass[d] EXCEPT !.phase = "committing", !.seq = @ + 1]
      BY <1>3, <1>11 DEF Publish
    <2>3. /\ pass'[d].base = pass[d].base /\ pass'[d].merged = pass[d].merged
          /\ pass'[d].seq = pass[d].seq + 1 /\ pass'[d].phase = "committing"
      BY <1>3, <2>2, PublishedPass
    <2>4. Len(heads') = Len(heads) + 1 /\ heads'[Len(heads')] = pass[d].merged
      BY <1>3, <2>1, DeviceTypes, HeadsStep DEF PassOK
    <2>5. pass'[d].seq = Len(heads')
      BY <2>1, <2>3, <2>4
    <2>6. Len(heads') \in DOMAIN heads'
      BY <1>1, <2>4
    <2>7. pointer'[d] \in Published' /\ pass'[d].base \in Published'
      BY <1>1, <2>1, <2>3 DEF DeviceInv
    <2>. QED  BY <2>3, <2>4, <2>5, <2>6, <2>7 DEF DeviceInv
  <1>12. CASE NoteHead(d)
    <2>1. UNCHANGED <<heads, pointer, pass>>
      BY <1>12 DEF NoteHead
    <2>. QED  BY <2>1, OthersKeep
  <1>13. CASE Commit(d)
    <2>1. /\ UNCHANGED heads /\ pass[d].phase = "committing"
          /\ pass' = [pass EXCEPT ![d] = NoPass]
          /\ pointer'[d] = pass[d].merged
      BY <1>3, <1>13 DEF Commit
    <2>2. pointer'[d] \in Published'
      BY <1>1, <2>1 DEF DeviceInv, Published
    <2>. QED  BY <2>1, <2>2, EndKeeps
  <1>. QED
    BY <1>4, <1>5, <1>6, <1>7, <1>8, <1>9, <1>10, <1>11, <1>12, <1>13 DEF Step

\* With nothing published, the empty base and sequence 0 agree.
LEMMA BaseInit == Init => BaseInv
  <1>. SUFFICES ASSUME Init PROVE BaseInv
    OBVIOUS
  <1>1. TypeOK
    BY TypeInit
  <1>2. ASSUME NEW d \in Device PROVE DeviceInv(d)
    <2>1. pointer[d] = Empty /\ pass[d] = NoPass
      BY DEF Init
    <2>2. pass[d].base = Empty /\ pass[d].phase = "idle"
      BY <2>1 DEF NoPass
    <2>. QED  BY <2>1, <2>2 DEF DeviceInv, Published
  <1>. QED  BY <1>1, <1>2, BaseInvByDevice

\* Every step keeps the invariant: the mover's part and everybody else's.
LEMMA BaseStep == BaseInv /\ [Next]_vars => BaseInv'
  <1>. SUFFICES ASSUME BaseInv, [Next]_vars PROVE BaseInv'
    OBVIOUS
  <1>1. TypeOK /\ TypeOK'
    BY TypeStep DEF BaseInv
  <1>2. \A e \in Device : DeviceInv(e)
    BY BaseInvByDevice
  <1>3. ASSUME NEW e \in Device PROVE DeviceInv(e)'
    <2>1. CASE UNCHANGED vars
      BY <1>1, <1>2, <2>1, OthersKeep DEF vars
    <2>2. CASE Next
      <3>1. PICK d \in Device : Step(d) \/ User(d) \/ Fault(d)
        BY <2>2 DEF Next
      <3>2. CASE e = d
        BY <1>1, <1>2, <3>1, <3>2, MoverKeeps
      <3>3. CASE e # d
        <4>1. pass'[e] = pass[e] /\ pointer'[e] = pointer[e]
          <5>1. pass = [x \in Device |-> pass[x]] /\ pointer = [x \in Device |-> pointer[x]]
            BY <1>1 DEF TypeOK, PassesOK, TreesOK
          <5>. QED
            BY <3>1, <3>3, <5>1
               DEF Step, User, Fault, Save, Delete, Begin, Fetch, ScanAndMerge,
                   MergeInvalid, MakeCopy, CopyVanished, StartApply, ApplyPath,
                   ApplyBlocked, MoveBase, NothingToPublish, Publish, LoseRace,
                   NoteHead, Commit, AnswerLost, Interrupt
        <4>. QED  BY <1>1, <1>2, <4>1, OthersKeep
      <3>. QED  BY <3>2, <3>3
    <2>. QED  BY <2>1, <2>2
  <1>4. (\A e \in Device : DeviceInv(e))'
    BY <1>3
  <1>5. TypeOK' /\ (\A e \in Device : DeviceInv(e))' => BaseInv'
    BY DEF BaseInv, BaseIsPublished, MergesTheSubmitted, CommitsTheHead, DeviceInv
  <1>. QED  BY <1>1, <1>4, <1>5

\* apply_commit and commit: the base a device merges from is always a manifest
\* the relay published, at whatever step a pass was interrupted.
THEOREM BaseAlwaysPublished == Spec => []BaseIsPublished
  <1>1. Spec => []BaseInv
    BY BaseInit, BaseStep, PTL DEF Spec
  <1>2. BaseInv => BaseIsPublished
    BY DEF BaseInv
  <1>. QED  BY <1>1, <1>2, PTL

\* put_head: a pass submits the sequence of the very head it merged against.
THEOREM AlwaysMergesTheSubmitted == Spec => []MergesTheSubmitted
  <1>1. Spec => []BaseInv
    BY BaseInit, BaseStep, PTL DEF Spec
  <1>2. BaseInv => MergesTheSubmitted
    BY DEF BaseInv
  <1>. QED  BY <1>1, <1>2, PTL

\* commit: a device records as converged only what the relay holds under the
\* sequence it records with it.
THEOREM AlwaysCommitsTheHead == Spec => []CommitsTheHead
  <1>1. Spec => []BaseInv
    BY BaseInit, BaseStep, PTL DEF Spec
  <1>2. BaseInv => CommitsTheHead
    BY DEF BaseInv
  <1>. QED  BY <1>1, <1>2, PTL

(***************************************************************************)
(* No byte is lost.                                                        *)
(*                                                                         *)
(* The theorem is about passes that nobody disturbs between the scan and   *)
(* the end of the apply (Undisturbed): a save in that window may be        *)
(* overwritten, and a file that could not be uploaded is published as its  *)
(* last-good entry.  Under `.git` a copy is kept on one device only, and   *)
(* the next one may take its name, so the paths are others.                *)
(*                                                                         *)
(* Paths are the names of files outside `.git`, Length the length of their *)
(* text; both are parameters of the theorem.  All it needs of them is that *)
(* the name of a conflict copy is longer than that of the file it copies:  *)
(* so a content never comes back, copy by copy, under a name it had.       *)
(***************************************************************************)
CONSTANTS Paths, Length

Undisturbed ==
  /\ SavePhases \cap {"copying", "applying"} = {}
  /\ UploadFaults = FALSE

\* NameSpace::claim puts " (conflict from <who> <stamp>) <n>" into the name.
NamesGrow ==
  /\ UserPaths \subseteq Paths
  /\ Length \in [Paths -> Nat]
  /\ \A p \in Paths :
        /\ IsPath(p) /\ ~IsGitPath(p)
        /\ \A who \in Device \cup {Remote}, stamp \in Stamps, n \in Nat :
              LET copy == CopyPath(p, who, stamp, n)
              IN  copy \in Paths /\ Length[copy] > Length[p]

\* A manifest of finitely many such files.
Small(m) == IsFiniteSet(DOMAIN m) /\ DOMAIN m \subseteq Paths

\* Content x is in manifest m at path p; under a longer name than p; either.
Has(m, p, x)    == p \in DOMAIN m /\ m[p].data = x
Longer(m, p, x) == \E r \in DOMAIN m : m[r].data = x /\ Length[r] > Length[p]
Holds(m, p, x)  == Has(m, p, x) \/ Longer(m, p, x)

(***************************************************************************)
(* What one merge secures, and what of it the rest of the pass keeps: m is *)
(* the tree, todo what is still to be applied, copies what is still to be  *)
(* copied.                                                                 *)
(***************************************************************************)

\* What the remote has and the base has not is in the merge, there or as a
\* copy.
RemoteKept(base, remote, merged) ==
  \A q \in DOMAIN remote :
     LET x == remote[q].data IN ~Has(base, q, x) => Holds(merged, q, x)

\* What is in the tree, and not about to be replaced, is in the merge, unless
\* it was saved after the scan.
Agreed(m, remote, merged, todo) ==
  \A p \in DOMAIN m \ todo :
     m[p].data \in Data(remote) => Has(merged, p, m[p].data)

\* What is in the merge is in the tree, or about to be written, or no longer
\* wanted.
Written(m, merged, todo, copies, wanted) ==
  \A p \in DOMAIN merged :
     LET x == merged[p].data
     IN  \/ x \notin wanted \/ Has(m, p, x)
         \/ p \in todo \/ \E c \in copies : c.copy = p

\* What the apply replaces was in the base, or has a copy.
Spared(m, base, remote, merged, todo) ==
  \A p \in todo \cap DOMAIN m :
     LET x == m[p].data
     IN  /\ \/ Has(base, p, x) \/ Has(merged, p, x)
            \/ \E r \in DOMAIN merged \ todo :
                  merged[r].data = x /\ Length[r] > Length[p]
         /\ Has(remote, p, x) => Has(merged, p, x)

\* A copy still to be made is of what the tree has, under a name it has not.
ToCopy(m, merged, todo, copies) ==
  \A c \in copies :
     /\ c.side = "local" /\ ~c.localOnly
     /\ c.path \in DOMAIN m => m[c.path].data = c.entry.data
     /\ c.copy \notin DOMAIN m /\ c.copy \notin todo
     /\ Has(merged, c.copy, c.entry.data)
     /\ \A k \in copies : k.copy # c.path /\ (k.copy = c.copy => k = c)

\* The inputs of a merge of device d.
Merging(local, remote, d, stamp) ==
  /\ d \in Device /\ stamp \in Stamps
  /\ IsManifest(local, Entry) /\ IsManifest(remote, Entry)
  /\ Small(local) /\ Small(remote)

LEMMA MergingTrees ==
  ASSUME NamesGrow, NEW local, NEW remote, NEW d, NEW stamp,
         Merging(local, remote, d, stamp)
  PROVE  IsTree(local, Entry) /\ IsTree(remote, Entry)
  BY DEF NamesGrow, Merging, Small, IsTree

\* A conflict copy of a merge: a new and longer name, which is published.
LEMMA CopyFacts ==
  ASSUME NamesGrow, NEW base, NEW local, NEW remote, NEW d, NEW stamp,
         Merging(local, remote, d, stamp),
         NEW c \in Conflicts(base, local, remote, d, stamp)
  PROVE  LET merged == Merge3(base, local, remote, d, stamp).merged
         IN  /\ c.path \in DOMAIN local /\ c.path \in DOMAIN remote
             /\ local[c.path].data # remote[c.path].data
             /\ c.side \in {"local", "remote"} /\ ~c.localOnly
             /\ c.entry = IF c.side = "local" THEN local[c.path] ELSE remote[c.path]
             /\ c.copy \notin DOMAIN local /\ c.copy \notin DOMAIN remote
             /\ c.copy \in Paths /\ Length[c.copy] > Length[c.path]
             /\ c.copy \in DOMAIN merged /\ merged[c.copy] = c.entry
  <1>. DEFINE out == Merge3(base, local, remote, d, stamp)
  <1>1. IsTree(local, Entry) /\ IsTree(remote, Entry) /\ Entry \subseteq Entry
    BY MergingTrees
  <1>2. /\ c.path \in Contested(base, local, remote)
        /\ c.path \in DOMAIN local /\ c.path \in DOMAIN remote
        /\ c.side \in {"local", "remote"}
        /\ c.entry = (IF c.side = "local" THEN local[c.path] ELSE remote[c.path])
        /\ c.localOnly = IsGitPath(c.path)
        /\ c.copy \notin Taken(local, remote)
        /\ \E w \in {d, Remote}, n \in Nat : c.copy = CopyPath(c.path, w, stamp, n)
    BY <1>1, ConflictFacts
  <1>3. c.path \in Paths
    BY <1>2 DEF Merging, Small
  <1>4. ~c.localOnly
    BY <1>2, <1>3 DEF NamesGrow
  <1>5. c.copy \in Paths /\ Length[c.copy] > Length[c.path]
    BY <1>2, <1>3 DEF NamesGrow, Merging
  <1>6. local[c.path].data # remote[c.path].data
    <2>1. Verdict(base, local, remote, c.path).lose # "none"
      BY <1>2 DEF Contested
    <2>. QED  BY <1>1, <2>1, ContestedIsShared DEF IsTree
  <1>7. MergeFacts(base, local, remote, out) /\ c \in out.conflicts
    <2>1. MergeFacts(base, local, remote, out)
      BY <1>1, MergedAt
    <2>. QED  BY <2>1 DEF Merge3
  <1>. HIDE DEF out
  <1>8. c.copy \in DOMAIN out.merged /\ out.merged[c.copy] = c.entry
    BY <1>4, <1>7 DEF MergeFacts
  <1>9. c.copy \notin DOMAIN local /\ c.copy \notin DOMAIN remote
    BY <1>2 DEF Taken
  <1>. QED  BY <1>2, <1>4, <1>5, <1>6, <1>8, <1>9 DEF out

\* The merge of finitely many files outside `.git` is one.
LEMMA MergeIsSmall ==
  ASSUME NamesGrow, NEW base, NEW local, NEW remote, NEW d, NEW stamp,
         Merging(local, remote, d, stamp)
  PROVE  Small(Merge3(base, local, remote, d, stamp).merged)
  <1>. DEFINE out == Merge3(base, local, remote, d, stamp)
              all == Conflicts(base, local, remote, d, stamp)
              contested == Contested(base, local, remote)
              sides == DOMAIN local \cup DOMAIN remote
              f == [p \in contested |-> ConflictCopy(base, local, remote, d, stamp, p)]
              g == [c \in all |-> c.copy]
  <1>1. IsFiniteSet(sides) /\ sides \subseteq Paths
    BY FS_Union DEF Merging, Small
  <1>2. contested \subseteq sides
    <2>. SUFFICES ASSUME NEW p \in contested PROVE p \in sides
      OBVIOUS
    <2>1. Verdict(base, local, remote, p).lose # "none"
      BY DEF Contested
    <2>2. Entry \subseteq Entry /\ IsManifest(local, Entry) /\ IsManifest(remote, Entry)
      BY DEF Merging
    <2>3. p \in DOMAIN local
      <3>. HIDE DEF contested
      <3>. QED  BY <2>1, <2>2, ContestedIsShared
    <2>. QED  BY <2>3
  <1>3. IsFiniteSet(contested)
    BY <1>1, <1>2, FS_Subset
  <1>4. all = {f[p] : p \in contested} /\ DOMAIN f = contested
    BY DEF Conflicts
  <1>5. IsFiniteSet(all)
    <2>. HIDE DEF f, all, contested
    <2>. QED  BY <1>3, <1>4, ImageIsFinite
  <1>6. {c.copy : c \in all} = {g[c] : c \in all} /\ DOMAIN g = all
    OBVIOUS
  <1>7. IsFiniteSet({c.copy : c \in all})
    <2>. HIDE DEF g, all
    <2>. QED  BY <1>5, <1>6, ImageIsFinite
  <1>8. MergeFacts(base, local, remote, out) /\ out.conflicts = all
    <2>1. IsTree(local, Entry) /\ IsTree(remote, Entry) /\ Entry \subseteq Entry
      BY MergingTrees
    <2>2. MergeFacts(base, local, remote, out)
      BY <2>1, MergedAt
    <2>. QED  BY <2>2 DEF Merge3
  <1>9. \A c \in all : c.copy \in Paths
    BY CopyFacts
  <1>. HIDE DEF out, all, sides
  <1>10. DOMAIN out.merged \subseteq sides \cup {c.copy : c \in all}
    BY <1>8 DEF MergeFacts, sides
  <1>11. IsFiniteSet(sides \cup {c.copy : c \in all})
    BY <1>1, <1>7, FS_Union
  <1>12. IsFiniteSet(DOMAIN out.merged)
    BY <1>10, <1>11, FS_Subset
  <1>13. DOMAIN out.merged \subseteq Paths
    BY <1>1, <1>9, <1>10
  <1>. QED  BY <1>12, <1>13 DEF Small, out

\* merge's promise, in the terms used here: what one side has and the base has
\* not is in the merge, under its name or that of a copy.
LEMMA MergeHolds ==
  ASSUME NamesGrow, NEW base, NEW local, NEW remote, NEW d, NEW stamp,
         Merging(local, remote, d, stamp),
         NEW m \in {local, remote}, NEW p \in DOMAIN m, ~Has(base, p, m[p].data)
  PROVE  LET out == Merge3(base, local, remote, d, stamp)
         IN  \/ Has(out.merged, p, m[p].data)
             \/ \E c \in out.conflicts :
                   /\ c.path = p /\ c.entry = m[p]
                   /\ Has(out.merged, c.copy, m[p].data)
                   /\ Length[c.copy] > Length[p]
  <1>. DEFINE out == Merge3(base, local, remote, d, stamp)
  <1>1. m[p] # At(base, p)
    <2>1. m[p] \in Entry
      BY DEF Merging, IsManifest
    <2>. QED  BY <2>1, AbsentAssumption DEF Has, At
  <1>2. IsManifest(local, Entry) /\ IsManifest(remote, Entry)
    BY DEF Merging
  <1>3. \/ p \in DOMAIN out.merged /\ out.merged[p].data = m[p].data
        \/ \E c \in out.conflicts : c.path = p /\ c.entry = m[p]
    BY <1>1, <1>2, MergeKeepsEdits
  <1>4. ASSUME NEW c \in out.conflicts, c.path = p, c.entry = m[p]
        PROVE  Has(out.merged, c.copy, m[p].data) /\ Length[c.copy] > Length[p]
    <2>1. c \in Conflicts(base, local, remote, d, stamp)
      BY DEF Merge3
    <2>. QED  BY <1>4, <2>1, CopyFacts DEF Has
  <1>. QED  BY <1>3, <1>4 DEF Has

LEMMA MergeKeepsRemote ==
  ASSUME NamesGrow, NEW base, NEW local, NEW remote, NEW d, NEW stamp,
         Merging(local, remote, d, stamp)
  PROVE  RemoteKept(base, remote, Merge3(base, local, remote, d, stamp).merged)
  <1>. DEFINE out == Merge3(base, local, remote, d, stamp)
  <1>. SUFFICES ASSUME NEW q \in DOMAIN remote, ~Has(base, q, remote[q].data)
                PROVE  Holds(out.merged, q, remote[q].data)
    BY DEF RemoteKept
  <1>1. \/ Has(out.merged, q, remote[q].data)
        \/ \E c \in out.conflicts :
              Has(out.merged, c.copy, remote[q].data) /\ Length[c.copy] > Length[q]
    BY MergeHolds
  <1>. HIDE DEF out
  <1>. QED  BY <1>1 DEF Holds, Longer, Has

\* A file of the tree that the apply leaves alone is as in the merge; a copy
\* to be made has a name the tree has not.
LEMMA MergeAgrees ==
  ASSUME NamesGrow, NEW base, NEW local, NEW remote, NEW d, NEW stamp,
         Merging(local, remote, d, stamp)
  PROVE  LET out == Merge3(base, local, remote, d, stamp)
         IN  Agreed(local, remote, out.merged, ApplyFromRemote(local, out))
  <1>. DEFINE out == Merge3(base, local, remote, d, stamp)
              todo == ApplyFromRemote(local, out)
  <1>. SUFFICES ASSUME NEW p \in DOMAIN local \ todo
                PROVE  Has(out.merged, p, local[p].data)
    BY DEF Agreed
  <1>1. \A c \in out.conflicts : c.copy # p
    <2>1. out.conflicts = Conflicts(base, local, remote, d, stamp)
      BY DEF Merge3
    <2>. QED  BY <2>1, CopyFacts
  <1>2. p \notin Diff(local, out.merged)
    <2>. HIDE DEF out
    <2>. QED  BY <1>1 DEF ApplyFromRemote
  <1>. HIDE DEF out
  <1>3. At(out.merged, p) = local[p]
    BY <1>2 DEF Diff, At
  <1>4. local[p] # Absent
    BY AbsentAssumption DEF Merging, IsManifest
  <1>. QED  BY <1>3, <1>4 DEF At, Has

LEMMA MergeWrites ==
  ASSUME NamesGrow, NEW base, NEW local, NEW remote, NEW d, NEW stamp,
         Merging(local, remote, d, stamp), NEW wanted
  PROVE  LET out == Merge3(base, local, remote, d, stamp)
         IN  Written(local, out.merged, ApplyFromRemote(local, out),
                     CopiesToMake(out.conflicts), wanted)
  <1>. DEFINE out == Merge3(base, local, remote, d, stamp)
              todo == ApplyFromRemote(local, out)
              copies == CopiesToMake(out.conflicts)
  <1>. SUFFICES ASSUME NEW p \in DOMAIN out.merged
                PROVE  \/ Has(local, p, out.merged[p].data)
                       \/ p \in todo \/ \E c \in copies : c.copy = p
    BY DEF Written
  <1>. HIDE DEF out
  <1>1. CASE p \in Diff(local, out.merged)
    BY <1>1 DEF ApplyFromRemote, CopiesToMake
  <1>2. CASE p \notin Diff(local, out.merged)
    <2>1. At(local, p) = out.merged[p]
      BY <1>2 DEF Diff, At
    <2>2. out.merged[p] # Absent
      <3>1. IsManifest(out.merged, Entry)
        BY MergedIsManifest DEF Merging, out
      <3>. QED  BY <3>1, AbsentAssumption DEF IsManifest
    <2>. QED  BY <2>1, <2>2 DEF At, Has
  <1>. QED  BY <1>1, <1>2

LEMMA MergeSpares ==
  ASSUME NamesGrow, NEW base, NEW local, NEW remote, NEW d, NEW stamp,
         Merging(local, remote, d, stamp)
  PROVE  LET out == Merge3(base, local, remote, d, stamp)
         IN  Spared(local, base, remote, out.merged, ApplyFromRemote(local, out))
  <1>. DEFINE out == Merge3(base, local, remote, d, stamp)
              todo == ApplyFromRemote(local, out)
              all == Conflicts(base, local, remote, d, stamp)
  <1>. SUFFICES ASSUME NEW p \in DOMAIN local
                PROVE  LET x == local[p].data
                       IN  /\ \/ Has(base, p, x) \/ Has(out.merged, p, x)
                              \/ \E r \in DOMAIN out.merged \ todo :
                                    out.merged[r].data = x /\ Length[r] > Length[p]
                           /\ Has(remote, p, x) => Has(out.merged, p, x)
    BY DEF Spared
  <1>. DEFINE x == local[p].data
  <1>0. out.conflicts = all
    BY DEF Merge3
  <1>1. ASSUME ~Has(base, p, x), ~Has(out.merged, p, x)
        PROVE  \E r \in DOMAIN out.merged \ todo :
                  out.merged[r].data = x /\ Length[r] > Length[p]
    <2>1. PICK c \in out.conflicts :
             /\ c.path = p /\ c.entry = local[p]
             /\ Has(out.merged, c.copy, x) /\ Length[c.copy] > Length[p]
      BY <1>1, MergeHolds
    <2>2. /\ c.entry = IF c.side = "local" THEN local[p] ELSE remote[p]
          /\ local[p].data # remote[p].data
          /\ c.side \in {"local", "remote"} /\ ~c.localOnly
      BY <1>0, <2>1, CopyFacts
    <2>3. c.side = "local"
      BY <2>1, <2>2
    <2>. HIDE DEF out
    <2>4. c.copy \notin todo
      BY <2>1, <2>2, <2>3 DEF ApplyFromRemote
    <2>. QED  BY <2>1, <2>4 DEF Has
  <1>2. ASSUME Has(remote, p, x) PROVE Has(out.merged, p, x)
    <2>1. IsTree(local, Entry) /\ IsTree(remote, Entry) /\ Entry \subseteq Entry
      BY MergingTrees
    <2>2. MergeFacts(base, local, remote, out)
      BY <2>1, MergedAt
    <2>3. p \in DOMAIN remote /\ remote[p].data = x
      BY <1>2 DEF Has
    <2>4. At(out.merged, p) = Verdict(base, local, remote, p).win
      BY <2>2 DEF MergeFacts
    <2>5. Verdict(base, local, remote, p) = Decide(At(base, p), local[p], remote[p])
      BY <2>3 DEF Verdict, At
    <2>6. local[p] \in Entry /\ remote[p] \in Entry
      BY <2>3 DEF Merging, IsManifest
    <2>7. Decide(At(base, p), local[p], remote[p]).win \in {local[p], remote[p]}
      BY <2>6, DecideIsASide
    <2>. HIDE DEF out
    <2>8. At(out.merged, p) # Absent /\ At(out.merged, p).data = x
      BY <2>3, <2>4, <2>5, <2>6, <2>7, AbsentAssumption
    <2>. QED  BY <2>8 DEF At, Has
  <1>. QED  BY <1>1, <1>2

LEMMA MergeCopies ==
  ASSUME NamesGrow, NEW base, NEW local, NEW remote, NEW d, NEW stamp,
         Merging(local, remote, d, stamp)
  PROVE  LET out == Merge3(base, local, remote, d, stamp)
         IN  ToCopy(local, out.merged, ApplyFromRemote(local, out),
                    CopiesToMake(out.conflicts))
  <1>. DEFINE out == Merge3(base, local, remote, d, stamp)
              todo == ApplyFromRemote(local, out)
              all == Conflicts(base, local, remote, d, stamp)
              copies == CopiesToMake(out.conflicts)
  <1>0. out.conflicts = all
    BY DEF Merge3
  <1>. SUFFICES ASSUME NEW c \in copies
                PROVE  /\ c.side = "local" /\ ~c.localOnly
                       /\ c.path \in DOMAIN local => local[c.path].data = c.entry.data
                       /\ c.copy \notin DOMAIN local /\ c.copy \notin todo
                       /\ Has(out.merged, c.copy, c.entry.data)
                       /\ \A k \in copies : k.copy # c.path /\ (k.copy = c.copy => k = c)
    BY DEF ToCopy
  <1>1. c \in all /\ (c.side = "local" \/ c.localOnly)
    BY <1>0 DEF CopiesToMake
  <1>2. /\ c.side = "local" /\ ~c.localOnly /\ c.entry = local[c.path]
        /\ c.copy \notin DOMAIN local
        /\ c.copy \in DOMAIN out.merged /\ out.merged[c.copy] = c.entry
    BY <1>1, CopyFacts
  <1>3. \A k \in copies : k.copy # c.path /\ (k.copy = c.copy => k = c)
    <2>1. IsTree(local, Entry) /\ IsTree(remote, Entry) /\ Entry \subseteq Entry
      BY MergingTrees
    <2>2. \A k \in all : k.copy = c.copy => k = c
      BY <1>1, <2>1, CopiesAreDistinct
    <2>3. \A k \in all : k.copy # c.path
      BY <1>1, CopyFacts
    <2>. QED  BY <1>0, <2>2, <2>3 DEF CopiesToMake
  <1>4. c.copy \notin todo
    <2>. HIDE DEF out
    <2>. QED  BY <1>0, <1>1, <1>2 DEF ApplyFromRemote
  <1>. QED  BY <1>2, <1>3, <1>4 DEF Has

(***************************************************************************)
(* The invariant.  A wanted content x that was published is under an       *)
(* anchor: a path q of the head that is the longest any head had x under,  *)
(* that has had x ever since a head first did, and at which no device      *)
(* whose base has x lacks it, unless it has x under a longer name still.   *)
(* Such a longer name was never published, so no merge takes the file for  *)
(* one that others replaced; and when x loses q to another content, its    *)
(* copy has a longer name, and is the next anchor.                         *)
(***************************************************************************)

Wanted == (1 .. edits) \ gone

Covers(b, m, q, x) == Has(b, q, x) => Holds(m, q, x)

Anchor(q, x) ==
  /\ Has(RelayHead, q, x)
  /\ \A i \in DOMAIN heads : \A p : Has(heads[i], p, x) => Length[p] <= Length[q]
  /\ \A i \in DOMAIN heads, j \in DOMAIN heads :
        i <= j /\ Has(heads[i], q, x) => Has(heads[j], q, x)
  /\ \A e \in Device : /\ Covers(pointer[e], disk[e], q, x)
                       /\ Covers(pass[e].base, disk[e], q, x)

Unpublished(x) == \A i \in DOMAIN heads : \A p : ~Has(heads[i], p, x)

Secure(x) ==
  \/ \E q : Anchor(q, x)
  \/ Unpublished(x) /\ \E e \in Device : \E p : Has(disk[e], p, x)

AllSecure == \A x \in Wanted : Secure(x)

\* What a pass k over the tree m keeps of what its merge secured.
PassKept(k, m, hs, wanted) ==
  /\ k.phase \notin {"idle", "committing"} =>
        k.stamp \in Stamps /\ \E i \in 0 .. k.seq : k.base = HeadAt(hs, i)
  /\ k.phase \in {"copying", "applying", "pushing"} =>
        RemoteKept(k.base, k.remote, k.merged) /\ Agreed(m, k.remote, k.merged, k.todo)
  /\ k.phase \in {"copying", "applying", "pushing", "committing"} =>
        Written(m, k.merged, k.todo, k.copies, wanted)
  /\ k.phase \in {"copying", "applying"} =>
        Spared(m, k.base, k.remote, k.merged, k.todo)
  /\ k.phase = "copying" => ToCopy(m, k.merged, k.todo, k.copies)
  /\ k.phase \in {"applying", "pushing", "committing"} => k.copies = {}
  /\ k.phase \in {"pushing", "committing"} => k.todo = {}

AllKept == \A e \in Device : PassKept(pass[e], disk[e], heads, Wanted)

Shape ==
  /\ \A i \in DOMAIN heads : Small(heads[i])
  /\ \A e \in Device : Small(disk[e]) /\ Small(pass[e].merged)

LossInv == BaseInv /\ Shape /\ AllKept /\ AllSecure

\* What moves when one device does.
LEMMA OthersStay ==
  ASSUME TypeOK, NEW d \in Device, Step(d) \/ User(d) \/ Fault(d),
         NEW e \in Device, e # d
  PROVE  pass'[e] = pass[e] /\ pointer'[e] = pointer[e] /\ disk'[e] = disk[e]
  <1>1. /\ pass = [x \in Device |-> pass[x]] /\ pointer = [x \in Device |-> pointer[x]]
        /\ disk = [x \in Device |-> disk[x]]
    BY DEF TypeOK, PassesOK, TreesOK
  <1>2. pass' = pass \/ \E y : pass' = [pass EXCEPT ![d] = y]
    BY DEF Step, User, Fault, Save, Delete, Begin, Fetch, ScanAndMerge,
           MergeInvalid, MakeCopy, CopyVanished, StartApply, ApplyPath,
           ApplyBlocked, MoveBase, NothingToPublish, Publish, LoseRace,
           NoteHead, Commit, AnswerLost, Interrupt
  <1>3. pointer' = pointer \/ \E y : pointer' = [pointer EXCEPT ![d] = y]
    BY DEF Step, User, Fault, Save, Delete, Begin, ScanAndMerge,
           MergeInvalid, MakeCopy, CopyVanished, StartApply, ApplyPath,
           ApplyBlocked, MoveBase, NothingToPublish, Publish, LoseRace,
           NoteHead, Commit, AnswerLost, Interrupt
  <1>4. disk' = disk \/ \E y : disk' = [disk EXCEPT ![d] = y]
    BY DEF Step, User, Fault, Save, Delete, Begin, ScanAndMerge,
           MergeInvalid, MakeCopy, CopyVanished, StartApply, ApplyPath,
           ApplyBlocked, MoveBase, NothingToPublish, Publish, LoseRace,
           NoteHead, Commit, AnswerLost, Interrupt
  <1>. QED  BY <1>1, <1>2, <1>3, <1>4

\* A step of a pass changes no history; what is wanted after an edit was
\* wanted before, or is the content it saved.
LEMMA WantedStep ==
  ASSUME TypeOK, NEW d \in Device, Step(d) \/ User(d) \/ Fault(d)
  PROVE  /\ Step(d) \/ Fault(d) => UNCHANGED <<edits, gone>> /\ Wanted' = Wanted
         /\ User(d) => edits' = edits + 1 /\ gone \subseteq gone'
         /\ \A x \in Wanted' : x \in Wanted \/ x = edits + 1
         /\ edits \in Nat
  <1>1. edits \in Nat
    BY ConvergeAssumption DEF TypeOK
  <1>2. ASSUME Step(d) \/ Fault(d) PROVE UNCHANGED <<edits, gone>>
    BY <1>2 DEF Step, Fault, Begin, ScanAndMerge, history,
           MergeInvalid, MakeCopy, CopyVanished, StartApply, ApplyPath,
           ApplyBlocked, MoveBase, NothingToPublish, Publish, LoseRace,
           NoteHead, Commit, AnswerLost, Interrupt
  <1>3. ASSUME User(d) PROVE edits' = edits + 1 /\ gone \subseteq gone'
    BY <1>3 DEF User, Save, Delete
  <1>4. ASSUME NEW x \in Wanted' PROVE x \in Wanted \/ x = edits + 1
    <2>1. CASE Step(d) \/ Fault(d)
      BY <1>2, <2>1 DEF Wanted
    <2>2. CASE User(d)
      <3>1. x \in 1 .. edits + 1 /\ x \notin gone
        BY <1>3, <2>2 DEF Wanted
      <3>. QED  BY <1>1, <3>1 DEF Wanted
    <2>. QED  BY <2>1, <2>2
  <1>. QED  BY <1>1, <1>2, <1>3, <1>4 DEF Wanted

\* What an edit does to the tree: a wanted content stays where it is, and what
\* is new is the content that was saved.
LEMMA UserTree ==
  ASSUME TypeOK, NEW d \in Device, User(d)
  PROVE  /\ \A x \in Wanted' : \A p : Has(disk[d], p, x) => Has(disk'[d], p, x)
         /\ \A x, p : Has(disk'[d], p, x) =>
               Has(disk[d], p, x) \/ (x = edits + 1 /\ pass[d].phase \in SavePhases)
         /\ \A x \in Wanted' : x \notin Wanted => \E p : Has(disk'[d], p, x)
         /\ DOMAIN disk'[d] \subseteq DOMAIN disk[d] \/ \E p \in UserPaths :
               DOMAIN disk'[d] = DOMAIN disk[d] \cup {p}
         /\ pass[d].phase \in SavePhases \/ DOMAIN disk'[d] \subseteq DOMAIN disk[d]
         /\ UNCHANGED <<heads, pointer, pass>>
  <1>1. disk = [x \in Device |-> disk[x]] /\ edits \in Nat
    BY ConvergeAssumption DEF TypeOK, TreesOK
  <1>2. \A p : p \in DOMAIN disk[d] => disk[d][p].data \in Lineage(d, p)
    BY DEF Lineage
  <1>3. CASE \E p \in UserPaths, t \in MTimes : Save(d, p, t)
    <2>1. PICK p \in UserPaths, t \in MTimes : Save(d, p, t)
      BY <1>3
    <2>. DEFINE e == [data |-> edits + 1, mtime |-> t]
    <2>2. /\ pass[d].phase \in SavePhases /\ edits' = edits + 1
          /\ disk' = [disk EXCEPT ![d] = With(disk[d], p, e)]
          /\ gone' = gone \cup Lineage(d, p)
          /\ UNCHANGED <<heads, pointer, pass>>
      BY <2>1 DEF Save, MayEdit
    <2>3. disk'[d] = With(disk[d], p, e)
      BY <1>1, <2>2
    <2>4. /\ DOMAIN disk'[d] = DOMAIN disk[d] \cup {p}
          /\ disk'[d][p] = e /\ e.data = edits + 1
          /\ \A q \in DOMAIN disk[d] : q # p => disk'[d][q] = disk[d][q]
      BY <2>3 DEF With
    <2>. HIDE DEF e
    <2>5. ASSUME NEW x \in Wanted', NEW q, Has(disk[d], q, x) PROVE Has(disk'[d], q, x)
      <3>1. q # p
        <4>1. x \notin gone'
          BY DEF Wanted
        <4>. QED  BY <1>2, <2>2, <2>5, <4>1 DEF Has
      <3>. QED  BY <2>4, <2>5, <3>1 DEF Has
    <2>6. ASSUME NEW x, NEW q, Has(disk'[d], q, x)
          PROVE Has(disk[d], q, x) \/ x = edits + 1
      BY <2>4, <2>6 DEF Has
    <2>7. ASSUME NEW x \in Wanted', x \notin Wanted PROVE Has(disk'[d], p, x)
      BY <2>4, <2>7, WantedStep DEF Has
    <2>. QED  BY <2>2, <2>4, <2>5, <2>6, <2>7
  <1>4. CASE \E p \in DOMAIN disk[d] : Delete(d, p)
    <2>1. PICK p \in DOMAIN disk[d] : Delete(d, p)
      BY <1>4
    <2>2. /\ edits' = edits + 1
          /\ disk' = [disk EXCEPT ![d] = Without(disk[d], p)]
          /\ gone' = gone \cup Lineage(d, p) \cup {edits + 1}
          /\ UNCHANGED <<heads, pointer, pass>>
      BY <2>1 DEF Delete
    <2>3. disk'[d] = Without(disk[d], p)
      BY <1>1, <2>2
    <2>4. /\ DOMAIN disk'[d] = DOMAIN disk[d] \ {p}
          /\ \A q \in DOMAIN disk'[d] : disk'[d][q] = disk[d][q]
      BY <2>3 DEF Without
    <2>5. ASSUME NEW x \in Wanted', NEW q, Has(disk[d], q, x) PROVE Has(disk'[d], q, x)
      <3>1. q # p
        <4>1. x \notin gone'
          BY DEF Wanted
        <4>. QED  BY <1>2, <2>2, <2>5, <4>1 DEF Has
      <3>. QED  BY <2>4, <2>5, <3>1 DEF Has
    <2>6. ASSUME NEW x, NEW q, Has(disk'[d], q, x) PROVE Has(disk[d], q, x)
      BY <2>4, <2>6 DEF Has
    <2>7. \A x \in Wanted' : x \in Wanted
      <3>1. edits + 1 \in gone'
        BY <2>2
      <3>2. \A x \in Wanted' : x # edits + 1
        BY <3>1 DEF Wanted
      <3>. QED  BY <3>2, WantedStep
    <2>. QED  BY <2>2, <2>4, <2>5, <2>6, <2>7
  <1>. QED  BY <1>3, <1>4 DEF User

\* A pass that does not move keeps what its merge secured.
LEMMA KeptByOthers ==
  ASSUME NEW k, NEW m, NEW hs, NEW w, PassKept(k, m, hs, w), NEW gs, NEW v,
         k.phase \notin {"idle", "committing"} =>
            \A i \in 0 .. k.seq : HeadAt(gs, i) = HeadAt(hs, i),
         \A p \in DOMAIN k.merged : k.merged[p].data \in v => k.merged[p].data \in w
  PROVE  PassKept(k, m, gs, v)
  <1>1. ASSUME Written(m, k.merged, k.todo, k.copies, w)
        PROVE  Written(m, k.merged, k.todo, k.copies, v)
    BY <1>1 DEF Written
  <1>2. ASSUME k.phase \notin {"idle", "committing"},
               \E i \in 0 .. k.seq : k.base = HeadAt(hs, i)
        PROVE  \E i \in 0 .. k.seq : k.base = HeadAt(gs, i)
    BY <1>2
  <1>. QED  BY <1>1, <1>2 DEF PassKept

\* The contents of a manifest of known entries.
LEMMA KnownData ==
  ASSUME NEW m, IsManifest(m, Known), NEW p \in DOMAIN m
  PROVE  m[p].data \in 1 .. edits
  BY DEF IsManifest, Known

\* A device moves and the heads, the history and the other devices do not: the
\* invariant holds if that device still covers every anchor and still has what
\* nobody published.
LEMMA QuietStep ==
  ASSUME LossInv, NEW d \in Device, UNCHANGED <<heads, edits, gone>>,
         \A e \in Device : e # d =>
            pass'[e] = pass[e] /\ pointer'[e] = pointer[e] /\ disk'[e] = disk[e],
         Small(disk'[d]), Small(pass'[d].merged),
         PassKept(pass'[d], disk'[d], heads, Wanted),
         \A x \in Wanted : \A q : Anchor(q, x) =>
            /\ Covers(pointer'[d], disk'[d], q, x)
            /\ Covers(pass'[d].base, disk'[d], q, x),
         \A x \in Wanted : \A p : Unpublished(x) /\ Has(disk[d], p, x) =>
            \E r : Has(disk'[d], r, x)
  PROVE  Shape' /\ AllKept' /\ AllSecure'
  <1>1. Wanted' = Wanted
    BY DEF Wanted
  <1>2. Shape'
    BY DEF LossInv, Shape
  <1>3. AllKept'
    BY <1>1 DEF LossInv, AllKept
  <1>4. ASSUME NEW x \in Wanted PROVE Secure(x)'
    <2>1. CASE \E q : Anchor(q, x)
      <3>1. PICK q : Anchor(q, x)
        BY <2>1
      <3>2. \A e \in Device : /\ Covers(pointer'[e], disk'[e], q, x)
                              /\ Covers(pass'[e].base, disk'[e], q, x)
        BY <3>1 DEF Anchor
      <3>3. RelayHead' = RelayHead
        BY DEF RelayHead
      <3>4. Anchor(q, x)'
        BY <3>1, <3>2, <3>3 DEF Anchor
      <3>. QED  BY <3>4 DEF Secure
    <2>2. CASE Unpublished(x) /\ \E e \in Device : \E p : Has(disk[e], p, x)
      <3>1. Unpublished(x)'
        BY <2>2 DEF Unpublished
      <3>2. \E e \in Device : \E p : Has(disk'[e], p, x)
        BY <2>2
      <3>. QED  BY <3>1, <3>2 DEF Secure
    <2>. QED  BY <2>1, <2>2 DEF LossInv, AllSecure, Secure
  <1>5. AllSecure'
    BY <1>1, <1>4 DEF AllSecure
  <1>. QED  BY <1>2, <1>3, <1>5

\* What the invariant says of the device that moves.
LEMMA LossFacts ==
  ASSUME LossInv, NEW d \in Device
  PROVE  /\ TypeOK /\ PassOK(pass[d], Known) /\ PassKept(pass[d], disk[d], heads, Wanted)
         /\ IsManifest(disk[d], Known) /\ Small(disk[d]) /\ Small(pass[d].merged)
         /\ pass = [e \in Device |-> pass[e]] /\ disk = [e \in Device |-> disk[e]]
         /\ pointer = [e \in Device |-> pointer[e]]
         /\ Len(heads) \in Nat /\ DOMAIN heads = 1 .. Len(heads)
         /\ RelayHead = HeadAt(heads, Len(heads))
         /\ pass[d].phase \notin {"idle", "committing"} =>
               /\ pass[d].seq \in 0 .. Len(heads)
               /\ pass[d].remote = HeadAt(heads, pass[d].seq)
  <1>1. TypeOK
    BY DEF LossInv, BaseInv
  <1>2. /\ PassOK(pass[d], Known) /\ IsManifest(disk[d], Known)
        /\ pass = [e \in Device |-> pass[e]] /\ disk = [e \in Device |-> disk[e]]
        /\ pointer = [e \in Device |-> pointer[e]]
    BY <1>1, DeviceTypes DEF TypeOK, PassesOK, TreesOK
  <1>3. Len(heads) \in Nat /\ DOMAIN heads = 1 .. Len(heads) /\ (heads = <<>> <=> Len(heads) = 0)
    <2>1. heads \in Seq({heads[i] : i \in DOMAIN heads})
      BY <1>1 DEF TypeOK, HeadsOK
    <2>. QED  BY <2>1, LenProperties, EmptySeq
  <1>4. RelayHead = HeadAt(heads, Len(heads))
    BY <1>3 DEF RelayHead, HeadAt
  <1>5. pass[d].phase \notin {"idle", "committing"} =>
           /\ pass[d].seq \in 0 .. Len(heads)
           /\ pass[d].remote = HeadAt(heads, pass[d].seq)
    BY DEF LossInv, BaseInv, MergesTheSubmitted
  <1>. QED  BY <1>1, <1>2, <1>3, <1>4, <1>5 DEF LossInv, AllKept, Shape

\* Every head the relay gave out is of finitely many files outside `.git`.
LEMMA HeadIsSmall ==
  ASSUME LossInv, NEW i \in 0 .. Len(heads)
  PROVE  Small(HeadAt(heads, i))
  <1>1. DOMAIN heads = 1 .. Len(heads)
    BY LenProperties DEF LossInv, BaseInv, TypeOK, HeadsOK
  <1>2. Small(Empty)
    BY FS_EmptySet DEF Small, Empty
  <1>. QED  BY <1>1, <1>2 DEF HeadAt, LossInv, Shape

\* A pass that has ended, and its empty base.
LEMMA NoPassKept ==
  ASSUME NEW m, NEW hs, NEW w
  PROVE  /\ PassKept(NoPass, m, hs, w) /\ Small(NoPass.merged)
         /\ \A q, x : Covers(NoPass.base, m, q, x)
  <1>1. NoPass.phase = "idle" /\ NoPass.base = Empty /\ NoPass.merged = Empty
    BY DEF NoPass
  <1>2. Small(Empty)
    BY FS_EmptySet DEF Small, Empty
  <1>3. \A q, x : ~Has(Empty, q, x)
    BY DEF Has, Empty
  <1>. QED  BY <1>1, <1>2, <1>3 DEF PassKept, Covers

\* A wanted content of the merge is in the tree when all has been written.
LEMMA MergeIsInTree ==
  ASSUME NEW m, NEW merged, NEW w, Written(m, merged, {}, {}, w),
         NEW q, NEW x \in w
  PROVE  /\ Has(merged, q, x) => Has(m, q, x)
         /\ Holds(merged, q, x) => Holds(m, q, x)
  BY DEF Written, Holds, Has, Longer

\* When a pass has applied its merge, its tree covers the head it fetched: so
\* that head may become the base (MoveBase), and the ancestor of the next
\* attempt (LoseRace).
LEMMA CoversRemote ==
  ASSUME LossInv, NEW d \in Device, pass[d].phase \in {"applying", "pushing"},
         pass[d].todo = {}, NEW x \in Wanted, NEW q, Anchor(q, x)
  PROVE  Covers(pass[d].remote, disk[d], q, x)
  <1>. DEFINE k == pass[d]  m == disk[d]
  <1>1. PassKept(k, m, heads, Wanted)
    BY LossFacts
  <1>2. RemoteKept(k.base, k.remote, k.merged) /\ Written(m, k.merged, {}, {}, Wanted)
    BY <1>1 DEF PassKept
  <1>3. Covers(k.base, m, q, x)
    BY DEF Anchor
  <1>. HIDE DEF k, m
  <1>4. ASSUME Has(k.remote, q, x), ~Has(k.base, q, x) PROVE Holds(m, q, x)
    <2>1. Holds(k.merged, q, x)
      BY <1>2, <1>4 DEF RemoteKept, Has
    <2>. QED  BY <1>2, <2>1, MergeIsInTree
  <1>. QED  BY <1>3, <1>4 DEF Covers, k, m

\* Begin, and LoseRace: a fetch over a base that the tree covers.
LEMMA FetchSecure ==
  ASSUME LossInv, NEW d \in Device, UNCHANGED <<heads, edits, gone, disk, pointer>>,
         NEW base, NEW stamp \in Stamps, NEW attempt, Fetch(d, base, stamp, attempt),
         \E i \in 0 .. Len(heads) : base = HeadAt(heads, i),
         \A x \in Wanted : \A q : Anchor(q, x) => Covers(base, disk[d], q, x)
  PROVE  Shape' /\ AllKept' /\ AllSecure'
  <1>. DEFINE k == [phase |-> "fetched", stamp |-> stamp, attempt |-> attempt,
                    base |-> base, remote |-> RelayHead, seq |-> Len(heads),
                    merged |-> Empty, copies |-> {}, todo |-> {}]
  <1>1. pass' = [pass EXCEPT ![d] = k]
    BY DEF Fetch
  <1>2. /\ k.phase = "fetched" /\ k.stamp = stamp /\ k.base = base
        /\ k.seq = Len(heads) /\ k.merged = Empty
    OBVIOUS
  <1>. HIDE DEF k
  <1>3. pass'[d] = k /\ \A e \in Device : e # d => pass'[e] = pass[e]
    BY <1>1, LossFacts
  <1>4. PassKept(k, disk[d], heads, Wanted)
    BY <1>2 DEF PassKept
  <1>5. Small(Empty)
    BY FS_EmptySet DEF Small, Empty
  <1>6. \A x \in Wanted : \A q : Anchor(q, x) => Covers(pointer[d], disk[d], q, x)
    BY DEF Anchor
  <1>7. Small(disk'[d]) /\ Small(pass'[d].merged)
    BY <1>2, <1>3, <1>5, LossFacts
  <1>8. PassKept(pass'[d], disk'[d], heads, Wanted)
    BY <1>3, <1>4
  <1>9. \A x \in Wanted : \A q : Anchor(q, x) =>
            /\ Covers(pointer'[d], disk'[d], q, x)
            /\ Covers(pass'[d].base, disk'[d], q, x)
    BY <1>2, <1>3, <1>6
  <1>. QED  BY <1>3, <1>7, <1>8, <1>9, QuietStep

LEMMA BeginSecure ==
  ASSUME LossInv, NEW d \in Device, Begin(d)
  PROVE  Shape' /\ AllKept' /\ AllSecure'
  <1>1. PICK s \in Stamps : Fetch(d, pointer[d], s, 1)
    BY DEF Begin
  <1>2. UNCHANGED <<heads, edits, gone, disk, pointer>>
    BY DEF Begin, history
  <1>3. \E i \in 0 .. Len(heads) : pointer[d] = HeadAt(heads, i)
    <2>1. pointer[d] \in Published /\ Len(heads) \in Nat /\ DOMAIN heads = 1 .. Len(heads)
      BY LossFacts DEF LossInv, BaseInv, BaseIsPublished
    <2>2. CASE pointer[d] = Empty
      BY <2>1, <2>2 DEF HeadAt
    <2>3. CASE \E i \in DOMAIN heads : pointer[d] = heads[i]
      <3>1. PICK i \in DOMAIN heads : pointer[d] = heads[i]
        BY <2>3
      <3>2. i \in 0 .. Len(heads) /\ i # 0
        BY <2>1
      <3>. QED  BY <3>1, <3>2 DEF HeadAt
    <2>. QED  BY <2>1, <2>2, <2>3 DEF Published
  <1>4. \A x \in Wanted : \A q : Anchor(q, x) => Covers(pointer[d], disk[d], q, x)
    BY DEF Anchor
  <1>. QED  BY <1>1, <1>2, <1>3, <1>4, FetchSecure

LEMMA EndSecure ==
  ASSUME LossInv, NEW d \in Device, UNCHANGED <<heads, edits, gone, disk>>,
         pass' = [pass EXCEPT ![d] = NoPass],
         NEW b, pointer' = [pointer EXCEPT ![d] = b],
         \A x \in Wanted : \A q : Anchor(q, x) => Covers(b, disk[d], q, x)
  PROVE  Shape' /\ AllKept' /\ AllSecure'
  <1>1. /\ pass'[d] = NoPass /\ \A e \in Device : e # d => pass'[e] = pass[e]
        /\ pointer'[d] = b /\ \A e \in Device : e # d => pointer'[e] = pointer[e]
    BY LossFacts
  <1>2. Small(disk'[d]) /\ Small(pass'[d].merged)
    BY <1>1, LossFacts, NoPassKept
  <1>3. PassKept(pass'[d], disk'[d], heads, Wanted)
    BY <1>1, NoPassKept
  <1>4. \A x \in Wanted : \A q : Anchor(q, x) =>
            /\ Covers(pointer'[d], disk'[d], q, x)
            /\ Covers(pass'[d].base, disk'[d], q, x)
    BY <1>1, NoPassKept
  <1>. QED  BY <1>1, <1>2, <1>3, <1>4, QuietStep

\* A pass that fails leaves the base on disk as it is.
LEMMA FailSecure ==
  ASSUME LossInv, NEW d \in Device, UNCHANGED <<heads, edits, gone, disk, pointer>>,
         pass' = [pass EXCEPT ![d] = NoPass]
  PROVE  Shape' /\ AllKept' /\ AllSecure'
  <1>1. pointer' = [pointer EXCEPT ![d] = pointer[d]]
    BY LossFacts
  <1>2. \A x \in Wanted : \A q : Anchor(q, x) => Covers(pointer[d], disk[d], q, x)
    BY DEF Anchor
  <1>. QED  BY <1>1, <1>2, EndSecure

LEMMA LoseRaceSecure ==
  ASSUME LossInv, NEW d \in Device, LoseRace(d)
  PROVE  Shape' /\ AllKept' /\ AllSecure'
  <1>1. UNCHANGED <<heads, edits, gone, disk, pointer>> /\ pass[d].phase = "pushing"
    BY DEF LoseRace, history
  <1>2. CASE pass[d].attempt < MaxAttempts
    <2>1. Fetch(d, pass[d].remote, pass[d].stamp, pass[d].attempt + 1)
      BY <1>2 DEF LoseRace
    <2>2. /\ PassKept(pass[d], disk[d], heads, Wanted)
          /\ pass[d].seq \in 0 .. Len(heads)
          /\ pass[d].remote = HeadAt(heads, pass[d].seq)
      BY <1>1, LossFacts
    <2>3. pass[d].stamp \in Stamps /\ pass[d].todo = {}
      BY <1>1, <2>2 DEF PassKept
    <2>4. \A x \in Wanted : \A q : Anchor(q, x) => Covers(pass[d].remote, disk[d], q, x)
      BY <1>1, <2>3, CoversRemote
    <2>. QED  BY <1>1, <2>1, <2>2, <2>3, <2>4, FetchSecure
  <1>3. CASE ~(pass[d].attempt < MaxAttempts)
    <2>1. pass' = [pass EXCEPT ![d] = NoPass]
      BY <1>3 DEF LoseRace
    <2>. QED  BY <1>1, <2>1, FailSecure
  <1>. QED  BY <1>2, <1>3

\* The tree covers what was published for it, so it may become the base.
LEMMA CommitSecure ==
  ASSUME LossInv, NEW d \in Device, Commit(d)
  PROVE  Shape' /\ AllKept' /\ AllSecure'
  <1>. DEFINE k == pass[d]
  <1>1. /\ UNCHANGED <<heads, edits, gone, disk>> /\ k.phase = "committing"
        /\ pass' = [pass EXCEPT ![d] = NoPass]
        /\ pointer' = [pointer EXCEPT ![d] = k.merged]
    BY DEF Commit, history
  <1>2. Written(disk[d], k.merged, {}, {}, Wanted)
    BY <1>1, LossFacts DEF PassKept
  <1>. HIDE DEF k
  <1>3. \A x \in Wanted : \A q : Covers(k.merged, disk[d], q, x)
    BY <1>2, MergeIsInTree DEF Covers, Holds
  <1>. QED  BY <1>1, <1>3, EndSecure

\* The fields of a pass, after an action has set some of them.
LEMMA PassFields ==
  ASSUME NEW E, NEW k, PassOK(k, E)
  PROVE  /\ \A f : LET y == [k EXCEPT !.phase = f]
                   IN  /\ y.phase = f /\ y.stamp = k.stamp /\ y.base = k.base
                       /\ y.remote = k.remote /\ y.seq = k.seq /\ y.merged = k.merged
                       /\ y.copies = k.copies /\ y.todo = k.todo
         /\ \A t : LET y == [k EXCEPT !.todo = t]
                   IN  /\ y.phase = k.phase /\ y.stamp = k.stamp /\ y.base = k.base
                       /\ y.remote = k.remote /\ y.seq = k.seq /\ y.merged = k.merged
                       /\ y.copies = k.copies /\ y.todo = t
         /\ \A c : LET y == [k EXCEPT !.copies = c]
                   IN  /\ y.phase = k.phase /\ y.stamp = k.stamp /\ y.base = k.base
                       /\ y.remote = k.remote /\ y.seq = k.seq /\ y.merged = k.merged
                       /\ y.copies = c /\ y.todo = k.todo
         /\ \A m : LET y == [k EXCEPT !.merged = m]
                   IN  /\ y.phase = k.phase /\ y.stamp = k.stamp /\ y.base = k.base
                       /\ y.remote = k.remote /\ y.seq = k.seq /\ y.merged = m
                       /\ y.copies = k.copies /\ y.todo = k.todo
  BY DEF PassOK

\* A step that only moves the pass on to its next phase, keeping what later
\* phases rely on.
LEMMA PhaseSecure ==
  ASSUME LossInv, NEW d \in Device, NEW f,
         UNCHANGED <<heads, edits, gone, disk>>,
         pass' = [pass EXCEPT ![d].phase = f],
         NEW b, pointer' = [pointer EXCEPT ![d] = b],
         \A x \in Wanted : \A q : Anchor(q, x) => Covers(b, disk[d], q, x),
         PassKept([pass[d] EXCEPT !.phase = f], disk[d], heads, Wanted)
  PROVE  Shape' /\ AllKept' /\ AllSecure'
  <1>. DEFINE k == [pass[d] EXCEPT !.phase = f]
  <1>1. /\ pass'[d] = k /\ \A e \in Device : e # d => pass'[e] = pass[e]
        /\ pointer'[d] = b /\ \A e \in Device : e # d => pointer'[e] = pointer[e]
    BY LossFacts
  <1>2. k.merged = pass[d].merged /\ k.base = pass[d].base
    BY LossFacts, PassFields
  <1>. HIDE DEF k
  <1>3. Small(disk'[d]) /\ Small(pass'[d].merged)
    BY <1>1, <1>2, LossFacts
  <1>4. \A x \in Wanted : \A q : Anchor(q, x) =>
            /\ Covers(pointer'[d], disk'[d], q, x)
            /\ Covers(pass'[d].base, disk'[d], q, x)
    BY <1>1, <1>2 DEF Anchor
  <1>5. PassKept(pass'[d], disk'[d], heads, Wanted)
    BY <1>1 DEF k
  <1>. QED  BY <1>1, <1>3, <1>4, <1>5, QuietStep

LEMMA StartApplySecure ==
  ASSUME LossInv, NEW d \in Device, StartApply(d)
  PROVE  Shape' /\ AllKept' /\ AllSecure'
  <1>. DEFINE k == pass[d]
              f == IF k.todo = {} THEN "pushing" ELSE "applying"
              y == [k EXCEPT !.phase = f]
  <1>1. /\ UNCHANGED <<heads, edits, gone, disk, pointer>>
        /\ k.phase = "copying" /\ k.copies = {}
        /\ pass' = [pass EXCEPT ![d].phase = f]
    BY DEF StartApply, history
  <1>2. /\ y.phase = f /\ y.stamp = k.stamp /\ y.base = k.base
        /\ y.remote = k.remote /\ y.seq = k.seq /\ y.merged = k.merged
        /\ y.copies = k.copies /\ y.todo = k.todo
    BY LossFacts, PassFields
  <1>3. PassKept(k, disk[d], heads, Wanted)
    BY LossFacts
  <1>. HIDE DEF y, k
  <1>4. PassKept(y, disk[d], heads, Wanted)
    BY <1>1, <1>2, <1>3 DEF PassKept
  <1>5. pointer' = [pointer EXCEPT ![d] = pointer[d]]
    BY <1>1, LossFacts
  <1>6. \A x \in Wanted : \A q : Anchor(q, x) => Covers(pointer[d], disk[d], q, x)
    BY DEF Anchor
  <1>. QED  BY <1>1, <1>4, <1>5, <1>6, PhaseSecure DEF y, k

LEMMA MoveBaseSecure ==
  ASSUME LossInv, NEW d \in Device, MoveBase(d)
  PROVE  Shape' /\ AllKept' /\ AllSecure'
  <1>. DEFINE k == pass[d]
              y == [k EXCEPT !.phase = "pushing"]
  <1>1. /\ UNCHANGED <<heads, edits, gone, disk>>
        /\ k.phase = "applying" /\ k.todo = {}
        /\ pass' = [pass EXCEPT ![d].phase = "pushing"]
        /\ pointer' = [pointer EXCEPT ![d] = k.remote]
    BY DEF MoveBase, history
  <1>2. /\ y.phase = "pushing" /\ y.stamp = k.stamp /\ y.base = k.base
        /\ y.remote = k.remote /\ y.seq = k.seq /\ y.merged = k.merged
        /\ y.copies = k.copies /\ y.todo = k.todo
    BY LossFacts, PassFields
  <1>3. PassKept(k, disk[d], heads, Wanted)
    BY LossFacts
  <1>4. \A x \in Wanted : \A q : Anchor(q, x) => Covers(k.remote, disk[d], q, x)
    BY <1>1, CoversRemote
  <1>. HIDE DEF y, k
  <1>5. PassKept(y, disk[d], heads, Wanted)
    BY <1>1, <1>2, <1>3 DEF PassKept
  <1>. QED  BY <1>1, <1>4, <1>5, PhaseSecure DEF y, k

LEMMA AgreedSecure ==
  ASSUME LossInv, NEW d \in Device, NothingToPublish(d)
  PROVE  Shape' /\ AllKept' /\ AllSecure'
  <1>. DEFINE k == pass[d]
              y == [k EXCEPT !.phase = "committing"]
  <1>1. /\ UNCHANGED <<heads, edits, gone, disk, pointer>>
        /\ k.phase = "pushing"
        /\ pass' = [pass EXCEPT ![d].phase = "committing"]
    BY DEF NothingToPublish, history
  <1>2. /\ y.phase = "committing" /\ y.merged = k.merged
        /\ y.copies = k.copies /\ y.todo = k.todo
    BY LossFacts, PassFields
  <1>3. PassKept(k, disk[d], heads, Wanted)
    BY LossFacts
  <1>. HIDE DEF y, k
  <1>4. PassKept(y, disk[d], heads, Wanted)
    BY <1>1, <1>2, <1>3 DEF PassKept
  <1>5. pointer' = [pointer EXCEPT ![d] = pointer[d]]
    BY <1>1, LossFacts
  <1>6. \A x \in Wanted : \A q : Anchor(q, x) => Covers(pointer[d], disk[d], q, x)
    BY DEF Anchor
  <1>. QED  BY <1>1, <1>4, <1>5, <1>6, PhaseSecure DEF y, k

LEMMA NoteHeadSecure ==
  ASSUME LossInv, NEW d \in Device, NoteHead(d)
  PROVE  Shape' /\ AllKept' /\ AllSecure'
  <1>1. UNCHANGED <<heads, edits, gone, disk, pointer, pass>>
    BY DEF NoteHead, history
  <1>2. \A x \in Wanted : \A q : Anchor(q, x) =>
            /\ Covers(pointer[d], disk[d], q, x)
            /\ Covers(pass[d].base, disk[d], q, x)
    BY DEF Anchor
  <1>3. Small(disk[d]) /\ Small(pass[d].merged) /\ PassKept(pass[d], disk[d], heads, Wanted)
    BY LossFacts
  <1>4. /\ Small(disk'[d]) /\ Small(pass'[d].merged) /\ PassKept(pass'[d], disk'[d], heads, Wanted)
        /\ \A x \in Wanted : \A q : Anchor(q, x) =>
            /\ Covers(pointer'[d], disk'[d], q, x)
            /\ Covers(pass'[d].base, disk'[d], q, x)
    BY <1>1, <1>2, <1>3
  <1>. QED  BY <1>1, <1>4, QuietStep

\* The pass after a scan of a device whose files all upload.
LEMMA ScannedPass ==
  ASSUME LossInv, Undisturbed, NEW d \in Device, ScanAndMerge(d)
  PROVE  LET k == pass[d]
             out == Merge3(k.base, disk[d], k.remote, d, k.stamp)
         IN  /\ pass'[d].phase = "copying" /\ pass'[d].stamp = k.stamp /\ pass'[d].base = k.base
             /\ pass'[d].remote = k.remote /\ pass'[d].seq = k.seq
             /\ pass'[d].merged = out.merged /\ pass'[d].copies = CopiesToMake(out.conflicts)
             /\ pass'[d].todo = ApplyFromRemote(disk[d], out)
             /\ \A e \in Device : e # d => pass'[e] = pass[e]
             /\ Merging(disk[d], k.remote, d, k.stamp)
  <1>1. pass[d].phase = "fetched"
    BY DEF ScanAndMerge
  <1>2. PICK failed \in MayFail(d) :
          LET local == Scan(d, failed)
              out   == Merge3(pass[d].base, local, pass[d].remote,
                              d, pass[d].stamp)
          IN  pass' = [pass EXCEPT ![d].phase  = "copying",
                                   ![d].merged = out.merged,
                                   ![d].copies = CopiesToMake(out.conflicts),
                                   ![d].todo   = ApplyFromRemote(local, out)]
    BY DEF ScanAndMerge
  <1>3. failed = {}
    BY DEF MayFail, Undisturbed
  <1>4. Scan(d, {}) = disk[d]
    <2>1. disk[d] = [p \in DOMAIN disk[d] |-> disk[d][p]]
      BY LossFacts DEF IsManifest
    <2>2. Scan(d, {}) = [p \in DOMAIN disk[d] |-> disk[d][p]]
      BY DEF Scan
    <2>. QED  BY <2>1, <2>2
  <1>. DEFINE k == pass[d]
              local == disk[d]
              out == Merge3(k.base, local, k.remote, d, k.stamp)
              cs == CopiesToMake(out.conflicts)
              t == ApplyFromRemote(local, out)
              m == out.merged
              y1 == [k EXCEPT !.phase = "copying"]
              y2 == [y1 EXCEPT !.merged = m]
              y3 == [y2 EXCEPT !.copies = cs]
              y == [y3 EXCEPT !.todo = t]
  <1>5. pass'[d] = y /\ \A e \in Device : e # d => pass'[e] = pass[e]
    BY <1>2, <1>3, <1>4, LossFacts
  <1>6. /\ k.stamp \in Stamps
        /\ k.seq \in 0 .. Len(heads) /\ k.remote = HeadAt(heads, k.seq)
        /\ IsManifest(k.remote, Known) /\ IsManifest(local, Known)
        /\ Small(local) /\ PassOK(k, Known)
    BY <1>1, LossFacts DEF PassKept, PassOK
  <1>7. Merging(local, k.remote, d, k.stamp)
    <2>1. Small(k.remote)
      BY <1>6, HeadIsSmall
    <2>2. IsManifest(k.remote, Entry) /\ IsManifest(local, Entry)
      <3>1. Known \subseteq Entry
        BY LossFacts, DeviceTypes
      <3>. QED  BY <1>6, <3>1, ManifestMonotonic
    <2>. QED  BY <1>6, <2>1, <2>2 DEF Merging
  <1>8. /\ y.phase = "copying" /\ y.stamp = k.stamp /\ y.base = k.base
        /\ y.remote = k.remote /\ y.seq = k.seq /\ y.merged = m
        /\ y.copies = cs /\ y.todo = t
    <2>. HIDE DEF k, m, cs, t
    <2>1. /\ y1.phase = "copying" /\ y1.stamp = k.stamp /\ y1.base = k.base
          /\ y1.remote = k.remote /\ y1.seq = k.seq
          /\ y1 = [phase |-> y1.phase, stamp |-> y1.stamp, attempt |-> y1.attempt,
              base |-> y1.base, remote |-> y1.remote, seq |-> y1.seq,
              merged |-> y1.merged, copies |-> y1.copies, todo |-> y1.todo]
      BY <1>6 DEF PassOK
    <2>. HIDE DEF y1
    <2>2. /\ y2.phase = "copying" /\ y2.stamp = k.stamp /\ y2.base = k.base
          /\ y2.remote = k.remote /\ y2.seq = k.seq /\ y2.merged = m
          /\ y2 = [phase |-> y2.phase, stamp |-> y2.stamp, attempt |-> y2.attempt,
              base |-> y2.base, remote |-> y2.remote, seq |-> y2.seq,
              merged |-> y2.merged, copies |-> y2.copies, todo |-> y2.todo]
      BY <2>1
    <2>. HIDE DEF y2
    <2>3. /\ y3.phase = "copying" /\ y3.stamp = k.stamp /\ y3.base = k.base
          /\ y3.remote = k.remote /\ y3.seq = k.seq
          /\ y3.merged = m /\ y3.copies = cs
          /\ y3 = [phase |-> y3.phase, stamp |-> y3.stamp, attempt |-> y3.attempt,
              base |-> y3.base, remote |-> y3.remote, seq |-> y3.seq,
              merged |-> y3.merged, copies |-> y3.copies, todo |-> y3.todo]
      BY <2>2
    <2>. HIDE DEF y3
    <2>. QED  BY <2>3
  <1>. QED  BY <1>5, <1>7, <1>8

\* The scan and the merge: what MergeHolds and its corollaries say.
LEMMA ScanSecure ==
  ASSUME LossInv, NamesGrow, Undisturbed, NEW d \in Device, ScanAndMerge(d)
  PROVE  Shape' /\ AllKept' /\ AllSecure'
  <1>1. /\ UNCHANGED <<heads, edits, gone, disk, pointer>>
        /\ pass[d].phase = "fetched"
    BY DEF ScanAndMerge, history
  <1>. DEFINE k == pass[d]
              local == disk[d]
              out == Merge3(k.base, local, k.remote, d, k.stamp)
              cs == CopiesToMake(out.conflicts)
              t == ApplyFromRemote(local, out)
              m == out.merged
              y == pass'[d]
  <1>2. /\ y.phase = "copying" /\ y.stamp = k.stamp /\ y.base = k.base
        /\ y.remote = k.remote /\ y.seq = k.seq /\ y.merged = m
        /\ y.copies = cs /\ y.todo = t
        /\ \A e \in Device : e # d => pass'[e] = pass[e]
        /\ Merging(local, k.remote, d, k.stamp)
    BY ScannedPass
  <1>3. /\ k.stamp \in Stamps
        /\ \E i \in 0 .. k.seq : k.base = HeadAt(heads, i)
        /\ Small(local)
    BY <1>1, LossFacts DEF PassKept
  <1>4. /\ Small(m) /\ RemoteKept(k.base, k.remote, m)
        /\ Agreed(local, k.remote, m, t) /\ Written(local, m, t, cs, Wanted)
        /\ Spared(local, k.base, k.remote, m, t) /\ ToCopy(local, m, t, cs)
    BY <1>2, MergeIsSmall, MergeKeepsRemote, MergeAgrees, MergeWrites, MergeSpares, MergeCopies
  <1>. HIDE DEF y, cs, t, m
  <1>5. PassKept(y, local, heads, Wanted)
    BY <1>2, <1>3, <1>4 DEF PassKept
  <1>6. Small(disk'[d]) /\ Small(pass'[d].merged) /\ PassKept(pass'[d], disk'[d], heads, Wanted)
    BY <1>1, <1>2, <1>3, <1>4, <1>5 DEF y
  <1>7. \A x \in Wanted : \A q : Anchor(q, x) =>
            /\ Covers(pointer'[d], disk'[d], q, x)
            /\ Covers(pass'[d].base, disk'[d], q, x)
    BY <1>1, <1>2 DEF Anchor, y
  <1>8. \A e \in Device : e # d => pointer'[e] = pointer[e] /\ disk'[e] = disk[e]
    BY <1>1
  <1>9. \A x \in Wanted : \A p : Unpublished(x) /\ Has(disk[d], p, x) => \E r : Has(disk'[d], r, x)
    BY <1>1
  <1>. HIDE DEF k, local
  <1>. QED  BY <1>1, <1>2, <1>6, <1>7, <1>8, <1>9, QuietStep

\* What a tree has it still has after a file was added under a new name.
LEMMA HoldsMonotonic ==
  ASSUME NEW m, NEW n, NEW x, \A p : Has(m, p, x) => Has(n, p, x), NEW q
  PROVE  Holds(m, q, x) => Holds(n, q, x)
  BY DEF Holds, Longer, Has

\* A copy of a local loser: a file more, of a content the merge has there.
LEMMA CopySecure ==
  ASSUME LossInv, NEW d \in Device, MakeCopy(d)
  PROVE  Shape' /\ AllKept' /\ AllSecure'
  <1>. DEFINE k == pass[d]  m == disk[d]
  <1>1. /\ UNCHANGED <<heads, edits, gone, pointer>> /\ k.phase = "copying"
    BY DEF MakeCopy, history
  <1>2. PICK c \in k.copies :
          /\ c.side = "local" => c.path \in DOMAIN m
          /\ ~c.localOnly => disk' = [disk EXCEPT ![d] = With(m, c.copy, CopyEntry(d, c))]
          /\ pass' = [pass EXCEPT ![d].copies = k.copies \ {c}]
    BY DEF MakeCopy
  <1>3. PassKept(k, m, heads, Wanted) /\ IsManifest(m, Known)
        /\ Small(m) /\ Small(k.merged)
    BY LossFacts
  <1>4. ToCopy(m, k.merged, k.todo, k.copies)
    BY <1>1, <1>3 DEF PassKept
  <1>5. /\ c.side = "local" /\ ~c.localOnly /\ c.path \in DOMAIN m
        /\ m[c.path].data = c.entry.data
        /\ c.copy \notin DOMAIN m /\ c.copy \notin k.todo
        /\ Has(k.merged, c.copy, c.entry.data)
        /\ \A h \in k.copies : h.copy # c.path /\ (h.copy = c.copy => h = c)
        /\ \A h \in k.copies : c.copy # h.path
    BY <1>2, <1>4 DEF ToCopy
  <1>. DEFINE e == CopyEntry(d, c)
              n == With(m, c.copy, e)
              rest == k.copies \ {c}
              y == [k EXCEPT !.copies = rest]
  <1>6. e.data = c.entry.data
    <2>1. m[c.path] \in Known
      BY <1>3, <1>5 DEF IsManifest
    <2>. QED  BY <1>5, <2>1 DEF CopyEntry, Known
  <1>7. /\ disk'[d] = n /\ \A x \in Device : x # d => disk'[x] = disk[x]
        /\ pass'[d] = y /\ \A x \in Device : x # d => pass'[x] = pass[x]
    BY <1>2, <1>5, LossFacts
  <1>8. /\ y.phase = "copying" /\ y.stamp = k.stamp /\ y.base = k.base
        /\ y.remote = k.remote /\ y.seq = k.seq /\ y.merged = k.merged
        /\ y.copies = rest /\ y.todo = k.todo
    BY <1>1, LossFacts, PassFields
  <1>9. /\ DOMAIN n = DOMAIN m \cup {c.copy} /\ n[c.copy].data = c.entry.data
        /\ \A p \in DOMAIN m : n[p] = m[p]
    BY <1>5, <1>6 DEF With
  <1>. HIDE DEF e, n, y, k, m
  <1>10. Small(n)
    <2>1. c.copy \in Paths
      BY <1>3, <1>5 DEF Small, Has
    <2>2. IsFiniteSet(DOMAIN n)
      BY <1>3, <1>9, FS_AddElement DEF Small
    <2>. QED  BY <1>3, <1>9, <2>1, <2>2 DEF Small
  <1>11. \A x, p : Has(m, p, x) => Has(n, p, x)
    BY <1>9 DEF Has
  <1>12. PassKept(y, n, heads, Wanted)
    <2>1. RemoteKept(k.base, k.remote, k.merged) /\ Agreed(n, k.remote, k.merged, k.todo)
      <3>1. RemoteKept(k.base, k.remote, k.merged) /\ Agreed(m, k.remote, k.merged, k.todo)
        BY <1>1, <1>3 DEF PassKept
      <3>. QED  BY <1>5, <1>9, <3>1 DEF Agreed
    <2>2. Written(n, k.merged, k.todo, rest, Wanted)
      <3>1. Written(m, k.merged, k.todo, k.copies, Wanted)
        BY <1>1, <1>3 DEF PassKept
      <3>2. Has(n, c.copy, k.merged[c.copy].data)
        BY <1>5, <1>9 DEF Has
      <3>. QED  BY <1>11, <3>1, <3>2 DEF Written
    <2>3. Spared(n, k.base, k.remote, k.merged, k.todo)
      <3>1. Spared(m, k.base, k.remote, k.merged, k.todo)
        BY <1>1, <1>3 DEF PassKept
      <3>2. \A p \in k.todo \cap DOMAIN n : p \in DOMAIN m /\ n[p] = m[p]
        BY <1>5, <1>9
      <3>. QED  BY <3>1, <3>2 DEF Spared
    <2>4. ToCopy(n, k.merged, k.todo, rest)
      <3>. SUFFICES ASSUME NEW h \in rest
                    PROVE  /\ h.side = "local" /\ ~h.localOnly
                           /\ h.path \in DOMAIN n => n[h.path].data = h.entry.data
                           /\ h.copy \notin DOMAIN n /\ h.copy \notin k.todo
                           /\ Has(k.merged, h.copy, h.entry.data)
                           /\ \A g \in rest : g.copy # h.path /\ (g.copy = h.copy => g = h)
        BY DEF ToCopy
      <3>1. /\ h.side = "local" /\ ~h.localOnly
            /\ h.path \in DOMAIN m => m[h.path].data = h.entry.data
            /\ h.copy \notin DOMAIN m /\ h.copy \notin k.todo
            /\ Has(k.merged, h.copy, h.entry.data)
            /\ \A g \in k.copies : g.copy # h.path /\ (g.copy = h.copy => g = h)
        BY <1>4 DEF ToCopy
      <3>2. h.copy # c.copy /\ h.path # c.copy
        BY <1>5
      <3>. QED  BY <1>9, <3>1, <3>2
    <2>. QED  BY <1>1, <1>3, <1>8, <2>1, <2>2, <2>3, <2>4 DEF PassKept
  <1>13. \A x \in Wanted : \A q : Anchor(q, x) =>
            Covers(pointer[d], m, q, x) /\ Covers(k.base, m, q, x)
    BY DEF Anchor, m, k
  <1>14. \A x \in Wanted : \A q : Anchor(q, x) =>
            /\ Covers(pointer'[d], disk'[d], q, x)
            /\ Covers(pass'[d].base, disk'[d], q, x)
    BY <1>1, <1>7, <1>8, <1>11, <1>13, HoldsMonotonic DEF Covers
  <1>15. \A x \in Wanted : \A p : Unpublished(x) /\ Has(disk[d], p, x) => \E r : Has(disk'[d], r, x)
    BY <1>7, <1>11 DEF m
  <1>16. Small(disk'[d]) /\ Small(pass'[d].merged) /\ PassKept(pass'[d], disk'[d], heads, Wanted)
    BY <1>3, <1>7, <1>8, <1>10, <1>12
  <1>17. \A x \in Device : x # d =>
            pass'[x] = pass[x] /\ pointer'[x] = pointer[x] /\ disk'[x] = disk[x]
    BY <1>1, <1>7
  <1>. QED  BY <1>1, <1>14, <1>15, <1>16, <1>17, QuietStep

\* The tree after one path was applied.
Applied(m, merged, p) ==
    IF p \notin DOMAIN merged THEN Without(m, p) ELSE With(m, p, merged[p])

LEMMA AppliedTree ==
  ASSUME NEW m, NEW merged, NEW p, NEW n, n = Applied(m, merged, p)
  PROVE  /\ \A q, x : q # p => (Has(n, q, x) <=> Has(m, q, x))
         /\ \A x : Has(n, p, x) <=> Has(merged, p, x)
         /\ DOMAIN n \subseteq DOMAIN m \cup (DOMAIN merged \cap {p})
         /\ \A q \in DOMAIN n : q # p => q \in DOMAIN m /\ n[q] = m[q]
         /\ p \in DOMAIN n => p \in DOMAIN merged /\ n[p] = merged[p]
  BY DEF Applied, With, Without, Has

\* What the apply of one path costs: a wanted content that was there was in
\* the base, or is still there, or is in the tree under a longer name.
LEMMA ApplySpares ==
  ASSUME NEW m, NEW n, NEW base, NEW remote, NEW merged, NEW todo, NEW w,
         Spared(m, base, remote, merged, todo), Written(m, merged, todo, {}, w),
         NEW p \in todo, n = Applied(m, merged, p),
         NEW x \in w, Has(m, p, x)
  PROVE  /\ \/ Has(base, p, x) \/ Has(n, p, x)
            \/ \E r \in DOMAIN n : n[r].data = x /\ Length[r] > Length[p]
         /\ Has(remote, p, x) => Has(n, p, x)
  <1>1. /\ \A q, y : q # p => (Has(n, q, y) <=> Has(m, q, y))
        /\ \A y : Has(n, p, y) <=> Has(merged, p, y)
    BY AppliedTree
  <1>2. p \in DOMAIN m /\ m[p].data = x
    BY DEF Has
  <1>3. /\ \/ Has(base, p, x) \/ Has(merged, p, x)
           \/ \E r \in DOMAIN merged \ todo :
                 merged[r].data = x /\ Length[r] > Length[p]
        /\ Has(remote, p, x) => Has(merged, p, x)
    BY <1>2 DEF Spared
  <1>4. ASSUME NEW r \in DOMAIN merged \ todo, merged[r].data = x, Length[r] > Length[p]
        PROVE  r \in DOMAIN n /\ n[r].data = x
    <2>1. Has(m, r, x)
      BY <1>4 DEF Written
    <2>. QED  BY <1>1, <2>1 DEF Has
  <1>. QED  BY <1>1, <1>3, <1>4

\* The base of a pass is a head it fetched or an earlier one: so a path that
\* has had x ever since the base did, has it in the remote.
LEMMA BaseBeforeRemote ==
  ASSUME LossInv, NEW d \in Device, pass[d].phase \notin {"idle", "committing"},
         NEW x, NEW q, Anchor(q, x), Has(pass[d].base, q, x)
  PROVE  Has(pass[d].remote, q, x)
  <1>1. /\ pass[d].seq \in 0 .. Len(heads) /\ Len(heads) \in Nat
        /\ DOMAIN heads = 1 .. Len(heads)
        /\ pass[d].remote = HeadAt(heads, pass[d].seq)
        /\ PassKept(pass[d], disk[d], heads, Wanted)
    BY LossFacts
  <1>2. PICK i \in 0 .. pass[d].seq : pass[d].base = HeadAt(heads, i)
    BY <1>1 DEF PassKept
  <1>3. i # 0
    BY <1>2 DEF HeadAt, Has, Empty
  <1>4. /\ i \in DOMAIN heads /\ pass[d].seq \in DOMAIN heads /\ i <= pass[d].seq
        /\ pass[d].base = heads[i] /\ pass[d].remote = heads[pass[d].seq]
    BY <1>1, <1>2, <1>3 DEF HeadAt
  <1>. QED  BY <1>4 DEF Anchor

\* A content that the base of a pass has was published.
LEMMA BaseWasHead ==
  ASSUME LossInv, NEW d \in Device, pass[d].phase \notin {"idle", "committing"},
         NEW x, NEW p, Has(pass[d].base, p, x)
  PROVE  \E i \in DOMAIN heads : Has(heads[i], p, x)
  <1>1. /\ pass[d].seq \in 0 .. Len(heads) /\ Len(heads) \in Nat
        /\ DOMAIN heads = 1 .. Len(heads)
        /\ PassKept(pass[d], disk[d], heads, Wanted)
    BY LossFacts
  <1>2. PICK i \in 0 .. pass[d].seq : pass[d].base = HeadAt(heads, i)
    BY <1>1 DEF PassKept
  <1>3. i # 0
    BY <1>2 DEF HeadAt, Has, Empty
  <1>4. i \in DOMAIN heads /\ pass[d].base = heads[i]
    BY <1>1, <1>2, <1>3 DEF HeadAt
  <1>. QED  BY <1>4

LEMMA ApplySecure ==
  ASSUME LossInv, NamesGrow, NEW d \in Device, ApplyPath(d)
  PROVE  Shape' /\ AllKept' /\ AllSecure'
  <1>. DEFINE k == pass[d]  m == disk[d]
  <1>1. /\ UNCHANGED <<heads, edits, gone, pointer>> /\ k.phase = "applying"
    BY DEF ApplyPath, history
  <1>2. PICK p \in k.todo :
          /\ disk' = [disk EXCEPT ![d] = Applied(m, k.merged, p)]
          /\ pass' = [pass EXCEPT ![d].todo = k.todo \ {p}]
    BY DEF ApplyPath, NextPaths, Deletes, Applied
  <1>3. /\ PassKept(k, m, heads, Wanted) /\ Small(m) /\ Small(k.merged)
    BY LossFacts
  <1>. DEFINE n == Applied(m, k.merged, p)
              rest == k.todo \ {p}
              y == [k EXCEPT !.todo = rest]
  <1>4. /\ disk'[d] = n /\ \A x \in Device : x # d => disk'[x] = disk[x]
        /\ pass'[d] = y /\ \A x \in Device : x # d => pass'[x] = pass[x]
    BY <1>2, LossFacts
  <1>5. /\ y.phase = "applying" /\ y.stamp = k.stamp /\ y.base = k.base
        /\ y.remote = k.remote /\ y.seq = k.seq /\ y.merged = k.merged
        /\ y.copies = k.copies /\ y.todo = rest
    BY <1>1, LossFacts, PassFields
  <1>6. /\ RemoteKept(k.base, k.remote, k.merged) /\ Agreed(m, k.remote, k.merged, k.todo)
        /\ Written(m, k.merged, k.todo, {}, Wanted) /\ k.copies = {}
        /\ Spared(m, k.base, k.remote, k.merged, k.todo)
    BY <1>1, <1>3 DEF PassKept
  <1>7. /\ \A q, x : q # p => (Has(n, q, x) <=> Has(m, q, x))
        /\ \A x : Has(n, p, x) <=> Has(k.merged, p, x)
        /\ DOMAIN n \subseteq DOMAIN m \cup (DOMAIN k.merged \cap {p})
        /\ \A q \in DOMAIN n : q # p => q \in DOMAIN m /\ n[q] = m[q]
        /\ p \in DOMAIN n => p \in DOMAIN k.merged /\ n[p] = k.merged[p]
    BY AppliedTree
  <1>8. \A x \in Wanted : Has(m, p, x) =>
           /\ \/ Has(k.base, p, x) \/ Has(n, p, x)
              \/ \E r \in DOMAIN n : n[r].data = x /\ Length[r] > Length[p]
           /\ Has(k.remote, p, x) => Has(n, p, x)
    <2>. DEFINE base == k.base  remote == k.remote  merged == k.merged  todo == k.todo
    <2>1. /\ Spared(m, base, remote, merged, todo) /\ Written(m, merged, todo, {}, Wanted)
          /\ p \in todo /\ n = Applied(m, merged, p)
      BY <1>6
    <2>. HIDE DEF base, remote, merged, todo, n, m, k
    <2>2. \A x \in Wanted : Has(m, p, x) =>
             /\ \/ Has(base, p, x) \/ Has(n, p, x)
                \/ \E r \in DOMAIN n : n[r].data = x /\ Length[r] > Length[p]
             /\ Has(remote, p, x) => Has(n, p, x)
      BY <2>1, ApplySpares
    <2>. QED  BY <2>2 DEF base, remote
  <1>9. \A x, q : Anchor(q, x) =>
           /\ Covers(pointer[d], m, q, x) /\ Covers(k.base, m, q, x)
           /\ Has(k.base, q, x) => Has(k.remote, q, x)
           /\ \A r : Has(k.base, r, x) => Length[r] <= Length[q]
    <2>. SUFFICES ASSUME NEW x, NEW q, Anchor(q, x)
                  PROVE  /\ Covers(pointer[d], m, q, x) /\ Covers(k.base, m, q, x)
                         /\ Has(k.base, q, x) => Has(k.remote, q, x)
                         /\ \A r : Has(k.base, r, x) => Length[r] <= Length[q]
      OBVIOUS
    <2>1. Covers(pointer[d], m, q, x) /\ Covers(k.base, m, q, x)
      BY DEF Anchor
    <2>2. Has(k.base, q, x) => Has(k.remote, q, x)
      BY <1>1, BaseBeforeRemote
    <2>3. ASSUME NEW r, Has(k.base, r, x) PROVE Length[r] <= Length[q]
      <3>1. \E i \in DOMAIN heads : Has(heads[i], r, x)
        BY <1>1, <2>3, BaseWasHead
      <3>. QED  BY <3>1 DEF Anchor
    <2>. QED  BY <2>1, <2>2, <2>3
  <1>10. \A x : Unpublished(x) => \A r : ~Has(k.base, r, x)
    BY <1>1, BaseWasHead DEF Unpublished
  <1>11. \A x : \A q : Anchor(q, x) => q \in Paths
    <2>. SUFFICES ASSUME NEW x, NEW q, Anchor(q, x) PROVE q \in Paths
      OBVIOUS
    <2>1. q \in DOMAIN RelayHead
      BY DEF Anchor, Has
    <2>2. Len(heads) \in 0 .. Len(heads) /\ RelayHead = HeadAt(heads, Len(heads))
      BY LossFacts
    <2>3. Small(RelayHead)
      BY <2>2, HeadIsSmall
    <2>. QED  BY <2>1, <2>3 DEF Small
  <1>. HIDE DEF k, m, n, y
  <1>12. Small(n)
    <2>1. IsFiniteSet(DOMAIN m \cup {p})
      BY <1>3, FS_AddElement DEF Small
    <2>2. DOMAIN n \subseteq DOMAIN m \cup {p}
      BY <1>7
    <2>3. IsFiniteSet(DOMAIN n)
      BY <2>1, <2>2, FS_Subset
    <2>. QED  BY <1>3, <1>7, <2>3 DEF Small
  <1>13. PassKept(y, n, heads, Wanted)
    <2>1. Agreed(n, k.remote, k.merged, rest)
      BY <1>6, <1>7 DEF Agreed, Has
    <2>2. Written(n, k.merged, rest, {}, Wanted)
      <3>. SUFFICES ASSUME NEW q \in DOMAIN k.merged, k.merged[q].data \in Wanted, q \notin rest
                    PROVE  Has(n, q, k.merged[q].data)
        BY DEF Written
      <3>1. CASE q = p
        <4>1. Has(k.merged, p, k.merged[q].data)
          BY <3>1 DEF Has
        <4>. QED  BY <1>7, <3>1, <4>1
      <3>2. CASE q # p
        <4>1. Has(m, q, k.merged[q].data)
          BY <1>6, <3>2 DEF Written
        <4>. QED  BY <1>7, <3>2, <4>1
      <3>. QED  BY <3>1, <3>2
    <2>3. Spared(n, k.base, k.remote, k.merged, rest)
      <3>. SUFFICES ASSUME NEW q \in rest \cap DOMAIN n
                    PROVE  LET x == n[q].data
                           IN  /\ \/ Has(k.base, q, x) \/ Has(k.merged, q, x)
                                  \/ \E r \in DOMAIN k.merged \ rest :
                                        k.merged[r].data = x /\ Length[r] > Length[q]
                               /\ Has(k.remote, q, x) => Has(k.merged, q, x)
        BY DEF Spared
      <3>1. q \in k.todo \cap DOMAIN m /\ n[q] = m[q]
        BY <1>7
      <3>. QED  BY <1>6, <3>1 DEF Spared
    <2>. QED  BY <1>1, <1>3, <1>5, <1>6, <2>1, <2>2, <2>3 DEF PassKept
  <1>14. ASSUME NEW x \in Wanted, NEW q, Anchor(q, x), Holds(m, q, x),
                Has(k.base, q, x) \/ ~Has(k.base, q, x)
         PROVE  Holds(n, q, x)
    <2>1. CASE Has(m, q, x)
      <3>1. CASE q # p
        BY <1>7, <2>1, <3>1 DEF Holds
      <3>2. CASE q = p
        BY <1>8, <1>9, <1>14, <2>1, <3>2 DEF Holds, Longer
      <3>. QED  BY <3>1, <3>2
    <2>2. CASE Longer(m, q, x)
      <3>1. PICK r \in DOMAIN m : m[r].data = x /\ Length[r] > Length[q]
        BY <2>2 DEF Longer
      <3>2. Has(m, r, x)
        BY <3>1 DEF Has
      <3>3. CASE r # p
        <4>1. Has(n, r, x)
          BY <1>7, <3>2, <3>3
        <4>. QED  BY <3>1, <4>1 DEF Holds, Longer, Has
      <3>4. CASE r = p
        <4>1. r \in Paths /\ q \in Paths
          BY <1>3, <1>11, <1>14, <3>1 DEF Small
        <4>2. Length[r] \in Nat /\ Length[q] \in Nat
          BY <4>1 DEF NamesGrow
        <4>3. ~Has(k.base, r, x)
          BY <1>9, <1>14, <3>1, <4>2
        <4>4. \/ Has(n, r, x)
              \/ \E s \in DOMAIN n : n[s].data = x /\ Length[s] > Length[r]
          BY <1>8, <3>2, <3>4, <4>3
        <4>5. CASE Has(n, r, x)
          BY <3>1, <4>5 DEF Holds, Longer, Has
        <4>6. CASE \E s \in DOMAIN n : n[s].data = x /\ Length[s] > Length[r]
          <5>1. PICK s \in DOMAIN n : n[s].data = x /\ Length[s] > Length[r]
            BY <4>6
          <5>2. Length[s] \in Nat
            BY <1>12, <5>1 DEF Small, NamesGrow
          <5>3. Length[s] > Length[q]
            BY <3>1, <4>2, <5>1, <5>2
          <5>. QED  BY <5>1, <5>3 DEF Holds, Longer
        <4>. QED  BY <4>4, <4>5, <4>6
      <3>. QED  BY <3>3, <3>4
    <2>. QED  BY <1>14, <2>1, <2>2 DEF Holds
  <1>15. \A x \in Wanted : \A q : Anchor(q, x) =>
            /\ Covers(pointer'[d], disk'[d], q, x)
            /\ Covers(pass'[d].base, disk'[d], q, x)
    BY <1>1, <1>4, <1>5, <1>9, <1>14 DEF Covers
  <1>16. ASSUME NEW x \in Wanted, NEW q, Unpublished(x), Has(m, q, x)
         PROVE  \E r : Has(n, r, x)
    <2>1. CASE q # p
      BY <1>7, <1>16, <2>1
    <2>2. CASE q = p
      BY <1>8, <1>10, <1>16, <2>2 DEF Has
    <2>. QED  BY <2>1, <2>2
  <1>17. \A x \in Wanted : \A q : Unpublished(x) /\ Has(disk[d], q, x) => \E r : Has(disk'[d], r, x)
    BY <1>4, <1>16 DEF m
  <1>18. Small(disk'[d]) /\ Small(pass'[d].merged) /\ PassKept(pass'[d], disk'[d], heads, Wanted)
    BY <1>3, <1>4, <1>5, <1>12, <1>13
  <1>19. \A x \in Device : x # d =>
            pass'[x] = pass[x] /\ pointer'[x] = pointer[x] /\ disk'[x] = disk[x]
    BY <1>1, <1>4
  <1>. QED  BY <1>1, <1>15, <1>17, <1>18, <1>19, QuietStep

(***************************************************************************)
(* The user saves or deletes.                                              *)
(***************************************************************************)

\* What an edit leaves of what a pass secured: nobody saves while the pass
\* copies and applies, and a deletion only shrinks the tree.
LEMMA EditKeepsPass ==
  ASSUME LossInv, Undisturbed, NEW d \in Device, User(d)
  PROVE  PassKept(pass[d], disk'[d], heads, Wanted')
  <1>. DEFINE k == pass[d]  m == disk[d]  n == disk'[d]  w == Wanted'
  <1>1. PassOK(k, Known) /\ PassKept(k, m, heads, Wanted) /\ TypeOK /\ edits \in Nat
    BY LossFacts, ConvergeAssumption DEF TypeOK
  <1>2. /\ \A x \in w : \A p : Has(m, p, x) => Has(n, p, x)
        /\ \A x, p : Has(n, p, x) =>
              Has(m, p, x) \/ (x = edits + 1 /\ k.phase \in SavePhases)
        /\ k.phase \in SavePhases \/ DOMAIN n \subseteq DOMAIN m
    BY <1>1, UserTree
  <1>3. k.phase \in {"copying", "applying"} => k.phase \notin SavePhases
    BY DEF Undisturbed
  <1>4. \A p \in DOMAIN k.remote : k.remote[p].data \in 1 .. edits
    BY <1>1, KnownData DEF PassOK
  <1>5. \A p \in DOMAIN k.merged : k.merged[p].data \in w => k.merged[p].data \in Wanted
    <2>1. \A p \in DOMAIN k.merged : k.merged[p].data \in 1 .. edits
      BY <1>1, KnownData DEF PassOK
    <2>2. \A x \in w : x \in Wanted \/ x = edits + 1
      BY <1>1, WantedStep
    <2>. QED  BY <1>1, <2>1, <2>2
  <1>. HIDE DEF k, m, n, w
  <1>6. ASSUME Agreed(m, k.remote, k.merged, k.todo)
        PROVE  Agreed(n, k.remote, k.merged, k.todo)
    <2>. SUFFICES ASSUME NEW p \in DOMAIN n \ k.todo, n[p].data \in Data(k.remote)
                  PROVE  Has(k.merged, p, n[p].data)
      BY DEF Agreed
    <2>1. n[p].data \in 1 .. edits
      BY <1>4 DEF Data
    <2>2. Has(m, p, n[p].data)
      BY <1>1, <1>2, <2>1 DEF Has
    <2>. QED  BY <1>6, <2>2 DEF Agreed, Has
  <1>7. ASSUME Written(m, k.merged, k.todo, k.copies, Wanted)
        PROVE  Written(n, k.merged, k.todo, k.copies, w)
    <2>. SUFFICES ASSUME NEW p \in DOMAIN k.merged, k.merged[p].data \in w, p \notin k.todo,
                         ~\E c \in k.copies : c.copy = p
                  PROVE  Has(n, p, k.merged[p].data)
      BY DEF Written
    <2>1. Has(m, p, k.merged[p].data)
      BY <1>5, <1>7 DEF Written
    <2>. QED  BY <1>2, <2>1
  <1>8. ASSUME k.phase \in {"copying", "applying"}
        PROVE  /\ DOMAIN n \subseteq DOMAIN m
               /\ \A p \in DOMAIN n : n[p].data = m[p].data
    BY <1>2, <1>3, <1>8 DEF Has
  <1>9. ASSUME k.phase \in {"copying", "applying"}, Spared(m, k.base, k.remote, k.merged, k.todo)
        PROVE  Spared(n, k.base, k.remote, k.merged, k.todo)
    BY <1>8, <1>9 DEF Spared
  <1>10. ASSUME k.phase = "copying", ToCopy(m, k.merged, k.todo, k.copies)
         PROVE  ToCopy(n, k.merged, k.todo, k.copies)
    <2>1. /\ DOMAIN n \subseteq DOMAIN m
          /\ \A p \in DOMAIN n : n[p].data = m[p].data
      BY <1>8, <1>10
    <2>. QED  BY <1>10, <2>1 DEF ToCopy
  <1>11. PassKept(k, n, heads, w)
    BY <1>1, <1>6, <1>7, <1>9, <1>10 DEF PassKept
  <1>. QED  BY <1>11 DEF k, n, w

LEMMA UserSecure ==
  ASSUME LossInv, NamesGrow, Undisturbed, NEW d \in Device, User(d)
  PROVE  Shape' /\ AllKept' /\ AllSecure'
  <1>1. TypeOK
    BY LossFacts
  <1>2. /\ \A x \in Wanted' : \A p : Has(disk[d], p, x) => Has(disk'[d], p, x)
        /\ \A x \in Wanted' : x \notin Wanted => \E p : Has(disk'[d], p, x)
        /\ DOMAIN disk'[d] \subseteq DOMAIN disk[d] \/ \E p \in UserPaths :
              DOMAIN disk'[d] = DOMAIN disk[d] \cup {p}
        /\ UNCHANGED <<heads, pointer, pass>>
    BY <1>1, UserTree
  <1>3. \A e \in Device : e # d => disk'[e] = disk[e]
    BY <1>1, OthersStay
  <1>4. edits' = edits + 1 /\ edits \in Nat /\ \A x \in Wanted' : x \in Wanted \/ x = edits + 1
    BY <1>1, WantedStep
  <1>5. \A x \in Wanted' : \A e \in Device : \A p : Has(disk[e], p, x) => Has(disk'[e], p, x)
    BY <1>2, <1>3
  <1>6. Small(disk'[d])
    <2>1. IsFiniteSet(DOMAIN disk[d]) /\ DOMAIN disk[d] \subseteq Paths
      BY LossFacts DEF Small
    <2>2. CASE DOMAIN disk'[d] \subseteq DOMAIN disk[d]
      BY <2>1, <2>2, FS_Subset DEF Small
    <2>3. CASE \E p \in UserPaths : DOMAIN disk'[d] = DOMAIN disk[d] \cup {p}
      <3>1. PICK p \in UserPaths : DOMAIN disk'[d] = DOMAIN disk[d] \cup {p}
        BY <2>3
      <3>2. p \in Paths
        BY DEF NamesGrow
      <3>3. IsFiniteSet(DOMAIN disk'[d])
        BY <2>1, <3>1, FS_AddElement
      <3>. QED  BY <2>1, <3>1, <3>2, <3>3 DEF Small
    <2>. QED  BY <1>2, <2>2, <2>3
  <1>7. Shape'
    BY <1>2, <1>3, <1>6 DEF LossInv, Shape
  <1>8. AllKept'
    <2>. SUFFICES ASSUME NEW e \in Device PROVE PassKept(pass'[e], disk'[e], heads', Wanted')
      BY DEF AllKept
    <2>1. CASE e = d
      BY <1>2, <2>1, EditKeepsPass
    <2>2. CASE e # d
      <3>. DEFINE k == pass[e]  m == disk[e]  w == Wanted'
      <3>1. PassKept(k, m, heads, Wanted) /\ PassOK(k, Known)
        BY LossFacts
      <3>2. \A p \in DOMAIN k.merged : k.merged[p].data \in w => k.merged[p].data \in Wanted
        <4>1. \A p \in DOMAIN k.merged : k.merged[p].data \in 1 .. edits
          BY <3>1, KnownData DEF PassOK
        <4>. QED  BY <1>4, <4>1
      <3>. HIDE DEF k, m, w
      <3>3. PassKept(k, m, heads, w)
        BY <3>1, <3>2, KeptByOthers
      <3>. QED  BY <1>2, <1>3, <2>2, <3>3 DEF k, m, w
    <2>. QED  BY <2>1, <2>2
  <1>9. ASSUME NEW x \in Wanted' PROVE Secure(x)'
    <2>1. CASE x \in Wanted /\ \E q : Anchor(q, x)
      <3>1. PICK q : Anchor(q, x)
        BY <2>1
      <3>2. RelayHead' = RelayHead
        BY <1>2 DEF RelayHead
      <3>3. \A e \in Device : Holds(disk[e], q, x) => Holds(disk'[e], q, x)
        BY <1>5, HoldsMonotonic
      <3>4. \A e \in Device : /\ Covers(pointer'[e], disk'[e], q, x)
                              /\ Covers(pass'[e].base, disk'[e], q, x)
        BY <1>2, <3>1, <3>3 DEF Anchor, Covers
      <3>5. Anchor(q, x)'
        BY <1>2, <3>1, <3>2, <3>4 DEF Anchor
      <3>. QED  BY <3>5 DEF Secure
    <2>2. CASE x \in Wanted /\ Unpublished(x) /\ \E e \in Device : \E p : Has(disk[e], p, x)
      <3>1. Unpublished(x)'
        BY <1>2, <2>2 DEF Unpublished
      <3>. QED  BY <1>5, <2>2, <3>1 DEF Secure
    <2>3. CASE x \notin Wanted
      <3>1. x = edits + 1 /\ \E p : Has(disk'[d], p, x)
        BY <1>2, <1>4, <2>3
      <3>2. ASSUME NEW i \in DOMAIN heads, NEW p, Has(heads[i], p, x) PROVE FALSE
        <4>1. IsManifest(heads[i], Known)
          BY <1>1 DEF TypeOK, HeadsOK
        <4>2. x \in 1 .. edits
          BY <3>2, <4>1, KnownData DEF Has
        <4>. QED  BY <1>4, <3>1, <4>2
      <3>3. Unpublished(x)'
        BY <1>2, <3>2 DEF Unpublished
      <3>. QED  BY <3>1, <3>3 DEF Secure
    <2>. QED  BY <2>1, <2>2, <2>3 DEF LossInv, AllSecure, Secure
  <1>10. AllSecure'
    BY <1>9 DEF AllSecure
  <1>. QED  BY <1>7, <1>8, <1>10

(***************************************************************************)
(* The head moves.                                                         *)
(***************************************************************************)

\* Of the names a manifest has a content under, one is longest.
LEMMA LongestName ==
  ASSUME NamesGrow, NEW m, Small(m), NEW x, NEW p, Has(m, p, x)
  PROVE  \E r : Has(m, r, x) /\ \A s : Has(m, s, x) => Length[s] <= Length[r]
  <1>. DEFINE T == {s \in DOMAIN m : m[s].data = x}
              above(r) == {s \in T : Length[s] > Length[r]}
              N == {Cardinality(above(r)) : r \in T}
  <1>1. IsFiniteSet(T)
    BY FS_Subset DEF Small
  <1>2. \A s \in T : Length[s] \in Nat
    BY DEF Small, NamesGrow
  <1>3. p \in T /\ \A s : Has(m, s, x) <=> s \in T
    BY DEF Has
  <1>4. \A r \in T : IsFiniteSet(above(r)) /\ Cardinality(above(r)) \in Nat
    <2>. SUFFICES ASSUME NEW r \in T
                  PROVE  IsFiniteSet(above(r)) /\ Cardinality(above(r)) \in Nat
      OBVIOUS
    <2>1. above(r) \in SUBSET T
      OBVIOUS
    <2>. HIDE DEF T, above
    <2>. QED  BY <1>1, <2>1, FS_Subset, FS_CardinalityType
  <1>5. PICK n \in N : \A k \in N : ~(k < n)
    <2>1. N \subseteq Nat /\ N # {}
      BY <1>3, <1>4
    <2>. HIDE DEF N
    <2>. QED  BY <2>1, LeastNumber
  <1>6. PICK r \in T : n = Cardinality(above(r))
    BY <1>5
  <1>7. ASSUME NEW s \in T, Length[s] > Length[r] PROVE FALSE
    <2>1. above(s) \in SUBSET above(r)
      <3>. SUFFICES ASSUME NEW z \in above(s) PROVE Length[z] > Length[r]
        OBVIOUS
      <3>1. z \in T /\ Length[z] > Length[s]
        OBVIOUS
      <3>. HIDE DEF T, above
      <3>. QED  BY <1>2, <1>7, <3>1
    <2>2. s \in above(r) /\ s \notin above(s)
      BY <1>2, <1>7
    <2>3. ~(Cardinality(above(s)) < Cardinality(above(r)))
      BY <1>5, <1>6
    <2>. HIDE DEF T, above
    <2>4. Cardinality(above(s)) <= Cardinality(above(r)) /\ above(s) # above(r)
      BY <1>4, <2>1, <2>2, FS_Subset
    <2>5. Cardinality(above(s)) # Cardinality(above(r))
      BY <1>4, <2>1, <2>4, FS_Subset
    <2>. QED  BY <1>4, <2>3, <2>4, <2>5
  <1>. HIDE DEF T, above
  <1>8. \A s \in T : Length[s] <= Length[r]
    BY <1>2, <1>6, <1>7
  <1>. QED  BY <1>3, <1>6, <1>8

\* What a pass that wins the compare-and-swap publishes: the remote it merged
\* against is the head, and every anchored content of it is in the merge.
LEMMA MergeOfHead ==
  ASSUME LossInv, NEW d \in Device, pass[d].phase = "pushing", CasWins(d),
         NEW x, NEW q, Anchor(q, x)
  PROVE  Holds(pass[d].merged, q, x)
  <1>. DEFINE k == pass[d]  m == disk[d]
  <1>1. k.remote = RelayHead /\ PassKept(k, m, heads, Wanted)
    BY LossFacts DEF CasWins
  <1>2. Has(k.remote, q, x) /\ Covers(k.base, m, q, x)
    BY <1>1 DEF Anchor
  <1>. HIDE DEF k, m
  <1>3. RemoteKept(k.base, k.remote, k.merged) /\ Agreed(m, k.remote, k.merged, {})
    BY <1>1 DEF PassKept, k
  <1>4. CASE ~Has(k.base, q, x)
    BY <1>2, <1>3, <1>4 DEF RemoteKept, Has, k
  <1>5. CASE Has(k.base, q, x)
    <2>1. Holds(m, q, x) /\ x \in Data(k.remote)
      BY <1>2, <1>5 DEF Covers, Has, Data
    <2>2. \A p : Has(m, p, x) => Has(k.merged, p, x)
      BY <1>3, <2>1 DEF Agreed, Has
    <2>3. Holds(k.merged, q, x)
      BY <2>1, <2>2, HoldsMonotonic
    <2>. QED  BY <2>3 DEF k
  <1>. QED  BY <1>4, <1>5

\* put_head took effect: the merge is the new head.  What the pass becomes is
\* left open, for the pass that commits and the one that does not learn of it.
Appends(d) ==
  /\ pass[d].phase = "pushing" /\ CasWins(d)
  /\ heads' = Append(heads, pass[d].merged)
  /\ UNCHANGED <<disk, pointer, edits, gone>>
  /\ \A e \in Device : e # d => pass'[e] = pass[e]
  /\ \A q, x : Has(pass'[d].base, q, x) => Has(pass[d].base, q, x)

LEMMA HeadsAppended ==
  ASSUME LossInv, NEW d \in Device, Appends(d)
  PROVE  /\ Len(heads) \in Nat /\ Len(heads') = Len(heads) + 1
         /\ DOMAIN heads = 1 .. Len(heads) /\ DOMAIN heads' = 1 .. Len(heads')
         /\ \A i \in DOMAIN heads : heads'[i] = heads[i]
         /\ heads'[Len(heads')] = pass[d].merged /\ RelayHead' = pass[d].merged
         /\ \A i \in DOMAIN heads' : i \in DOMAIN heads \/ i = Len(heads')
         /\ \A i \in 0 .. Len(heads) : HeadAt(heads', i) = HeadAt(heads, i)
  <1>1. HeadsOK(Known) /\ IsManifest(pass[d].merged, Known)
    BY LossFacts DEF TypeOK, PassOK
  <1>2. /\ Len(heads) \in Nat /\ Len(heads') = Len(heads) + 1
        /\ DOMAIN heads = 1 .. Len(heads) /\ DOMAIN heads' = 1 .. Len(heads')
        /\ \A i \in DOMAIN heads : heads'[i] = heads[i]
        /\ heads'[Len(heads')] = pass[d].merged
    BY <1>1, HeadsStep DEF Appends
  <1>3. heads' # <<>>
    <2>1. Len(heads') # 0
      BY <1>2
    <2>. QED  BY <2>1
  <1>4. RelayHead' = pass[d].merged
    BY <1>2, <1>3 DEF RelayHead
  <1>5. \A i \in DOMAIN heads' : i \in DOMAIN heads \/ i = Len(heads')
    BY <1>2
  <1>6. \A i \in 0 .. Len(heads) : HeadAt(heads', i) = HeadAt(heads, i)
    BY <1>2 DEF HeadAt
  <1>. QED  BY <1>2, <1>4, <1>5, <1>6

\* A content published under a longer name than ever is anchored there.
LEMMA NewAnchor ==
  ASSUME LossInv, NEW d \in Device, Appends(d), NEW x, NEW r,
         Has(pass[d].merged, r, x),
         \A s : Has(pass[d].merged, s, x) => Length[s] <= Length[r],
         \A i \in DOMAIN heads : \A p : Has(heads[i], p, x) =>
            Length[p] <= Length[r] /\ p # r
  PROVE  Anchor(r, x)'
  <1>. DEFINE M == pass[d].merged
  <1>1. /\ \A i \in DOMAIN heads : heads'[i] = heads[i]
        /\ heads'[Len(heads')] = M /\ RelayHead' = M
        /\ \A i \in DOMAIN heads' : i \in DOMAIN heads \/ i = Len(heads')
        /\ Len(heads) \in Nat /\ Len(heads') = Len(heads) + 1
        /\ DOMAIN heads = 1 .. Len(heads) /\ DOMAIN heads' = 1 .. Len(heads')
    BY HeadsAppended
  <1>. HIDE DEF M
  <1>2. \A i \in DOMAIN heads' : \A p : Has(heads'[i], p, x) => Length[p] <= Length[r]
    BY <1>1 DEF M
  <1>3. ASSUME NEW i \in DOMAIN heads', NEW j \in DOMAIN heads', i <= j, Has(heads'[i], r, x)
        PROVE  Has(heads'[j], r, x)
    <2>1. i \notin DOMAIN heads
      BY <1>1, <1>3
    <2>2. i = Len(heads')
      BY <1>1, <2>1
    <2>3. j = Len(heads')
      BY <1>1, <1>3, <2>2
    <2>. QED  BY <1>3, <2>2, <2>3
  <1>4. \A b \in Published : ~Has(b, r, x)
    BY DEF Published, Has, Empty
  <1>5. \A e \in Device : ~Has(pointer[e], r, x) /\ ~Has(pass[e].base, r, x)
    BY <1>4 DEF LossInv, BaseInv, BaseIsPublished
  <1>6. \A e \in Device : ~Has(pointer'[e], r, x) /\ ~Has(pass'[e].base, r, x)
    BY <1>5 DEF Appends
  <1>7. \A e \in Device : /\ Covers(pointer'[e], disk'[e], r, x)
                          /\ Covers(pass'[e].base, disk'[e], r, x)
    BY <1>6 DEF Covers
  <1>8. Has(RelayHead', r, x)
    BY <1>1 DEF M
  <1>. QED  BY <1>2, <1>3, <1>7, <1>8 DEF Anchor

\* A content the new head has no longer name for stays anchored where it was.
LEMMA OldAnchor ==
  ASSUME LossInv, NamesGrow, NEW d \in Device, Appends(d), NEW x, NEW q, Anchor(q, x),
         Has(pass[d].merged, q, x), ~Longer(pass[d].merged, q, x)
  PROVE  Anchor(q, x)'
  <1>. DEFINE M == pass[d].merged
  <1>1. /\ \A i \in DOMAIN heads : heads'[i] = heads[i]
        /\ heads'[Len(heads')] = M /\ RelayHead' = M
        /\ \A i \in DOMAIN heads' : i \in DOMAIN heads \/ i = Len(heads')
        /\ Len(heads) \in Nat /\ Len(heads') = Len(heads) + 1
        /\ DOMAIN heads = 1 .. Len(heads) /\ DOMAIN heads' = 1 .. Len(heads')
    BY HeadsAppended
  <1>2. Small(M)
    BY LossFacts
  <1>3. \A p : Has(M, p, x) => Length[p] <= Length[q]
    <2>. SUFFICES ASSUME NEW p, Has(M, p, x) PROVE Length[p] <= Length[q]
      OBVIOUS
    <2>1. Length[p] \in Nat /\ Length[q] \in Nat
      BY <1>2 DEF Has, Small, NamesGrow
    <2>2. ~(Length[p] > Length[q])
      BY DEF Longer, Has
    <2>. QED  BY <2>1, <2>2
  <1>4. Has(M, q, x)
    OBVIOUS
  <1>. HIDE DEF M
  <1>5. \A i \in DOMAIN heads' : \A p : Has(heads'[i], p, x) => Length[p] <= Length[q]
    BY <1>1, <1>3 DEF Anchor
  <1>6. ASSUME NEW i \in DOMAIN heads', NEW j \in DOMAIN heads', i <= j, Has(heads'[i], q, x)
        PROVE  Has(heads'[j], q, x)
    <2>1. CASE j = Len(heads')
      BY <1>1, <1>4, <2>1
    <2>2. CASE j \in DOMAIN heads
      <3>1. i \in DOMAIN heads
        BY <1>1, <1>6, <2>2
      <3>. QED  BY <1>1, <1>6, <2>2, <3>1 DEF Anchor
    <2>. QED  BY <1>1, <2>1, <2>2
  <1>7. \A e \in Device : /\ Covers(pointer[e], disk[e], q, x)
                          /\ Covers(pass[e].base, disk[e], q, x)
    BY DEF Anchor
  <1>8. \A e \in Device : /\ Covers(pointer'[e], disk'[e], q, x)
                          /\ Covers(pass'[e].base, disk'[e], q, x)
    <2>. SUFFICES ASSUME NEW e \in Device
                  PROVE  /\ Covers(pointer'[e], disk'[e], q, x)
                         /\ Covers(pass'[e].base, disk'[e], q, x)
      OBVIOUS
    <2>1. pointer' = pointer /\ disk' = disk
      BY DEF Appends
    <2>2. Has(pass'[e].base, q, x) => Has(pass[e].base, q, x)
      BY DEF Appends
    <2>. QED  BY <1>7, <2>1, <2>2 DEF Covers
  <1>9. Has(RelayHead', q, x)
    BY <1>1, <1>4
  <1>. QED  BY <1>5, <1>6, <1>8, <1>9 DEF Anchor

\* Every wanted content is as secure under the new head as under the old one.
LEMMA HeadSecure ==
  ASSUME LossInv, NamesGrow, NEW d \in Device, Appends(d), NEW x \in Wanted
  PROVE  Secure(x)'
  <1>. DEFINE M == pass[d].merged
  <1>1. /\ \A i \in DOMAIN heads : heads'[i] = heads[i]
        /\ heads'[Len(heads')] = M
        /\ \A i \in DOMAIN heads' : i \in DOMAIN heads \/ i = Len(heads')
    BY HeadsAppended
  <1>2. Small(M) /\ \A i \in DOMAIN heads : Small(heads[i])
    BY LossFacts DEF LossInv, Shape
  <1>3. CASE \E q : Anchor(q, x)
    <2>1. PICK q : Anchor(q, x)
      BY <1>3
    <2>2. Holds(M, q, x)
      BY <2>1, MergeOfHead DEF Appends
    <2>3. CASE Longer(M, q, x)
      <3>1. PICK p : Has(M, p, x) /\ Length[p] > Length[q]
        BY <2>3 DEF Longer, Has
      <3>2. PICK r : Has(M, r, x) /\ \A s : Has(M, s, x) => Length[s] <= Length[r]
        <4>. HIDE DEF M
        <4>. QED  BY <1>2, <3>1, LongestName
      <3>3. \A s \in Paths : Length[s] \in Nat
        BY DEF NamesGrow
      <3>4. p \in Paths /\ r \in Paths
        BY <1>2, <3>1, <3>2 DEF Has, Small
      <3>5. ASSUME NEW i \in DOMAIN heads, NEW s, Has(heads[i], s, x)
            PROVE  Length[s] <= Length[r] /\ s # r
        <4>1. s \in Paths /\ Length[s] <= Length[q]
          BY <1>2, <2>1, <3>5 DEF Has, Small, Anchor
        <4>2. q \in Paths
          <5>1. RelayHead = HeadAt(heads, Len(heads)) /\ Len(heads) \in 0 .. Len(heads)
            BY LossFacts
          <5>2. Small(RelayHead)
            BY <5>1, HeadIsSmall
          <5>. QED  BY <2>1, <5>2 DEF Anchor, Has, Small
        <4>3. Length[p] <= Length[r]
          BY <3>1, <3>2
        <4>4. Length[s] < Length[r]
          BY <3>1, <3>3, <3>4, <4>1, <4>2, <4>3
        <4>. QED  BY <3>3, <3>4, <4>1, <4>4
      <3>6. Anchor(r, x)'
        BY <3>2, <3>5, NewAnchor
      <3>. QED  BY <3>6 DEF Secure
    <2>4. CASE ~Longer(M, q, x)
      <3>1. Anchor(q, x)'
        BY <2>1, <2>2, <2>4, OldAnchor DEF Holds
      <3>. QED  BY <3>1 DEF Secure
    <2>. QED  BY <2>3, <2>4
  <1>4. CASE Unpublished(x) /\ \E e \in Device : \E p : Has(disk[e], p, x)
    <2>1. CASE \E p : Has(M, p, x)
      <3>1. PICK p : Has(M, p, x)
        BY <2>1
      <3>2. PICK r : Has(M, r, x) /\ \A s : Has(M, s, x) => Length[s] <= Length[r]
        <4>. HIDE DEF M
        <4>. QED  BY <1>2, <3>1, LongestName
      <3>3. Anchor(r, x)'
        BY <1>4, <3>2, NewAnchor DEF Unpublished
      <3>. QED  BY <3>3 DEF Secure
    <2>2. CASE \A p : ~Has(M, p, x)
      <3>1. \A i \in DOMAIN heads' : \A p : ~Has(heads'[i], p, x)
        BY <1>1, <1>4, <2>2 DEF Unpublished
      <3>2. disk' = disk
        BY DEF Appends
      <3>. QED  BY <1>4, <3>1, <3>2 DEF Secure, Unpublished
    <2>. QED  BY <2>1, <2>2
  <1>. QED  BY <1>3, <1>4 DEF LossInv, AllSecure, Secure

\* The head moves, and what the mover's pass has become keeps its part.
LEMMA AppendSecure ==
  ASSUME LossInv, NamesGrow, NEW d \in Device, Appends(d), Small(pass'[d].merged),
         PassKept(pass'[d], disk[d], heads', Wanted)
  PROVE  Shape' /\ AllKept' /\ AllSecure'
  <1>1. Wanted' = Wanted /\ disk' = disk
    BY DEF Appends, Wanted
  <1>2. \A e \in Device : e # d => pass'[e] = pass[e]
    BY DEF Appends
  <1>3. /\ \A i \in DOMAIN heads : heads'[i] = heads[i]
        /\ heads'[Len(heads')] = pass[d].merged
        /\ \A i \in DOMAIN heads' : i \in DOMAIN heads \/ i = Len(heads')
        /\ Len(heads) \in Nat
        /\ \A i \in 0 .. Len(heads) : HeadAt(heads', i) = HeadAt(heads, i)
    BY HeadsAppended
  <1>4. Shape'
    <2>1. \A i \in DOMAIN heads' : Small(heads'[i])
      BY <1>3 DEF LossInv, Shape
    <2>2. \A e \in Device : Small(disk'[e]) /\ Small(pass'[e].merged)
      BY <1>1, <1>2 DEF LossInv, Shape
    <2>. QED  BY <2>1, <2>2 DEF Shape
  <1>5. AllKept'
    <2>. SUFFICES ASSUME NEW e \in Device PROVE PassKept(pass'[e], disk'[e], heads', Wanted')
      BY DEF AllKept
    <2>1. CASE e = d
      BY <1>1, <2>1
    <2>2. CASE e # d
      <3>. DEFINE k == pass[e]  m == disk[e]
      <3>1. /\ PassKept(k, m, heads, Wanted)
            /\ k.phase \notin {"idle", "committing"} => k.seq \in 0 .. Len(heads)
        BY LossFacts
      <3>. HIDE DEF k, m
      <3>2. k.phase \notin {"idle", "committing"} =>
               \A i \in 0 .. k.seq : HeadAt(heads', i) = HeadAt(heads, i)
        BY <1>3, <3>1
      <3>3. PassKept(k, m, heads', Wanted)
        BY <3>1, <3>2, KeptByOthers
      <3>. QED  BY <1>1, <1>2, <2>2, <3>3 DEF k, m
    <2>. QED  BY <2>1, <2>2
  <1>6. AllSecure'
    BY <1>1, HeadSecure DEF AllSecure
  <1>. QED  BY <1>4, <1>5, <1>6

LEMMA PublishSecure ==
  ASSUME LossInv, NamesGrow, NEW d \in Device, Publish(d)
  PROVE  Shape' /\ AllKept' /\ AllSecure'
  <1>. DEFINE k == pass[d]
              y == [k EXCEPT !.phase = "committing", !.seq = @ + 1]
              z == [k EXCEPT !.phase = "committing"]
  <1>1. /\ k.phase = "pushing" /\ CasWins(d) /\ heads' = Append(heads, k.merged)
        /\ UNCHANGED <<disk, pointer, edits, gone>>
        /\ pass' = [pass EXCEPT ![d].phase = "committing", ![d].seq = @ + 1]
    BY DEF Publish, history
  <1>2. PassOK(k, Known) /\ PassKept(k, disk[d], heads, Wanted) /\ Small(k.merged)
    BY LossFacts
  <1>3. /\ y.phase = "committing" /\ y.base = k.base /\ y.merged = k.merged
        /\ y.copies = k.copies /\ y.todo = k.todo
    BY <1>2 DEF PassOK
  <1>4. pass'[d] = y /\ \A e \in Device : e # d => pass'[e] = pass[e]
    BY <1>1, LossFacts
  <1>. HIDE DEF y
  <1>5. Appends(d)
    BY <1>1, <1>3, <1>4 DEF Appends
  <1>. HIDE DEF k
  <1>6. PassKept(y, disk[d], heads', Wanted)
    BY <1>1, <1>2, <1>3 DEF PassKept
  <1>. QED  BY <1>2, <1>3, <1>4, <1>5, <1>6, AppendSecure

LEMMA AnswerLostSecure ==
  ASSUME LossInv, NamesGrow, NEW d \in Device, AnswerLost(d)
  PROVE  Shape' /\ AllKept' /\ AllSecure'
  <1>1. /\ pass[d].phase = "pushing" /\ CasWins(d) /\ heads' = Append(heads, pass[d].merged)
        /\ UNCHANGED <<disk, pointer, edits, gone>>
        /\ pass' = [pass EXCEPT ![d] = NoPass]
    BY DEF AnswerLost, history
  <1>2. pass'[d] = NoPass /\ \A e \in Device : e # d => pass'[e] = pass[e]
    BY <1>1, LossFacts
  <1>3. Appends(d)
    BY <1>1, <1>2 DEF Appends, NoPass, Has, Empty
  <1>4. PassKept(pass'[d], disk[d], heads', Wanted) /\ Small(pass'[d].merged)
    BY <1>2, NoPassKept
  <1>. QED  BY <1>3, <1>4, AppendSecure

(***************************************************************************)
(* The induction.                                                          *)
(***************************************************************************)

\* Nothing is wanted before the first save.
LEMMA LossInit == Init => LossInv
  <1>. SUFFICES ASSUME Init PROVE LossInv
    OBVIOUS
  <1>1. BaseInv
    BY BaseInit
  <1>2. heads = <<>> /\ edits = 0
    BY DEF Init
  <1>3. \A e \in Device : disk[e] = Empty /\ pass[e] = NoPass
    BY DEF Init
  <1>4. Small(Empty) /\ DOMAIN heads = {}
    BY <1>2, FS_EmptySet DEF Small, Empty
  <1>5. Shape
    BY <1>3, <1>4, NoPassKept DEF Shape
  <1>6. AllKept
    BY <1>3, NoPassKept DEF AllKept
  <1>7. AllSecure
    BY <1>2 DEF AllSecure, Wanted
  <1>. QED  BY <1>1, <1>5, <1>6, <1>7 DEF LossInv

\* Whatever a device, its user or a fault does.
LEMMA LossStep ==
  ASSUME NamesGrow, Undisturbed
  PROVE  LossInv /\ [Next]_vars => LossInv'
  <1>. SUFFICES ASSUME LossInv, [Next]_vars PROVE LossInv'
    OBVIOUS
  <1>1. BaseInv'
    BY BaseStep DEF LossInv
  <1>2. CASE UNCHANGED vars
    <2>. USE <1>2 DEF vars
    <2>1. Wanted' = Wanted /\ RelayHead' = RelayHead
      BY DEF Wanted, RelayHead
    <2>2. Shape' /\ AllKept'
      BY <2>1 DEF LossInv, Shape, AllKept
    <2>3. \A x : (\A q : Anchor(q, x) => Anchor(q, x)') /\ (Unpublished(x) => Unpublished(x)')
      BY <2>1 DEF Anchor, Unpublished
    <2>4. AllSecure'
      BY <2>1, <2>3 DEF LossInv, AllSecure, Secure
    <2>. QED  BY <1>1, <2>2, <2>4 DEF LossInv
  <1>3. ASSUME NEW d \in Device, Step(d) PROVE Shape' /\ AllKept' /\ AllSecure'
    <2>1. CASE Begin(d)             BY <2>1, BeginSecure
    <2>2. CASE ScanAndMerge(d)      BY <2>2, ScanSecure
    <2>3. CASE MergeInvalid(d)      BY <2>3, FailSecure DEF MergeInvalid, history
    <2>4. CASE MakeCopy(d)          BY <2>4, CopySecure
    <2>5. CASE CopyVanished(d)      BY <2>5, FailSecure DEF CopyVanished, history
    <2>6. CASE StartApply(d)        BY <2>6, StartApplySecure
    <2>7. CASE ApplyPath(d)         BY <2>7, ApplySecure
    <2>8. CASE ApplyBlocked(d)      BY <2>8, FailSecure DEF ApplyBlocked, history
    <2>9. CASE MoveBase(d)          BY <2>9, MoveBaseSecure
    <2>10. CASE NothingToPublish(d) BY <2>10, AgreedSecure
    <2>11. CASE Publish(d)          BY <2>11, PublishSecure
    <2>12. CASE LoseRace(d)         BY <2>12, LoseRaceSecure
    <2>13. CASE NoteHead(d)         BY <2>13, NoteHeadSecure
    <2>14. CASE Commit(d)           BY <2>14, CommitSecure
    <2>. QED  BY <1>3, <2>1, <2>2, <2>3, <2>4, <2>5, <2>6, <2>7, <2>8, <2>9, <2>10,
                 <2>11, <2>12, <2>13, <2>14 DEF Step
  <1>4. ASSUME NEW d \in Device, Fault(d) PROVE Shape' /\ AllKept' /\ AllSecure'
    <2>1. CASE AnswerLost(d)        BY <2>1, AnswerLostSecure
    <2>2. CASE Interrupt(d)         BY <2>2, FailSecure DEF Interrupt, history
    <2>. QED  BY <1>4, <2>1, <2>2 DEF Fault
  <1>5. CASE Next
    BY <1>1, <1>3, <1>4, <1>5, UserSecure DEF Next, LossInv
  <1>. QED  BY <1>2, <1>5

\* What is secure is somewhere.
LEMMA SecureIsLive == LossInv => NoByteLost
  <1>. SUFFICES ASSUME LossInv, NEW x \in Wanted PROVE x \in Live
    BY DEF NoByteLost, Wanted
  <1>1. CASE \E q : Anchor(q, x)
    BY <1>1 DEF Anchor, Has, Live, Data
  <1>2. CASE \E e \in Device : \E p : Has(disk[e], p, x)
    <2>1. \E e \in Device : x \in Data(disk[e]) \cup Data(kept[e])
      BY <1>2 DEF Has, Data
    <2>. QED  BY <2>1 DEF Live
  <1>. QED  BY <1>1, <1>2 DEF LossInv, AllSecure, Secure

\* README.md, "A converge never loses a byte of anyone's data": for any number
\* of devices, files, edits, races, lost answers and interrupted passes, what
\* no user overwrote or deleted is in a tree or in the head.
THEOREM NothingIsLost ==
  ASSUME NamesGrow, Undisturbed
  PROVE  Spec => []NoByteLost
  <1>1. Spec => []LossInv
    BY LossInit, LossStep, PTL DEF Spec
  <1>. QED  BY <1>1, SecureIsLive, PTL

(***************************************************************************)
(* One shared folder.                                                      *)
(*                                                                         *)
(* The refinement maps live to what some device or the relay can still     *)
(* reach.  A step of a device brings no content within reach that was not  *)
(* (every manifest it builds is made of entries of manifests it holds), an *)
(* edit adds the content it saves, and what is wanted stays, as no byte is *)
(* lost.  What an edit overwrites by inheritance was gone already, hence   *)
(* the invariant AuthorsGone.                                              *)
(***************************************************************************)

\* What one device can reach.
Held(d) ==
  Data(disk[d]) \cup Data(kept[d]) \cup Data(pass[d].remote) \cup Data(pass[d].merged)
    \cup {c.entry.data : c \in pass[d].copies}

LEMMA ReachByDevice == Reachable = Data(RelayHead) \cup UNION {Held(d) : d \in Device}
  BY DEF Reachable, Live, Held

LEMMA DataOfTrees ==
  /\ \A m, p, e : Data(With(m, p, e)) \subseteq Data(m) \cup {e.data}
  /\ \A m, p : Data(Without(m, p)) \subseteq Data(m)
  /\ Data(Empty) = {}
  BY DEF Data, With, Without, Empty

\* A merge makes up no content.
LEMMA MergedData ==
  ASSUME NEW base, NEW local, NEW remote, NEW d, NEW stamp,
         IsManifest(local, Entry), IsManifest(remote, Entry)
  PROVE  LET out == Merge3(base, local, remote, d, stamp)
         IN  /\ Data(out.merged) \subseteq Data(local) \cup Data(remote)
             /\ \A c \in out.conflicts : c.entry.data \in Data(local) \cup Data(remote)
  <1>. DEFINE E == {e \in Entry : e.data \in Data(local) \cup Data(remote)}
              out == Merge3(base, local, remote, d, stamp)
  <1>1. E \subseteq Entry /\ IsManifest(local, E) /\ IsManifest(remote, E)
    BY DEF IsManifest, Data
  <1>2. \A e \in E : e.data \in Data(local) \cup Data(remote)
    OBVIOUS
  <1>3. out.conflicts = Conflicts(base, local, remote, d, stamp)
    BY DEF Merge3
  <1>. HIDE DEF E, out
  <1>4. IsManifest(out.merged, E)
    BY <1>1, MergedIsManifest DEF out
  <1>5. \A c \in out.conflicts : c.entry \in E
    BY <1>1, <1>3, ConflictsHoldEntries
  <1>6. Data(out.merged) \subseteq Data(local) \cup Data(remote)
    BY <1>2, <1>4 DEF Data, IsManifest
  <1>. QED  BY <1>2, <1>5, <1>6 DEF out

\* The kept copies of the devices that do not move.
LEMMA OthersHold ==
  ASSUME TypeOK, NEW d \in Device, Step(d) \/ User(d) \/ Fault(d),
         NEW e \in Device, e # d
  PROVE  Held(e)' = Held(e)
  <1>1. kept = [x \in Device |-> kept[x]]
    BY DEF TypeOK, TreesOK
  <1>2. kept' = kept \/ \E y : kept' = [kept EXCEPT ![d] = y]
    BY DEF Step, User, Fault, Save, Delete, Begin, Fetch, ScanAndMerge,
           MergeInvalid, MakeCopy, CopyVanished, StartApply, ApplyPath,
           ApplyBlocked, MoveBase, NothingToPublish, Publish, LoseRace,
           NoteHead, Commit, AnswerLost, Interrupt
  <1>3. kept'[e] = kept[e]
    BY <1>1, <1>2
  <1>4. pass'[e] = pass[e] /\ disk'[e] = disk[e]
    BY OthersStay
  <1>. QED  BY <1>3, <1>4 DEF Held

\* The reach of all is bounded by that of the device that moves.
LEMMA ReachStep ==
  ASSUME TypeOK, NEW d \in Device, Step(d) \/ User(d) \/ Fault(d),
         NEW S, Reachable \subseteq S, Held(d)' \subseteq S, Data(RelayHead)' \subseteq S
  PROVE  Reachable' \subseteq S
  <1>1. Reachable = Data(RelayHead) \cup UNION {Held(e) : e \in Device}
    BY ReachByDevice
  <1>2. Reachable' = Data(RelayHead)' \cup UNION {Held(e)' : e \in Device}
    BY DEF Reachable, Live, Held
  <1>3. \A e \in Device : e # d => Held(e)' = Held(e)
    BY OthersHold
  <1>4. \A e \in Device : Held(e)' \subseteq S
    BY <1>1, <1>3
  <1>. QED  BY <1>2, <1>4

\* The parts of a device's reach.
LEMMA HeldParts ==
  ASSUME NEW d \in Device
  PROVE  /\ Held(d) \subseteq Reachable /\ Data(RelayHead) \subseteq Reachable
         /\ Data(disk[d]) \subseteq Held(d) /\ Data(kept[d]) \subseteq Held(d)
         /\ Data(pass[d].remote) \subseteq Held(d) /\ Data(pass[d].merged) \subseteq Held(d)
         /\ \A c \in pass[d].copies : c.entry.data \in Held(d)
  BY ReachByDevice DEF Held

\* A step that touches no tree: the pass ends, goes on, or fetches the head.
LEMMA MemoryReach ==
  ASSUME TypeOK, NEW d \in Device, UNCHANGED <<disk, kept>>,
         NEW k, pass' = [pass EXCEPT ![d] = k],
         Data(k.remote) \subseteq Reachable, Data(k.merged) \subseteq Reachable,
         \A c \in k.copies : c.entry.data \in Reachable
  PROVE  Held(d)' \subseteq Reachable
  <1>1. pass'[d] = k
    BY DEF TypeOK, PassesOK
  <1>. QED  BY <1>1, HeldParts DEF Held

LEMMA EndReach ==
  ASSUME TypeOK, NEW d \in Device, UNCHANGED <<disk, kept>>,
         pass' = [pass EXCEPT ![d] = NoPass]
  PROVE  Held(d)' \subseteq Reachable
  <1>1. /\ Data(NoPass.remote) = {} /\ Data(NoPass.merged) = {} /\ NoPass.copies = {}
    BY DataOfTrees DEF NoPass
  <1>. HIDE DEF NoPass
  <1>. QED  BY <1>1, MemoryReach

LEMMA FetchReach ==
  ASSUME TypeOK, NEW d \in Device, UNCHANGED <<disk, kept>>,
         NEW base, NEW stamp, NEW attempt, Fetch(d, base, stamp, attempt)
  PROVE  Held(d)' \subseteq Reachable
  <1>. DEFINE k == [phase |-> "fetched", stamp |-> stamp, attempt |-> attempt,
                    base |-> base, remote |-> RelayHead, seq |-> Len(heads),
                    merged |-> Empty, copies |-> {}, todo |-> {}]
  <1>1. pass' = [pass EXCEPT ![d] = k]
    BY DEF Fetch
  <1>2. /\ Data(k.remote) \subseteq Reachable /\ Data(k.merged) \subseteq Reachable
        /\ k.copies = {}
    BY HeldParts, DataOfTrees
  <1>. HIDE DEF k
  <1>. QED  BY <1>1, <1>2, MemoryReach

LEMMA ScanReach ==
  ASSUME TypeOK, UploadFaults = FALSE, NEW d \in Device, ScanAndMerge(d)
  PROVE  Held(d)' \subseteq Reachable
  <1>. DEFINE local == Scan(d, {})
              out == Merge3(pass[d].base, local, pass[d].remote, d, pass[d].stamp)
              k == [pass[d] EXCEPT !.phase = "copying", !.merged = out.merged,
                                   !.copies = CopiesToMake(out.conflicts),
                                   !.todo = ApplyFromRemote(local, out)]
  <1>1. /\ pass' = [pass EXCEPT ![d].phase = "copying", ![d].merged = out.merged,
                                ![d].copies = CopiesToMake(out.conflicts),
                                ![d].todo = ApplyFromRemote(local, out)]
        /\ UNCHANGED <<disk, kept>>
    BY DEF ScanAndMerge, MayFail
  <1>2. IsManifest(local, Known) /\ IsManifest(pass[d].remote, Known) /\ Known \subseteq Entry
    BY DeviceTypes, ScanIsManifest, KnownIsEntry DEF PassOK, TypeOK
  <1>3. Data(local) \subseteq Data(disk[d])
    BY DEF Scan, Data
  <1>4. /\ k.remote = pass[d].remote /\ k.merged = out.merged
        /\ k.copies = CopiesToMake(out.conflicts)
        /\ pass' = [pass EXCEPT ![d] = k]
    <2>1. PassOK(pass[d], Known) /\ pass = [e \in Device |-> pass[e]]
      BY DeviceTypes DEF TypeOK, PassesOK
    <2>. DEFINE m == out.merged  cs == CopiesToMake(out.conflicts)  t == ApplyFromRemote(local, out)
    <2>2. pass' = [pass EXCEPT ![d].phase = "copying", ![d].merged = m,
                               ![d].copies = cs, ![d].todo = t]
      BY <1>1
    <2>3. k = [pass[d] EXCEPT !.phase = "copying", !.merged = m, !.copies = cs, !.todo = t]
      OBVIOUS
    <2>. HIDE DEF m, cs, t, out, local, k
    <2>4. pass' = [pass EXCEPT ![d] = k]
      BY <2>1, <2>2, <2>3
    <2>5. k.remote = pass[d].remote /\ k.merged = m /\ k.copies = cs
      BY <2>1, <2>3 DEF PassOK
    <2>. QED  BY <2>4, <2>5 DEF m, cs
  <1>5. IsManifest(local, Entry) /\ IsManifest(pass[d].remote, Entry)
    BY <1>2, ManifestMonotonic
  <1>. HIDE DEF k, local
  <1>6. /\ Data(out.merged) \subseteq Data(local) \cup Data(pass[d].remote)
        /\ \A c \in out.conflicts : c.entry.data \in Data(local) \cup Data(pass[d].remote)
    BY <1>5, MergedData
  <1>. HIDE DEF out
  <1>7. \A c \in CopiesToMake(out.conflicts) : c \in out.conflicts
    BY DEF CopiesToMake
  <1>8. Data(local) \subseteq Reachable /\ Data(pass[d].remote) \subseteq Reachable
    BY <1>3, HeldParts
  <1>9. Data(k.merged) \subseteq Reachable /\ Data(k.remote) \subseteq Reachable
    BY <1>4, <1>6, <1>8
  <1>10. \A c \in k.copies : c.entry.data \in Reachable
    BY <1>4, <1>6, <1>7, <1>8
  <1>. QED  BY <1>1, <1>4, <1>9, <1>10, MemoryReach

\* A step within a pass moves no content of what the pass holds.
LEMMA PassReach ==
  ASSUME TypeOK, NEW d \in Device, NEW k, pass' = [pass EXCEPT ![d] = k],
         k.remote = pass[d].remote, k.merged = pass[d].merged,
         k.copies \subseteq pass[d].copies,
         Data(disk'[d]) \subseteq Reachable, Data(kept'[d]) \subseteq Reachable
  PROVE  Held(d)' \subseteq Reachable
  <1>1. pass'[d] = k
    BY DEF TypeOK, PassesOK
  <1>. QED  BY <1>1, HeldParts DEF Held

LEMMA CopyReach ==
  ASSUME TypeOK, NEW d \in Device, MakeCopy(d)
  PROVE  Held(d)' \subseteq Reachable
  <1>1. PICK c \in pass[d].copies :
          /\ c.side = "local" => c.path \in DOMAIN disk[d]
          /\ IF c.localOnly
             THEN /\ kept' = [kept EXCEPT ![d] = With(kept[d], c.copy, CopyEntry(d, c))]
                  /\ UNCHANGED disk
             ELSE /\ disk' = [disk EXCEPT ![d] = With(disk[d], c.copy, CopyEntry(d, c))]
                  /\ UNCHANGED kept
          /\ pass' = [pass EXCEPT ![d].copies = pass[d].copies \ {c}]
    BY DEF MakeCopy
  <1>. DEFINE k == [pass[d] EXCEPT !.copies = pass[d].copies \ {c}]
              e == CopyEntry(d, c)
  <1>2. PassOK(pass[d], Known) /\ IsManifest(disk[d], Known)
        /\ pass = [x \in Device |-> pass[x]] /\ disk = [x \in Device |-> disk[x]]
        /\ kept = [x \in Device |-> kept[x]]
    BY DeviceTypes DEF TypeOK, PassesOK, TreesOK
  <1>3. /\ k.remote = pass[d].remote /\ k.merged = pass[d].merged
        /\ k.copies \subseteq pass[d].copies
    BY <1>2 DEF PassOK
  <1>4. pass' = [pass EXCEPT ![d] = k]
    BY <1>1, <1>2
  <1>5. e.data \in Data(disk[d]) \/ e.data = c.entry.data
    <2>1. CASE c.side = "local"
      <3>1. disk[d][c.path] \in Known /\ c.path \in DOMAIN disk[d]
        BY <1>1, <1>2, <2>1 DEF IsManifest
      <3>2. e.data = disk[d][c.path].data
        BY <2>1, <3>1 DEF CopyEntry, Known
      <3>. QED  BY <3>1, <3>2 DEF Data
    <2>2. CASE c.side # "local"
      BY <2>2 DEF CopyEntry
    <2>. QED  BY <2>1, <2>2
  <1>6. e.data \in Reachable
    BY <1>1, <1>5, HeldParts
  <1>. HIDE DEF k, e
  <1>7. Data(disk'[d]) \subseteq Reachable /\ Data(kept'[d]) \subseteq Reachable
    <2>1. /\ disk'[d] = disk[d] \/ disk'[d] = With(disk[d], c.copy, e)
          /\ kept'[d] = kept[d] \/ kept'[d] = With(kept[d], c.copy, e)
      BY <1>1, <1>2 DEF e
    <2>2. /\ Data(disk[d]) \subseteq Reachable /\ Data(kept[d]) \subseteq Reachable
      BY HeldParts
    <2>. QED  BY <1>6, <2>1, <2>2, DataOfTrees
  <1>. QED  BY <1>3, <1>4, <1>7, PassReach

LEMMA ApplyReach ==
  ASSUME TypeOK, NEW d \in Device, ApplyPath(d)
  PROVE  Held(d)' \subseteq Reachable
  <1>1. PICK p \in pass[d].todo :
          /\ disk' = [disk EXCEPT ![d] = Applied(disk[d], pass[d].merged, p)]
          /\ pass' = [pass EXCEPT ![d].todo = pass[d].todo \ {p}]
          /\ UNCHANGED kept
    BY DEF ApplyPath, NextPaths, Deletes, Applied
  <1>. DEFINE k == [pass[d] EXCEPT !.todo = pass[d].todo \ {p}]
  <1>2. PassOK(pass[d], Known) /\ pass = [x \in Device |-> pass[x]]
        /\ disk = [x \in Device |-> disk[x]]
    BY DeviceTypes DEF TypeOK, PassesOK, TreesOK
  <1>3. /\ k.remote = pass[d].remote /\ k.merged = pass[d].merged
        /\ k.copies = pass[d].copies
    BY <1>2 DEF PassOK
  <1>4. pass' = [pass EXCEPT ![d] = k]
    BY <1>1, <1>2
  <1>. HIDE DEF k
  <1>5. disk'[d] = Applied(disk[d], pass[d].merged, p)
    BY <1>1, <1>2
  <1>6. Data(disk'[d]) \subseteq Data(disk[d]) \cup Data(pass[d].merged)
    <2>1. CASE p \notin DOMAIN pass[d].merged
      BY <1>5, <2>1, DataOfTrees DEF Applied
    <2>2. CASE p \in DOMAIN pass[d].merged
      <3>1. pass[d].merged[p].data \in Data(pass[d].merged)
        BY <2>2 DEF Data
      <3>. QED  BY <1>5, <2>2, <3>1, DataOfTrees DEF Applied
    <2>. QED  BY <2>1, <2>2
  <1>7. Data(disk'[d]) \subseteq Reachable /\ Data(kept'[d]) \subseteq Reachable
    BY <1>1, <1>6, HeldParts
  <1>. QED  BY <1>3, <1>4, <1>7, PassReach

\* A step that only moves the pass on to another phase.
LEMMA PhaseReach ==
  ASSUME TypeOK, NEW d \in Device, UNCHANGED <<disk, kept>>,
         \/ \E f : pass' = [pass EXCEPT ![d].phase = f]
         \/ pass' = [pass EXCEPT ![d].phase = "committing", ![d].seq = @ + 1]
  PROVE  Held(d)' \subseteq Reachable
  <1>1. PassOK(pass[d], Known) /\ pass = [x \in Device |-> pass[x]]
    BY DeviceTypes DEF TypeOK, PassesOK
  <1>2. /\ pass'[d].remote = pass[d].remote /\ pass'[d].merged = pass[d].merged
        /\ pass'[d].copies = pass[d].copies
    BY <1>1 DEF PassOK
  <1>. QED  BY <1>2, HeldParts DEF Held

\* No step of a pass brings a content within reach.
LEMMA DeviceReach ==
  ASSUME TypeOK, UploadFaults = FALSE, NEW d \in Device, Step(d) \/ Fault(d)
  PROVE  Reachable' \subseteq Reachable
  <1>1. Data(RelayHead)' \subseteq Reachable
    <2>1. CASE heads' = heads
      BY <2>1, HeldParts DEF RelayHead
    <2>2. CASE heads' = Append(heads, pass[d].merged)
      <3>1. IsManifest(pass[d].merged, Known) /\ HeadsOK(Known)
        BY DeviceTypes DEF PassOK, TypeOK
      <3>2. Len(heads') # 0 /\ heads'[Len(heads')] = pass[d].merged
        BY <2>2, <3>1, HeadsStep
      <3>3. heads' # <<>>
        BY <3>2
      <3>4. RelayHead' = pass[d].merged
        BY <3>2, <3>3 DEF RelayHead
      <3>. QED  BY <3>4, HeldParts
    <2>3. heads' = heads \/ heads' = Append(heads, pass[d].merged)
      BY DEF Step, Fault, Begin, ScanAndMerge, MergeInvalid, MakeCopy, CopyVanished,
             StartApply, ApplyPath, ApplyBlocked, MoveBase, NothingToPublish, Publish,
             LoseRace, NoteHead, Commit, AnswerLost, Interrupt
    <2>. QED  BY <2>1, <2>2, <2>3
  <1>2. Held(d)' \subseteq Reachable
    <2>1. CASE Begin(d)             BY <2>1, FetchReach DEF Begin
    <2>2. CASE ScanAndMerge(d)      BY <2>2, ScanReach
    <2>3. CASE MergeInvalid(d)      BY <2>3, EndReach DEF MergeInvalid
    <2>4. CASE MakeCopy(d)          BY <2>4, CopyReach
    <2>5. CASE CopyVanished(d)      BY <2>5, EndReach DEF CopyVanished
    <2>6. CASE StartApply(d)        BY <2>6, PhaseReach DEF StartApply
    <2>7. CASE ApplyPath(d)         BY <2>7, ApplyReach
    <2>8. CASE ApplyBlocked(d)      BY <2>8, EndReach DEF ApplyBlocked
    <2>9. CASE MoveBase(d)          BY <2>9, PhaseReach DEF MoveBase
    <2>10. CASE NothingToPublish(d) BY <2>10, PhaseReach DEF NothingToPublish
    <2>11. CASE Publish(d)          BY <2>11, PhaseReach DEF Publish
    <2>12. CASE LoseRace(d)         BY <2>12, FetchReach, EndReach DEF LoseRace
    <2>13. CASE NoteHead(d)         BY <2>13, HeldParts DEF NoteHead, Held
    <2>14. CASE Commit(d)           BY <2>14, EndReach DEF Commit
    <2>15. CASE AnswerLost(d)       BY <2>15, EndReach DEF AnswerLost
    <2>16. CASE Interrupt(d)        BY <2>16, EndReach DEF Interrupt
    <2>. QED  BY <2>1, <2>2, <2>3, <2>4, <2>5, <2>6, <2>7, <2>8, <2>9, <2>10, <2>11,
                 <2>12, <2>13, <2>14, <2>15, <2>16 DEF Step, Fault
  <1>. QED  BY <1>1, <1>2, ReachStep

\* An edit brings the content it saves within reach, and no other.
LEMMA EditReach ==
  ASSUME TypeOK, NEW d \in Device, User(d)
  PROVE  Reachable' \subseteq Reachable \cup {edits + 1}
  <1>1. UNCHANGED <<heads, pass, kept>>
    BY DEF User, Save, Delete
  <1>2. Data(disk'[d]) \subseteq Data(disk[d]) \cup {edits + 1}
    BY UserTree DEF Data, Has
  <1>3. Data(RelayHead)' \subseteq Reachable
    BY <1>1, HeldParts DEF RelayHead
  <1>4. Held(d)' \subseteq Reachable \cup {edits + 1}
    BY <1>1, <1>2, HeldParts DEF Held
  <1>. QED  BY <1>3, <1>4, ReachStep

\* Whatever a content was written over, directly or not, is gone.
AuthorsGone == \A x \in DOMAIN author : author[x] \subseteq gone

LEMMA AuthorsStep ==
  ASSUME TypeOK, AuthorsGone, gone \subseteq gone',
         \E new \in SUBSET gone' : author' = Append(author, new)
  PROVE  AuthorsGone'
  <1>. PICK new \in SUBSET gone' : author' = Append(author, new)
    OBVIOUS
  <1>1. author \in Seq(SUBSET (1 .. edits)) /\ author \in Seq(SUBSET (1 .. edits) \cup {new})
    BY SeqMonotonic DEF TypeOK, HistoryOK
  <1>2. /\ DOMAIN author' = 1 .. Len(author) + 1 /\ DOMAIN author = 1 .. Len(author)
        /\ Len(author) \in Nat
        /\ \A x \in 1 .. Len(author) : author'[x] = author[x]
        /\ author'[Len(author) + 1] = new
    BY <1>1, AppendProperties, LenProperties
  <1>. QED  BY <1>2 DEF AuthorsGone

\* What an edit overwrites, by inheritance included.
LEMMA LineageFacts ==
  ASSUME TypeOK, AuthorsGone, NEW d \in Device, NEW p
  PROVE  /\ Lineage(d, p) \subseteq gone \cup Data(disk[d])
         /\ Lineage(d, p) \subseteq gone \cup Reachable
  <1>1. CASE p \in DOMAIN disk[d]
    <2>1. disk[d][p].data \in 1 .. edits /\ DOMAIN author = 1 .. Len(author) /\ Len(author) = edits
      BY <1>1, DeviceTypes, KnownData, LenProperties DEF TypeOK, HistoryOK
    <2>2. author[disk[d][p].data] \subseteq gone
      BY <2>1 DEF AuthorsGone
    <2>3. Lineage(d, p) \subseteq gone \cup Data(disk[d])
      BY <1>1, <2>2 DEF Lineage, Data
    <2>. QED  BY <2>3, HeldParts
  <1>2. CASE p \notin DOMAIN disk[d]
    BY <1>2 DEF Lineage
  <1>. QED  BY <1>1, <1>2

LEMMA AuthorsInit == Init => AuthorsGone
  BY DEF Init, AuthorsGone

LEMMA AuthorsKept == TypeOK /\ AuthorsGone /\ [Next]_vars => AuthorsGone'
  <1>. SUFFICES ASSUME TypeOK, AuthorsGone, [Next]_vars PROVE AuthorsGone'
    OBVIOUS
  <1>1. CASE UNCHANGED history
    BY <1>1 DEF history, AuthorsGone
  <1>2. ASSUME NEW d \in Device, NEW p, NEW t, Save(d, p, t) PROVE AuthorsGone'
    BY <1>2, AuthorsStep DEF Save
  <1>3. ASSUME NEW d \in Device, NEW p, Delete(d, p) PROVE AuthorsGone'
    <2>1. gone \subseteq gone' /\ \E new \in SUBSET gone' : author' = Append(author, new)
      BY <1>3 DEF Delete
    <2>. QED  BY <2>1, AuthorsStep
  <1>4. \/ UNCHANGED history
        \/ \E d \in Device, p \in UserPaths, t \in MTimes : Save(d, p, t)
        \/ \E d \in Device : \E p \in DOMAIN disk[d] : Delete(d, p)
    BY DEF vars, Next, Step, User, Fault, Begin, ScanAndMerge, MergeInvalid, MakeCopy,
           CopyVanished, StartApply, ApplyPath, ApplyBlocked, MoveBase, NothingToPublish,
           Publish, LoseRace, NoteHead, Commit, AnswerLost, Interrupt, history
  <1>. QED  BY <1>1, <1>2, <1>3, <1>4

LEMMA FolderInit == Init => SharedFolder!Init
  <1>. SUFFICES ASSUME Init PROVE SharedFolder!Init
    OBVIOUS
  <1>1. Data(RelayHead) = {}
    BY DataOfTrees DEF Init, RelayHead
  <1>2. \A d \in Device : Held(d) = {}
    <2>1. /\ Data(NoPass.remote) = {} /\ Data(NoPass.merged) = {} /\ NoPass.copies = {}
      BY DataOfTrees DEF NoPass
    <2>. HIDE DEF NoPass
    <2>. QED  BY <2>1, DataOfTrees DEF Init, Held
  <1>3. Reachable = {}
    BY <1>1, <1>2, ReachByDevice
  <1>. QED  BY <1>3 DEF Init, SharedFolder!Init

\* Housekeeping, or nothing.
LEMMA SyncStep ==
  ASSUME UNCHANGED <<edits, gone>>, Reachable' \subseteq Reachable, NoByteLost'
  PROVE  SharedFolder!Next
  <1>1. Wanted \subseteq Reachable'
    BY DEF NoByteLost, Wanted, Reachable
  <1>2. SharedFolder!Sync
    BY <1>1 DEF SharedFolder!Sync, SharedFolder!Wanted, Wanted
  <1>. QED  BY <1>2 DEF SharedFolder!Next

LEMMA EditStep ==
  ASSUME TypeOK, AuthorsGone, NoByteLost', NEW d \in Device, User(d)
  PROVE  SharedFolder!Next
  <1>1. edits' = edits + 1 /\ Reachable' \subseteq Reachable \cup {edits'}
    BY EditReach DEF User, Save, Delete
  <1>2. \E over \in SUBSET Reachable, none \in SUBSET {edits'} : gone' = gone \cup over \cup none
    <2>1. PICK p : \E none \in SUBSET {edits'} : gone' = gone \cup Lineage(d, p) \cup none
      <3>1. ASSUME NEW p, NEW t, Save(d, p, t)
            PROVE  gone' = gone \cup Lineage(d, p) \cup {}
        BY <3>1 DEF Save
      <3>2. ASSUME NEW p, Delete(d, p)
            PROVE  gone' = gone \cup Lineage(d, p) \cup {edits'}
        BY <3>2 DEF Delete
      <3>. QED  BY <3>1, <3>2 DEF User
    <2>2. PICK none \in SUBSET {edits'} : gone' = gone \cup Lineage(d, p) \cup none
      BY <2>1
    <2>. DEFINE over == Lineage(d, p) \cap Reachable
    <2>3. gone' = gone \cup over \cup none /\ over \in SUBSET Reachable
      BY <2>2, LineageFacts
    <2>. QED  BY <2>3
  <1>3. ((1 .. edits) \ gone)' \subseteq Reachable'
    BY DEF NoByteLost, Reachable
  <1>4. SharedFolder!Edit
    BY <1>1, <1>2, <1>3 DEF SharedFolder!Edit, SharedFolder!Wanted
  <1>. QED  BY <1>4 DEF SharedFolder!Next

\* Every step of the devices, the users and the faults is a step of the folder.
LEMMA FolderStep ==
  ASSUME UploadFaults = FALSE
  PROVE  TypeOK /\ AuthorsGone /\ NoByteLost' /\ [Next]_vars
            => [SharedFolder!Next]_(SharedFolder!vars)
  <1>. SUFFICES ASSUME TypeOK, AuthorsGone, NoByteLost', [Next]_vars
                PROVE  SharedFolder!Next \/ UNCHANGED SharedFolder!vars
    OBVIOUS
  <1>1. CASE UNCHANGED vars
    BY <1>1 DEF vars, SharedFolder!vars, Reachable, Live, RelayHead
  <1>2. ASSUME NEW d \in Device, Step(d) \/ Fault(d) PROVE SharedFolder!Next
    <2>1. UNCHANGED <<edits, gone>>
      BY <1>2, WantedStep
    <2>. QED  BY <1>2, <2>1, DeviceReach, SyncStep
  <1>3. ASSUME NEW d \in Device, User(d) PROVE SharedFolder!Next
    BY <1>3, EditStep
  <1>. QED  BY <1>1, <1>2, <1>3 DEF Next

\* README.md, what a converge promises: the devices together are one shared
\* folder, in which nothing wanted is lost and nothing that was gone everywhere
\* is brought back.
THEOREM DevicesShareOneFolder ==
  ASSUME NamesGrow, Undisturbed
  PROVE  Spec => ImplementsFolder
  <1>1. UploadFaults = FALSE
    BY DEF Undisturbed
  <1>2. Init => SharedFolder!Init
    BY FolderInit
  <1>3. TypeOK /\ AuthorsGone /\ NoByteLost' /\ [Next]_vars
            => [SharedFolder!Next]_(SharedFolder!vars)
    BY <1>1, FolderStep
  <1>4. Spec => []TypeOK
    BY TypeCorrect
  <1>5. Spec => []AuthorsGone
    BY <1>4, AuthorsInit, AuthorsKept, PTL DEF Spec
  <1>6. Spec => []NoByteLost
    BY NothingIsLost
  <1>. QED  BY <1>2, <1>3, <1>4, <1>5, <1>6, PTL DEF Spec, ImplementsFolder, SharedFolder!Spec

(***************************************************************************)
(* Conflicts are real, and the head never goes back.                       *)
(*                                                                         *)
(* Both are about one file a user edits, under its own name: nobody edits  *)
(* a conflict copy, and no file has the name of a directory, so an apply   *)
(* that has begun finishes (PlainNames).  As long as no pass is            *)
(* interrupted, what a device has of the file is what the base of its next *)
(* merge has, or an edit of its own that nobody else has ever had          *)
(* (Tracks).  The contents such an edit was written over were published no *)
(* later than that base, or are gone for good (Settled).                   *)
(***************************************************************************)

PlainNames ==
  /\ \A p \in Paths : \A who, stamp, n : CopyPath(p, who, stamp, n) \notin UserPaths
  /\ \A p, q \in Paths : p \notin Ancestors(q)

Is(m, p, a) == p \in DOMAIN m /\ m[p] = a

InHeads(p, a) == \E i \in DOMAIN heads : Is(heads[i], p, a)

Somewhere(p, a) ==
  InHeads(p, a) \/ \E e \in Device : Is(disk[e], p, a) \/ Is(pass[e].merged, p, a)

\* A content is of one edit of one file.
OneFile ==
  \A p, q \in UserPaths : \A a, b :
     Somewhere(p, a) /\ Somewhere(q, b) /\ a.data = b.data => p = q /\ a = b

\* Once replaced or removed, a content does not come back.
NoReturn ==
  \A p \in UserPaths : \A x : \A i \in DOMAIN heads, k \in DOMAIN heads, j \in DOMAIN heads :
     i <= k /\ k <= j /\ Has(heads[i], p, x) /\ Has(heads[j], p, x) => Has(heads[k], p, x)

Lost(p, z) == \A a : a.data = z => ~Somewhere(p, a)

\* What a published content was written over had been published, or never is.
HeadAuthors ==
  \A p \in UserPaths : \A j \in DOMAIN heads : \A a : Is(heads[j], p, a) =>
     \A z \in author[a.data] :
        Lost(p, z) \/ \E i \in DOMAIN heads : i <= j /\ Has(heads[i], p, z)

\* Content x is on no other device than d, and was never published.
Private(d, p, x) ==
  /\ \A i \in DOMAIN heads : ~Has(heads[i], p, x)
  /\ \A e \in Device : e # d => ~Has(disk[e], p, x) /\ ~Has(pass[e].merged, p, x)

Settled(d, p, z, k) ==
  \/ \E i \in DOMAIN heads : i <= k /\ Has(heads[i], p, z)
  \/ Private(d, p, z) /\ ~Has(disk[d], p, z)

Clean(d, p, x, k) == Private(d, p, x) /\ \A z \in author[x] : Settled(d, p, z, k)

Unseen(x) == \A z \in DOMAIN author : x \notin author[z]

Own(d, p, x, k) == Clean(d, p, x, k) /\ Unseen(x)

\* The file on d is as in the i-th head, or an edit since.
Tracks(d, p, i) ==
  \A a : Is(disk[d], p, a) => Is(HeadAt(heads, i), p, a) \/ Own(d, p, a.data, i)

\* The file on d is as in the merge of its pass, or an edit since.
TracksMerge(d, p, s) ==
  \A a : Is(disk[d], p, a) => Is(pass[d].merged, p, a) \/ Own(d, p, a.data, s)

\* The merge has the file as in the head it was made with, or an edit of d's.
MergesOwn(d, p, s) ==
  \A a : Is(pass[d].merged, p, a) => Is(pass[d].remote, p, a) \/ Clean(d, p, a.data, s)

\* What is left to apply comes from the remote.
AppliesRemote(d, p) ==
  \A a : Is(pass[d].merged, p, a) <=> Is(pass[d].remote, p, a)

Tracking(d) ==
  /\ pass[d].phase \notin {"applying", "committing"} =>
        \E i \in 0 .. Len(heads) :
           pointer[d] = HeadAt(heads, i) /\ \A p \in UserPaths : Tracks(d, p, i)
  /\ pass[d].phase = "fetched" =>
        \E i \in 0 .. pass[d].seq :
           pass[d].base = HeadAt(heads, i) /\ \A p \in UserPaths : Tracks(d, p, i)
  /\ pass[d].phase \in {"copying", "applying", "pushing", "committing"} =>
        \A p \in UserPaths, s \in {pass[d].seq} : p \notin pass[d].todo => Tracks(d, p, s)
  /\ pass[d].phase \in {"copying", "applying", "pushing"} =>
        \A p \in UserPaths, s \in {pass[d].seq} :
           /\ MergesOwn(d, p, s)
           /\ p \in pass[d].todo => AppliesRemote(d, p)
           /\ p \notin pass[d].todo => TracksMerge(d, p, s)
  /\ pass[d].phase = "copying" => \A c \in pass[d].copies : c.copy \notin UserPaths

\* A content is newer than those it was written over.
Older == \A x \in DOMAIN author : \A z \in author[x] : z < x

TrackInv ==
  /\ Older
  /\ faults = 0 => OneFile /\ NoReturn /\ HeadAuthors /\ \A e \in Device : Tracking(e)

(***************************************************************************)
(* What a step of a pass moves: a device writes what it has or what was    *)
(* published, and publishes what it merged.                                *)
(***************************************************************************)
Flows(d) ==
  /\ UNCHANGED <<edits, author>>
  /\ \A e \in Device : e # d =>
        pass'[e] = pass[e] /\ pointer'[e] = pointer[e] /\ disk'[e] = disk[e]
  /\ \A p \in UserPaths : \A a :
        /\ Is(disk'[d], p, a) => Is(disk[d], p, a) \/ InHeads(p, a)
        /\ Is(pass'[d].merged, p, a) =>
              Is(pass[d].merged, p, a) \/ Is(disk[d], p, a) \/ InHeads(p, a)
  /\ heads' = heads \/ (heads' = Append(heads, pass[d].merged)
                          /\ pass[d].phase = "pushing" /\ CasWins(d))

\* The heads after such a step.
LEMMA FlowHeads ==
  ASSUME LossInv, NEW d \in Device, Flows(d)
  PROVE  /\ Len(heads) \in Nat /\ Len(heads') \in Nat /\ Len(heads) <= Len(heads')
         /\ DOMAIN heads = 1 .. Len(heads) /\ DOMAIN heads' = 1 .. Len(heads')
         /\ \A i \in DOMAIN heads : i \in DOMAIN heads' /\ heads'[i] = heads[i]
         /\ \A i \in DOMAIN heads' : i \in DOMAIN heads \/ heads'[i] = pass[d].merged
         /\ \A i \in 0 .. Len(heads) : HeadAt(heads', i) = HeadAt(heads, i)
  <1>1. HeadsOK(Known) /\ IsManifest(pass[d].merged, Known)
    BY LossFacts DEF TypeOK, PassOK
  <1>2. Len(heads) \in Nat /\ DOMAIN heads = 1 .. Len(heads)
    BY LossFacts
  <1>3. CASE heads' = heads
    BY <1>2, <1>3
  <1>4. CASE heads' = Append(heads, pass[d].merged)
    <2>1. /\ Len(heads') = Len(heads) + 1 /\ DOMAIN heads' = 1 .. Len(heads')
          /\ \A i \in DOMAIN heads : heads'[i] = heads[i]
          /\ heads'[Len(heads')] = pass[d].merged
      BY <1>1, <1>4, HeadsStep
    <2>2. \A i \in DOMAIN heads' : i \in DOMAIN heads \/ i = Len(heads')
      BY <1>2, <2>1
    <2>3. \A i \in DOMAIN heads : i \in DOMAIN heads'
      BY <1>2, <2>1
    <2>4. \A i \in 0 .. Len(heads) : HeadAt(heads', i) = HeadAt(heads, i)
      BY <1>2, <2>1 DEF HeadAt
    <2>. QED  BY <1>2, <2>1, <2>2, <2>3, <2>4
  <1>. QED  BY <1>3, <1>4 DEF Flows

\* The same in terms of contents.
LEMMA FlowContents ==
  ASSUME LossInv, NEW d \in Device, Flows(d), NEW p \in UserPaths, NEW x,
         \A i \in DOMAIN heads : ~Has(heads[i], p, x)
  PROVE  /\ Has(disk'[d], p, x) => Has(disk[d], p, x)
         /\ Has(pass'[d].merged, p, x) => Has(pass[d].merged, p, x) \/ Has(disk[d], p, x)
         /\ \A i \in DOMAIN heads' : Has(heads'[i], p, x) =>
               Has(pass[d].merged, p, x) /\ heads' # heads
  <1>1. \A a : InHeads(p, a) => a.data # x
    BY DEF InHeads, Is, Has
  <1>2. Has(disk'[d], p, x) => Has(disk[d], p, x)
    BY <1>1 DEF Flows, Has, Is
  <1>3. Has(pass'[d].merged, p, x) => Has(pass[d].merged, p, x) \/ Has(disk[d], p, x)
    BY <1>1 DEF Flows, Has, Is
  <1>. QED  BY <1>2, <1>3, FlowHeads

\* What is private to a device stays so, until that device publishes it.
LEMMA PrivateKept ==
  ASSUME LossInv, NEW d \in Device, Flows(d), NEW p \in UserPaths, NEW e \in Device, NEW x,
         Private(e, p, x), e = d => heads' = heads \/ ~Has(pass[d].merged, p, x)
  PROVE  Private(e, p, x)'
  <1>1. \A i \in DOMAIN heads : ~Has(heads[i], p, x)
    BY DEF Private
  <1>2. e # d => ~Has(disk[d], p, x) /\ ~Has(pass[d].merged, p, x)
    BY DEF Private
  <1>3. \A i \in DOMAIN heads' : ~Has(heads'[i], p, x)
    BY <1>1, <1>2, FlowContents
  <1>4. \A c \in Device : c # e => ~Has(disk'[c], p, x) /\ ~Has(pass'[c].merged, p, x)
    <2>. SUFFICES ASSUME NEW c \in Device, c # e
                  PROVE  ~Has(disk'[c], p, x) /\ ~Has(pass'[c].merged, p, x)
      OBVIOUS
    <2>1. CASE c # d
      BY <2>1 DEF Flows, Private
    <2>2. CASE c = d
      BY <1>1, <1>2, <2>2, FlowContents
    <2>. QED  BY <2>1, <2>2
  <1>. QED  BY <1>3, <1>4 DEF Private

LEMMA SettledKept ==
  ASSUME LossInv, NEW d \in Device, Flows(d), NEW p \in UserPaths, NEW e \in Device,
         NEW z, NEW k, Settled(e, p, z, k),
         e = d => heads' = heads \/ ~Has(pass[d].merged, p, z)
  PROVE  Settled(e, p, z, k)'
  <1>1. CASE \E i \in DOMAIN heads : i <= k /\ Has(heads[i], p, z)
    BY <1>1, FlowHeads DEF Settled
  <1>2. CASE Private(e, p, z) /\ ~Has(disk[e], p, z)
    <2>1. Private(e, p, z)'
      BY <1>2, PrivateKept
    <2>2. ~Has(disk'[e], p, z)
      <3>1. CASE e # d
        BY <1>2, <3>1 DEF Flows
      <3>2. CASE e = d
        BY <1>2, <3>2, FlowContents DEF Private
      <3>. QED  BY <3>1, <3>2
    <2>. QED  BY <2>1, <2>2 DEF Settled
  <1>. QED  BY <1>1, <1>2 DEF Settled

LEMMA OwnKept ==
  ASSUME LossInv, NEW d \in Device, Flows(d), NEW p \in UserPaths, NEW e \in Device,
         NEW x, NEW k, e # d \/ heads' = heads
  PROVE  /\ Clean(e, p, x, k) => Clean(e, p, x, k)'
         /\ Own(e, p, x, k) => Own(e, p, x, k)'
  <1>1. author' = author
    BY DEF Flows
  <1>2. ASSUME Clean(e, p, x, k) PROVE Clean(e, p, x, k)'
    <2>1. Private(e, p, x)'
      BY <1>2, PrivateKept DEF Clean
    <2>2. \A z \in author[x] : Settled(e, p, z, k)'
      BY <1>2, SettledKept DEF Clean
    <2>. QED  BY <1>1, <2>1, <2>2 DEF Clean
  <1>3. Unseen(x)' <=> Unseen(x)
    BY <1>1 DEF Unseen
  <1>. QED  BY <1>2, <1>3 DEF Own

\* A device whose file is unchanged or gone still tracks the heads it tracked.
LEMMA TracksKept ==
  ASSUME LossInv, NEW d \in Device, Flows(d), NEW p \in UserPaths, NEW e \in Device,
         e # d \/ heads' = heads,
         \A a : Is(disk'[e], p, a) => Is(disk[e], p, a), NEW i \in 0 .. Len(heads),
         Tracks(e, p, i)
  PROVE  Tracks(e, p, i)'
  <1>1. HeadAt(heads', i) = HeadAt(heads, i)
    BY FlowHeads
  <1>2. ASSUME NEW a, Is(disk'[e], p, a)
        PROVE  Is(HeadAt(heads', i), p, a) \/ Own(e, p, a.data, i)'
    <2>1. Is(HeadAt(heads, i), p, a) \/ Own(e, p, a.data, i)
      BY <1>2 DEF Tracks
    <2>. DEFINE x == a.data
    <2>2. Own(e, p, x, i) => Own(e, p, x, i)'
      <3>. HIDE DEF x
      <3>. QED  BY OwnKept
    <2>. QED  BY <1>1, <2>1, <2>2
  <1>. QED  BY <1>2 DEF Tracks

LEMMA MergeKept ==
  ASSUME LossInv, NEW d \in Device, Flows(d), NEW p \in UserPaths, NEW e \in Device,
         e # d \/ heads' = heads,
         pass'[e].merged = pass[e].merged, pass'[e].remote = pass[e].remote, NEW s
  PROVE  /\ MergesOwn(e, p, s) => MergesOwn(e, p, s)'
         /\ AppliesRemote(e, p) => AppliesRemote(e, p)'
         /\ TracksMerge(e, p, s) /\ (\A a : Is(disk'[e], p, a) => Is(disk[e], p, a))
               => TracksMerge(e, p, s)'
  <1>1. \A x : (Clean(e, p, x, s) => Clean(e, p, x, s)') /\ (Own(e, p, x, s) => Own(e, p, x, s)')
    BY OwnKept
  <1>2. ASSUME MergesOwn(e, p, s), NEW a, Is(pass'[e].merged, p, a)
        PROVE  Is(pass'[e].remote, p, a) \/ Clean(e, p, a.data, s)'
    <2>1. Is(pass[e].remote, p, a) \/ Clean(e, p, a.data, s)
      BY <1>2 DEF MergesOwn
    <2>. DEFINE x == a.data
    <2>2. Clean(e, p, x, s) => Clean(e, p, x, s)'
      <3>. HIDE DEF x
      <3>. QED  BY <1>1
    <2>. QED  BY <2>1, <2>2
  <1>3. ASSUME TracksMerge(e, p, s), \A a : Is(disk'[e], p, a) => Is(disk[e], p, a),
               NEW a, Is(disk'[e], p, a)
        PROVE  Is(pass'[e].merged, p, a) \/ Own(e, p, a.data, s)'
    <2>1. Is(pass[e].merged, p, a) \/ Own(e, p, a.data, s)
      BY <1>3 DEF TracksMerge
    <2>. DEFINE x == a.data
    <2>2. Own(e, p, x, s) => Own(e, p, x, s)'
      <3>. HIDE DEF x
      <3>. QED  BY <1>1
    <2>. QED  BY <2>1, <2>2
  <1>. QED  BY <1>2, <1>3 DEF MergesOwn, AppliesRemote, TracksMerge

\* Nothing that is nowhere comes back.
LEMMA SomewhereKept ==
  ASSUME LossInv, NEW d \in Device, Flows(d), NEW p \in UserPaths, NEW a, Somewhere(p, a)'
  PROVE  Somewhere(p, a)
  <1>1. CASE InHeads(p, a)'
    <2>1. PICK i \in DOMAIN heads' : Is(heads'[i], p, a)
      BY <1>1 DEF InHeads
    <2>2. Is(pass[d].merged, p, a) \/ InHeads(p, a)
      BY <2>1, FlowHeads DEF InHeads
    <2>. QED  BY <2>2 DEF Somewhere
  <1>2. CASE \E e \in Device : Is(disk'[e], p, a) \/ Is(pass'[e].merged, p, a)
    <2>1. PICK e \in Device : Is(disk'[e], p, a) \/ Is(pass'[e].merged, p, a)
      BY <1>2
    <2>2. CASE e # d
      BY <2>1, <2>2 DEF Flows, Somewhere
    <2>3. CASE e = d
      BY <2>1, <2>3 DEF Flows, Somewhere
    <2>. QED  BY <2>2, <2>3
  <1>. QED  BY <1>1, <1>2 DEF Somewhere

LEMMA OneFileKept ==
  ASSUME LossInv, NEW d \in Device, Flows(d), OneFile
  PROVE  OneFile'
  BY SomewhereKept DEF OneFile

LEMMA LostKept ==
  ASSUME LossInv, NEW d \in Device, Flows(d), NEW p \in UserPaths, NEW z, Lost(p, z)
  PROVE  Lost(p, z)'
  BY SomewhereKept DEF Lost

\* What the other devices keep when one moves.
LEMMA OthersTrack ==
  ASSUME LossInv, NEW d \in Device, Flows(d), NEW e \in Device, e # d, Tracking(e)
  PROVE  Tracking(e)'
  <1>1. pass'[e] = pass[e] /\ pointer'[e] = pointer[e] /\ disk'[e] = disk[e]
    BY DEF Flows
  <1>2. /\ Len(heads) \in Nat /\ Len(heads') \in Nat /\ Len(heads) <= Len(heads')
        /\ \A i \in 0 .. Len(heads) : HeadAt(heads', i) = HeadAt(heads, i)
    BY FlowHeads
  <1>3. \A p \in UserPaths, i \in 0 .. Len(heads) : Tracks(e, p, i) => Tracks(e, p, i)'
    BY <1>1, TracksKept
  <1>4. \A p \in UserPaths : \A s :
           /\ MergesOwn(e, p, s) => MergesOwn(e, p, s)'
           /\ AppliesRemote(e, p) => AppliesRemote(e, p)'
           /\ TracksMerge(e, p, s) => TracksMerge(e, p, s)'
    BY <1>1, MergeKept
  <1>5. pass[e].phase # "idle" => pass[e].seq \in 0 .. Len(heads)
    <2>1. pass[e].phase \notin {"idle", "committing"} => pass[e].seq \in 0 .. Len(heads)
      BY LossFacts
    <2>2. pass[e].phase = "committing" => pass[e].seq \in 0 .. Len(heads)
      BY <1>2, LossFacts DEF LossInv, BaseInv, CommitsTheHead
    <2>. QED  BY <2>1, <2>2
  <1>6. \A i \in 0 .. Len(heads) : i \in 0 .. Len(heads')
    BY <1>2
  <1>7. ASSUME pass[e].phase \notin {"applying", "committing"}
        PROVE  \E i \in 0 .. Len(heads') :
                  pointer[e] = HeadAt(heads', i) /\ \A p \in UserPaths : Tracks(e, p, i)'
    <2>1. PICK i \in 0 .. Len(heads) :
             pointer[e] = HeadAt(heads, i) /\ \A p \in UserPaths : Tracks(e, p, i)
      BY <1>7 DEF Tracking
    <2>. QED  BY <1>2, <1>3, <1>6, <2>1
  <1>8. ASSUME pass[e].phase = "fetched"
        PROVE  \E i \in 0 .. pass[e].seq :
                  pass[e].base = HeadAt(heads', i) /\ \A p \in UserPaths : Tracks(e, p, i)'
    <2>1. PICK i \in 0 .. pass[e].seq :
             pass[e].base = HeadAt(heads, i) /\ \A p \in UserPaths : Tracks(e, p, i)
      BY <1>8 DEF Tracking
    <2>2. i \in 0 .. Len(heads)
      BY <1>2, <1>5, <1>8
    <2>. QED  BY <1>2, <1>3, <2>1, <2>2
  <1>9. ASSUME pass[e].phase \in {"copying", "applying", "pushing", "committing"},
               NEW p \in UserPaths, p \notin pass[e].todo, NEW s \in {pass[e].seq}
        PROVE  Tracks(e, p, s)'
    <2>1. Tracks(e, p, s) /\ s \in 0 .. Len(heads)
      BY <1>5, <1>9 DEF Tracking
    <2>. QED  BY <1>3, <2>1
  <1>10. ASSUME pass[e].phase \in {"copying", "applying", "pushing"},
                NEW p \in UserPaths, NEW s \in {pass[e].seq}
         PROVE  /\ MergesOwn(e, p, s)'
                /\ p \in pass[e].todo => AppliesRemote(e, p)'
                /\ p \notin pass[e].todo => TracksMerge(e, p, s)'
    <2>1. /\ MergesOwn(e, p, s)
          /\ p \in pass[e].todo => AppliesRemote(e, p)
          /\ p \notin pass[e].todo => TracksMerge(e, p, s)
      BY <1>10 DEF Tracking
    <2>. QED  BY <1>4, <2>1
  <1>11. pass[e].phase = "copying" => \A c \in pass[e].copies : c.copy \notin UserPaths
    BY DEF Tracking
  <1>. QED  BY <1>1, <1>7, <1>8, <1>9, <1>10, <1>11 DEF Tracking

\* A step that leaves the heads alone leaves what is said of them.
LEMMA HeadsSettled ==
  ASSUME LossInv, NEW d \in Device, Flows(d), heads' = heads
  PROVE  /\ NoReturn => NoReturn'
         /\ HeadAuthors => HeadAuthors'
  <1>1. author' = author
    BY DEF Flows
  <1>2. \A p \in UserPaths : \A z : Lost(p, z) => Lost(p, z)'
    BY LostKept
  <1>. QED  BY <1>1, <1>2 DEF NoReturn, HeadAuthors

\* A step of a pass that leaves the heads alone keeps the invariant if the
\* device still tracks.
LEMMA TrackStep ==
  ASSUME LossInv, TrackInv, faults' = 0, faults = 0, NEW d \in Device, Flows(d), heads' = heads,
         Tracking(d)'
  PROVE  TrackInv'
  <1>1. OneFile' /\ NoReturn' /\ HeadAuthors'
    BY OneFileKept, HeadsSettled DEF TrackInv
  <1>2. \A e \in Device : Tracking(e)'
    BY OthersTrack DEF TrackInv
  <1>3. Older'
    BY DEF TrackInv, Older, Flows
  <1>. QED  BY <1>1, <1>2, <1>3 DEF TrackInv

\* What is Own with the i-th head is so with every later one.
LEMMA OwnLater ==
  ASSUME NEW d, NEW p, NEW x, NEW i \in Nat, NEW k \in Nat, i <= k,
         DOMAIN heads \subseteq Nat
  PROVE  /\ Clean(d, p, x, i) => Clean(d, p, x, k)
         /\ Own(d, p, x, i) => Own(d, p, x, k)
  <1>1. ASSUME NEW z, Settled(d, p, z, i) PROVE Settled(d, p, z, k)
    <2>1. ASSUME NEW j \in DOMAIN heads, j <= i PROVE j <= k
      BY <2>1
    <2>. QED  BY <1>1, <2>1 DEF Settled
  <1>. QED  BY <1>1 DEF Clean, Own

\* A manifest a head holds at p.
LEMMA HeadsHave ==
  ASSUME LossInv, NEW i \in 0 .. Len(heads), NEW p, NEW a, Is(HeadAt(heads, i), p, a)
  PROVE  i \in DOMAIN heads /\ Is(heads[i], p, a) /\ InHeads(p, a)
  <1>1. DOMAIN heads = 1 .. Len(heads)
    BY LenProperties DEF LossInv, BaseInv, TypeOK, HeadsOK
  <1>2. i # 0
    BY DEF HeadAt, Is, Empty
  <1>. QED  BY <1>1, <1>2 DEF HeadAt, InHeads

\* A pass that ends or starts over, with a base the device tracks.
LEMMA RestartTracks ==
  ASSUME LossInv, NEW d \in Device, UNCHANGED <<heads, edits, author, disk>>,
         NEW y, pass' = [pass EXCEPT ![d] = y], y.merged = Empty,
         NEW b, pointer' = [pointer EXCEPT ![d] = b],
         \E i \in 0 .. Len(heads) : b = HeadAt(heads, i) /\ \A p \in UserPaths : Tracks(d, p, i),
         \/ y.phase = "idle"
         \/ /\ y.phase = "fetched" /\ y.seq = Len(heads)
            /\ \E i \in 0 .. Len(heads) :
                  y.base = HeadAt(heads, i) /\ \A p \in UserPaths : Tracks(d, p, i)
  PROVE  Flows(d) /\ Tracking(d)'
  <1>1. /\ pass'[d] = y /\ pointer'[d] = b
        /\ \A e \in Device : e # d => pass'[e] = pass[e] /\ pointer'[e] = pointer[e]
    BY LossFacts
  <1>2. \A p, a : ~Is(y.merged, p, a)
    BY DEF Is, Empty
  <1>3. Flows(d)
    BY <1>1, <1>2 DEF Flows
  <1>4. \A p \in UserPaths, i \in 0 .. Len(heads) : Tracks(d, p, i) => Tracks(d, p, i)'
    BY <1>3, TracksKept
  <1>5. \E i \in 0 .. Len(heads') : pointer'[d] = HeadAt(heads', i) /\ \A p \in UserPaths : Tracks(d, p, i)'
    BY <1>1, <1>4
  <1>6. y.phase = "fetched" => \E i \in 0 .. pass'[d].seq :
           pass'[d].base = HeadAt(heads', i) /\ \A p \in UserPaths : Tracks(d, p, i)'
    BY <1>1, <1>4
  <1>. QED  BY <1>1, <1>3, <1>5, <1>6 DEF Tracking

\* The phases in which the pointer of a device is one it tracks.
LEMMA PointerTracked ==
  ASSUME TrackInv, faults = 0, NEW d \in Device, pass[d].phase \notin {"applying", "committing"}
  PROVE  \E i \in 0 .. Len(heads) :
            pointer[d] = HeadAt(heads, i) /\ \A p \in UserPaths : Tracks(d, p, i)
  BY DEF TrackInv, Tracking

LEMMA BeginTracks ==
  ASSUME LossInv, TrackInv, faults = 0, NEW d \in Device, Begin(d)
  PROVE  Flows(d) /\ Tracking(d)' /\ heads' = heads /\ faults' = 0
  <1>1. PICK s \in Stamps : Fetch(d, pointer[d], s, 1)
    BY DEF Begin
  <1>. DEFINE y == [phase |-> "fetched", stamp |-> s, attempt |-> 1,
                    base |-> pointer[d], remote |-> RelayHead, seq |-> Len(heads),
                    merged |-> Empty, copies |-> {}, todo |-> {}]
  <1>2. /\ pass' = [pass EXCEPT ![d] = y]
        /\ UNCHANGED <<heads, edits, author, disk, pointer>> /\ faults' = 0
        /\ pass[d].phase = "idle"
    BY <1>1 DEF Begin, Fetch, history
  <1>3. y.merged = Empty /\ y.phase = "fetched" /\ y.base = pointer[d] /\ y.seq = Len(heads)
    OBVIOUS
  <1>4. pointer' = [pointer EXCEPT ![d] = pointer[d]]
    BY <1>2, LossFacts
  <1>5. \E i \in 0 .. Len(heads) :
            pointer[d] = HeadAt(heads, i) /\ \A p \in UserPaths : Tracks(d, p, i)
    BY <1>2, PointerTracked
  <1>. HIDE DEF y
  <1>6. Flows(d) /\ Tracking(d)'
    BY <1>2, <1>3, <1>4, <1>5, RestartTracks
  <1>. QED  BY <1>2, <1>6

\* An attempt that lost the race takes the head it merged with as its base.
LEMMA LoseRaceTracks ==
  ASSUME LossInv, TrackInv, faults = 0, NEW d \in Device, LoseRace(d)
  PROVE  Flows(d) /\ Tracking(d)' /\ heads' = heads /\ faults' = 0
  <1>. DEFINE k == pass[d]
              y == IF k.attempt < MaxAttempts
                   THEN [phase |-> "fetched", stamp |-> k.stamp, attempt |-> k.attempt + 1,
                         base |-> k.remote, remote |-> RelayHead, seq |-> Len(heads),
                         merged |-> Empty, copies |-> {}, todo |-> {}]
                   ELSE NoPass
  <1>1. /\ pass' = [pass EXCEPT ![d] = y]
        /\ UNCHANGED <<heads, edits, author, disk, pointer>> /\ faults' = 0
        /\ k.phase = "pushing"
    BY DEF LoseRace, Fetch, history
  <1>2. /\ y.merged = Empty
        /\ \/ y.phase = "idle"
           \/ y.phase = "fetched" /\ y.base = k.remote /\ y.seq = Len(heads)
    BY DEF NoPass
  <1>3. pointer' = [pointer EXCEPT ![d] = pointer[d]]
    BY <1>1, LossFacts
  <1>4. \E i \in 0 .. Len(heads) :
            pointer[d] = HeadAt(heads, i) /\ \A p \in UserPaths : Tracks(d, p, i)
    BY <1>1, PointerTracked
  <1>5. \E i \in 0 .. Len(heads) :
            k.remote = HeadAt(heads, i) /\ \A p \in UserPaths : Tracks(d, p, i)
    <2>1. k.seq \in 0 .. Len(heads) /\ k.remote = HeadAt(heads, k.seq) /\ k.todo = {}
      BY <1>1, LossFacts DEF PassKept
    <2>2. \A p \in UserPaths : Tracks(d, p, k.seq)
      BY <1>1, <2>1 DEF TrackInv, Tracking
    <2>. QED  BY <2>1, <2>2
  <1>. HIDE DEF y, k
  <1>6. Flows(d) /\ Tracking(d)'
    BY <1>1, <1>2, <1>3, <1>4, <1>5, RestartTracks
  <1>. QED  BY <1>1, <1>6

\* A pass that fails before it has moved anything.
LEMMA FailTracks ==
  ASSUME LossInv, TrackInv, faults = 0, NEW d \in Device,
         MergeInvalid(d) \/ CopyVanished(d)
  PROVE  Flows(d) /\ Tracking(d)' /\ heads' = heads /\ faults' = 0
  <1>1. /\ pass' = [pass EXCEPT ![d] = NoPass]
        /\ UNCHANGED <<heads, edits, author, disk, pointer>> /\ faults' = 0
        /\ pass[d].phase \in {"fetched", "copying"}
    BY DEF MergeInvalid, CopyVanished, history
  <1>2. NoPass.merged = Empty /\ NoPass.phase = "idle"
    BY DEF NoPass
  <1>3. pointer' = [pointer EXCEPT ![d] = pointer[d]]
    BY <1>1, LossFacts
  <1>4. \E i \in 0 .. Len(heads) :
            pointer[d] = HeadAt(heads, i) /\ \A p \in UserPaths : Tracks(d, p, i)
    BY <1>1, PointerTracked
  <1>5. Flows(d) /\ Tracking(d)'
    BY <1>1, <1>2, <1>3, <1>4, RestartTracks
  <1>. QED  BY <1>1, <1>5

\* commit: the pointer becomes the head of the sequence the pass committed.
LEMMA CommitTracks ==
  ASSUME LossInv, TrackInv, faults = 0, NEW d \in Device, Commit(d)
  PROVE  Flows(d) /\ Tracking(d)' /\ heads' = heads /\ faults' = 0
  <1>. DEFINE k == pass[d]
  <1>1. /\ pass' = [pass EXCEPT ![d] = NoPass]
        /\ pointer' = [pointer EXCEPT ![d] = k.merged]
        /\ UNCHANGED <<heads, edits, author, disk>> /\ faults' = 0
        /\ k.phase = "committing"
    BY DEF Commit, history
  <1>2. NoPass.merged = Empty /\ NoPass.phase = "idle"
    BY DEF NoPass
  <1>3. k.seq \in 1 .. Len(heads) /\ k.merged = HeadAt(heads, k.seq) /\ k.todo = {}
    <2>1. k.seq \in DOMAIN heads /\ k.merged = heads[k.seq]
      BY <1>1 DEF LossInv, BaseInv, CommitsTheHead
    <2>. QED  BY <1>1, <2>1, LossFacts DEF PassKept, HeadAt
  <1>4. \A p \in UserPaths : Tracks(d, p, k.seq)
    BY <1>1, <1>3 DEF TrackInv, Tracking
  <1>5. \E i \in 0 .. Len(heads) :
            k.merged = HeadAt(heads, i) /\ \A p \in UserPaths : Tracks(d, p, i)
    BY <1>3, <1>4
  <1>. HIDE DEF k
  <1>6. Flows(d) /\ Tracking(d)'
    BY <1>1, <1>2, <1>5, RestartTracks
  <1>. QED  BY <1>1, <1>6

\* A pass that moves on to a later phase with the merge it has.
LEMMA OnwardTracks ==
  ASSUME LossInv, TrackInv, faults = 0, NEW d \in Device,
         UNCHANGED <<heads, edits, author, disk>>,
         NEW f \in {"applying", "pushing", "committing"},
         pass' = [pass EXCEPT ![d].phase = f],
         NEW b, pointer' = [pointer EXCEPT ![d] = b],
         f \notin {"applying", "committing"} =>
            \E i \in 0 .. Len(heads) : b = HeadAt(heads, i) /\ \A p \in UserPaths : Tracks(d, p, i),
         \/ pass[d].phase \in {"copying", "applying", "pushing"}
         \/ pass[d].phase = "committing" /\ f = "committing"
  PROVE  Flows(d) /\ Tracking(d)'
  <1>. DEFINE k == pass[d]  y == [k EXCEPT !.phase = f]
  <1>1. /\ pass'[d] = y /\ pointer'[d] = b
        /\ \A e \in Device : e # d => pass'[e] = pass[e] /\ pointer'[e] = pointer[e]
    BY LossFacts
  <1>2. /\ y.phase = f /\ y.remote = k.remote /\ y.seq = k.seq /\ y.merged = k.merged
        /\ y.todo = k.todo
    BY LossFacts, PassFields
  <1>. HIDE DEF y
  <1>3. Flows(d)
    BY <1>1, <1>2 DEF Flows
  <1>4. \A p \in UserPaths, i \in 0 .. Len(heads) : Tracks(d, p, i) => Tracks(d, p, i)'
    BY <1>3, TracksKept
  <1>5. \A p \in UserPaths : \A s :
           /\ MergesOwn(d, p, s) => MergesOwn(d, p, s)'
           /\ AppliesRemote(d, p) => AppliesRemote(d, p)'
           /\ TracksMerge(d, p, s) => TracksMerge(d, p, s)'
    BY <1>1, <1>2, <1>3, MergeKept
  <1>6. k.seq \in 0 .. Len(heads)
    <2>1. k.phase = "committing" => k.seq \in DOMAIN heads
      BY DEF LossInv, BaseInv, CommitsTheHead
    <2>. QED  BY <2>1, LossFacts
  <1>7. f \notin {"applying", "committing"} => \E i \in 0 .. Len(heads') :
           pointer'[d] = HeadAt(heads', i) /\ \A p \in UserPaths : Tracks(d, p, i)'
    BY <1>1, <1>4
  <1>8. \A p \in UserPaths, s \in {pass'[d].seq} : p \notin pass'[d].todo => Tracks(d, p, s)'
    BY <1>1, <1>2, <1>4, <1>6 DEF TrackInv, Tracking
  <1>9. f # "committing" => \A p \in UserPaths, s \in {pass'[d].seq} :
           /\ MergesOwn(d, p, s)'
           /\ p \in pass'[d].todo => AppliesRemote(d, p)'
           /\ p \notin pass'[d].todo => TracksMerge(d, p, s)'
    BY <1>1, <1>2, <1>5 DEF TrackInv, Tracking
  <1>. QED  BY <1>1, <1>2, <1>3, <1>7, <1>8, <1>9 DEF Tracking

LEMMA StartApplyTracks ==
  ASSUME LossInv, TrackInv, faults = 0, NEW d \in Device, StartApply(d)
  PROVE  Flows(d) /\ Tracking(d)' /\ heads' = heads /\ faults' = 0
  <1>. DEFINE f == IF pass[d].todo = {} THEN "pushing" ELSE "applying"
  <1>1. /\ UNCHANGED <<heads, edits, author, disk, pointer>> /\ faults' = 0
        /\ pass' = [pass EXCEPT ![d].phase = f] /\ pass[d].phase = "copying"
    BY DEF StartApply, history
  <1>2. f \in {"applying", "pushing", "committing"}
    OBVIOUS
  <1>. HIDE DEF f
  <1>3. pointer' = [pointer EXCEPT ![d] = pointer[d]]
    BY <1>1, LossFacts
  <1>4. \E i \in 0 .. Len(heads) :
            pointer[d] = HeadAt(heads, i) /\ \A p \in UserPaths : Tracks(d, p, i)
    BY <1>1, PointerTracked
  <1>5. Flows(d) /\ Tracking(d)'
    BY <1>1, <1>2, <1>3, <1>4, OnwardTracks
  <1>. QED  BY <1>1, <1>5

LEMMA MoveBaseTracks ==
  ASSUME LossInv, TrackInv, faults = 0, NEW d \in Device, MoveBase(d)
  PROVE  Flows(d) /\ Tracking(d)' /\ heads' = heads /\ faults' = 0
  <1>. DEFINE k == pass[d]
  <1>1. /\ UNCHANGED <<heads, edits, author, disk>> /\ faults' = 0
        /\ pass' = [pass EXCEPT ![d].phase = "pushing"]
        /\ pointer' = [pointer EXCEPT ![d] = k.remote]
        /\ k.phase = "applying" /\ k.todo = {}
    BY DEF MoveBase, history
  <1>2. k.seq \in 0 .. Len(heads) /\ k.remote = HeadAt(heads, k.seq)
    BY <1>1, LossFacts
  <1>3. \A p \in UserPaths : Tracks(d, p, k.seq)
    BY <1>1 DEF TrackInv, Tracking
  <1>4. \E i \in 0 .. Len(heads) :
            k.remote = HeadAt(heads, i) /\ \A p \in UserPaths : Tracks(d, p, i)
    BY <1>2, <1>3
  <1>5. Flows(d) /\ Tracking(d)'
    BY <1>1, <1>4, OnwardTracks
  <1>. QED  BY <1>1, <1>5

LEMMA AgreedTracks ==
  ASSUME LossInv, TrackInv, faults = 0, NEW d \in Device, NothingToPublish(d)
  PROVE  Flows(d) /\ Tracking(d)' /\ heads' = heads /\ faults' = 0
  <1>1. /\ UNCHANGED <<heads, edits, author, disk, pointer>> /\ faults' = 0
        /\ pass' = [pass EXCEPT ![d].phase = "committing"] /\ pass[d].phase = "pushing"
    BY DEF NothingToPublish, history
  <1>2. pointer' = [pointer EXCEPT ![d] = pointer[d]]
    BY <1>1, LossFacts
  <1>3. Flows(d) /\ Tracking(d)'
    BY <1>1, <1>2, OnwardTracks
  <1>. QED  BY <1>1, <1>3

LEMMA NoteHeadTracks ==
  ASSUME LossInv, TrackInv, faults = 0, NEW d \in Device, NoteHead(d)
  PROVE  Flows(d) /\ Tracking(d)' /\ heads' = heads /\ faults' = 0
  <1>1. /\ UNCHANGED <<heads, edits, author, disk, pointer, pass>> /\ faults' = 0
        /\ pass[d].phase = "committing"
    BY DEF NoteHead, history
  <1>2. pass' = [pass EXCEPT ![d].phase = "committing"]
    <2>1. pass[d] = [pass[d] EXCEPT !.phase = "committing"]
      BY <1>1, LossFacts DEF PassOK
    <2>. QED  BY <1>1, <2>1, LossFacts
  <1>3. pointer' = [pointer EXCEPT ![d] = pointer[d]]
    BY <1>1, LossFacts
  <1>4. Flows(d) /\ Tracking(d)'
    BY <1>1, <1>2, <1>3, OnwardTracks
  <1>. QED  BY <1>1, <1>4

\* A copy that is still to be made has a name no user gives.
LEMMA CopyTracks ==
  ASSUME LossInv, TrackInv, faults = 0, NEW d \in Device, MakeCopy(d)
  PROVE  Flows(d) /\ Tracking(d)' /\ heads' = heads /\ faults' = 0
  <1>. DEFINE k == pass[d]  m == disk[d]
  <1>1. /\ UNCHANGED <<heads, edits, author, pointer>> /\ faults' = 0 /\ k.phase = "copying"
    BY DEF MakeCopy, history
  <1>2. PICK c \in k.copies :
          /\ ~c.localOnly => disk' = [disk EXCEPT ![d] = With(m, c.copy, CopyEntry(d, c))]
          /\ pass' = [pass EXCEPT ![d].copies = k.copies \ {c}]
    BY DEF MakeCopy
  <1>. DEFINE n == With(m, c.copy, CopyEntry(d, c))
              y == [k EXCEPT !.copies = k.copies \ {c}]
  <1>3. ~c.localOnly
    BY <1>1, LossFacts DEF PassKept, ToCopy
  <1>4. /\ disk'[d] = n /\ \A e \in Device : e # d => disk'[e] = disk[e]
        /\ pass'[d] = y /\ \A e \in Device : e # d => pass'[e] = pass[e]
    BY <1>2, <1>3, LossFacts
  <1>5. /\ y.phase = "copying" /\ y.remote = k.remote /\ y.seq = k.seq /\ y.merged = k.merged
        /\ y.todo = k.todo /\ y.copies \subseteq k.copies
    BY <1>1, LossFacts, PassFields
  <1>6. \A h \in k.copies : h.copy \notin UserPaths
    BY <1>1 DEF TrackInv, Tracking
  <1>7. \A p \in UserPaths : \A a : Is(n, p, a) => Is(m, p, a)
    BY <1>6 DEF Is, With
  <1>. HIDE DEF n, y
  <1>8. Flows(d)
    BY <1>1, <1>4, <1>5, <1>7 DEF Flows
  <1>9. \A p \in UserPaths, i \in 0 .. Len(heads) : Tracks(d, p, i) => Tracks(d, p, i)'
    BY <1>1, <1>4, <1>7, <1>8, TracksKept
  <1>10. \A p \in UserPaths : \A s :
           /\ MergesOwn(d, p, s) => MergesOwn(d, p, s)'
           /\ AppliesRemote(d, p) => AppliesRemote(d, p)'
           /\ TracksMerge(d, p, s) => TracksMerge(d, p, s)'
    BY <1>1, <1>4, <1>5, <1>7, <1>8, MergeKept
  <1>11. k.seq \in 0 .. Len(heads)
    BY <1>1, LossFacts
  <1>12. \E i \in 0 .. Len(heads') :
           pointer'[d] = HeadAt(heads', i) /\ \A p \in UserPaths : Tracks(d, p, i)'
    <2>1. \E i \in 0 .. Len(heads) :
            pointer[d] = HeadAt(heads, i) /\ \A p \in UserPaths : Tracks(d, p, i)
      BY <1>1, PointerTracked
    <2>. QED  BY <1>1, <1>9, <2>1
  <1>13. \A p \in UserPaths, s \in {pass'[d].seq} : p \notin pass'[d].todo => Tracks(d, p, s)'
    BY <1>1, <1>4, <1>5, <1>9, <1>11 DEF TrackInv, Tracking
  <1>14. \A p \in UserPaths, s \in {pass'[d].seq} :
           /\ MergesOwn(d, p, s)'
           /\ p \in pass'[d].todo => AppliesRemote(d, p)'
           /\ p \notin pass'[d].todo => TracksMerge(d, p, s)'
    BY <1>1, <1>4, <1>5, <1>10 DEF TrackInv, Tracking
  <1>. QED  BY <1>1, <1>4, <1>5, <1>6, <1>8, <1>12, <1>13, <1>14 DEF Tracking

\* What the apply writes at a user's path comes from the remote.
LEMMA ApplyTracks ==
  ASSUME LossInv, TrackInv, faults = 0, NEW d \in Device, ApplyPath(d)
  PROVE  Flows(d) /\ Tracking(d)' /\ heads' = heads /\ faults' = 0
  <1>. DEFINE k == pass[d]  m == disk[d]
  <1>1. /\ UNCHANGED <<heads, edits, author, pointer>> /\ faults' = 0 /\ k.phase = "applying"
    BY DEF ApplyPath, history
  <1>2. PICK q \in k.todo :
          /\ disk' = [disk EXCEPT ![d] = Applied(m, k.merged, q)]
          /\ pass' = [pass EXCEPT ![d].todo = k.todo \ {q}]
    BY DEF ApplyPath, NextPaths, Deletes, Applied
  <1>. DEFINE n == Applied(m, k.merged, q)
              y == [k EXCEPT !.todo = k.todo \ {q}]
  <1>3. /\ disk'[d] = n /\ \A e \in Device : e # d => disk'[e] = disk[e]
        /\ pass'[d] = y /\ \A e \in Device : e # d => pass'[e] = pass[e]
    BY <1>2, LossFacts
  <1>4. /\ y.phase = "applying" /\ y.remote = k.remote /\ y.seq = k.seq /\ y.merged = k.merged
        /\ y.todo = k.todo \ {q}
    BY <1>1, LossFacts, PassFields
  <1>5. /\ \A p, a : p # q => (Is(n, p, a) => Is(m, p, a))
        /\ \A a : Is(n, q, a) => Is(k.merged, q, a)
    <2>1. /\ \A p \in DOMAIN n : p # q => p \in DOMAIN m /\ n[p] = m[p]
          /\ q \in DOMAIN n => q \in DOMAIN k.merged /\ n[q] = k.merged[q]
      BY AppliedTree
    <2>. QED  BY <2>1 DEF Is
  <1>6. k.seq \in 0 .. Len(heads) /\ k.remote = HeadAt(heads, k.seq)
    BY <1>1, LossFacts
  <1>7. ASSUME q \in UserPaths, NEW a, Is(n, q, a)
        PROVE  Is(k.merged, q, a) /\ Is(HeadAt(heads, k.seq), q, a) /\ InHeads(q, a)
    <2>1. AppliesRemote(d, q)
      BY <1>1, <1>7 DEF TrackInv, Tracking
    <2>2. Is(k.merged, q, a) /\ Is(HeadAt(heads, k.seq), q, a)
      BY <1>5, <1>6, <1>7, <2>1 DEF AppliesRemote
    <2>. QED  BY <1>6, <2>2, HeadsHave
  <1>. HIDE DEF n, y
  <1>8. Flows(d)
    <2>1. \A p \in UserPaths : \A a : Is(n, p, a) => Is(m, p, a) \/ InHeads(p, a)
      BY <1>5, <1>7
    <2>. QED  BY <1>1, <1>3, <1>4, <2>1 DEF Flows
  <1>9. ASSUME NEW p \in UserPaths, NEW s \in {k.seq}, p \notin y.todo
        PROVE  Tracks(d, p, s)' /\ TracksMerge(d, p, s)'
    <2>1. CASE p # q
      <3>1. p \notin k.todo
        BY <1>4, <1>9, <2>1
      <3>2. Tracks(d, p, s) /\ TracksMerge(d, p, s)
        BY <1>1, <3>1 DEF TrackInv, Tracking
      <3>3. \A a : Is(disk'[d], p, a) => Is(disk[d], p, a)
        BY <1>3, <1>5, <2>1
      <3>4. Tracks(d, p, s)'
        BY <1>1, <1>6, <1>8, <3>2, <3>3, TracksKept
      <3>5. TracksMerge(d, p, s)'
        BY <1>1, <1>3, <1>4, <1>8, <3>2, <3>3, MergeKept
      <3>. QED  BY <3>4, <3>5
    <2>2. CASE p = q
      BY <1>1, <1>3, <1>4, <1>7, <2>2 DEF Tracks, TracksMerge
    <2>. QED  BY <2>1, <2>2
  <1>10. ASSUME NEW p \in UserPaths, NEW s \in {k.seq}
         PROVE  MergesOwn(d, p, s)' /\ (p \in y.todo => AppliesRemote(d, p)')
    <2>1. MergesOwn(d, p, s) /\ (p \in k.todo => AppliesRemote(d, p))
      BY <1>1 DEF TrackInv, Tracking
    <2>2. /\ MergesOwn(d, p, s) => MergesOwn(d, p, s)'
          /\ AppliesRemote(d, p) => AppliesRemote(d, p)'
      BY <1>1, <1>3, <1>4, <1>8, MergeKept
    <2>. QED  BY <1>4, <2>1, <2>2
  <1>11. \A p \in UserPaths, s \in {pass'[d].seq} :
           /\ MergesOwn(d, p, s)'
           /\ p \in pass'[d].todo => AppliesRemote(d, p)'
           /\ p \notin pass'[d].todo => TracksMerge(d, p, s)' /\ Tracks(d, p, s)'
    BY <1>3, <1>4, <1>9, <1>10
  <1>. QED  BY <1>1, <1>3, <1>4, <1>8, <1>11 DEF Tracking

\* What is still to be applied has the names of files.
TodoNamed == \A e \in Device : pass[e].todo \subseteq Paths

LEMMA TodoInit == Init => TodoNamed
  BY DEF Init, NoPass, TodoNamed

LEMMA TodoStep == LossInv /\ LossInv' /\ TodoNamed /\ [Next]_vars => TodoNamed'
  <1>. SUFFICES ASSUME LossInv, LossInv', TodoNamed, [Next]_vars PROVE TodoNamed'
    OBVIOUS
  <1>1. CASE UNCHANGED vars
    BY <1>1 DEF vars, TodoNamed
  <1>2. ASSUME NEW d \in Device, Step(d) \/ User(d) \/ Fault(d),
               pass'[d].todo \subseteq Paths
        PROVE  TodoNamed'
    BY <1>2, LossFacts, OthersStay DEF TodoNamed
  <1>3. ASSUME NEW d \in Device, ScanAndMerge(d)
        PROVE  pass'[d].todo \subseteq Paths
    <2>1. PICK failed \in MayFail(d) :
            LET local == Scan(d, failed)
                out   == Merge3(pass[d].base, local, pass[d].remote,
                                d, pass[d].stamp)
            IN  pass' = [pass EXCEPT ![d].phase  = "copying",
                                     ![d].merged = out.merged,
                                     ![d].copies = CopiesToMake(out.conflicts),
                                     ![d].todo   = ApplyFromRemote(local, out)]
      BY <1>3, Zenon DEF ScanAndMerge
    <2>. DEFINE local == Scan(d, failed)
                out == Merge3(pass[d].base, local, pass[d].remote, d, pass[d].stamp)
                m == out.merged
                cs == CopiesToMake(out.conflicts)
                t == ApplyFromRemote(local, out)
    <2>2. pass' = [pass EXCEPT ![d].phase = "copying", ![d].merged = m,
                               ![d].copies = cs, ![d].todo = t]
      BY <2>1
    <2>3. t \subseteq DOMAIN local \cup DOMAIN m
      <3>. HIDE DEF local, out
      <3>. QED  BY DEF ApplyFromRemote, Diff
    <2>4. DOMAIN local \subseteq Paths
      <3>1. failed \subseteq DOMAIN disk[d] /\ DOMAIN disk[d] \subseteq Paths
        BY LossFacts DEF MayFail, Small
      <3>. QED  BY <3>1 DEF Scan
    <2>. HIDE DEF local, m, cs, t
    <2>5. PassOK(pass[d], Known) /\ pass = [e \in Device |-> pass[e]]
      BY LossFacts
    <2>. DEFINE x1 == [pass[d] EXCEPT !.phase = "copying"]
                x2 == [x1 EXCEPT !.merged = m]
                x3 == [x2 EXCEPT !.copies = cs]
                x4 == [x3 EXCEPT !.todo = t]
    <2>6. pass'[d] = x4
      BY <2>2, <2>5
    <2>7. x1 = [phase |-> x1.phase, stamp |-> x1.stamp, attempt |-> x1.attempt,
                base |-> x1.base, remote |-> x1.remote, seq |-> x1.seq,
                merged |-> x1.merged, copies |-> x1.copies, todo |-> x1.todo]
      BY <2>5 DEF PassOK
    <2>. HIDE DEF x1
    <2>8. x2 = [phase |-> x2.phase, stamp |-> x2.stamp, attempt |-> x2.attempt,
                base |-> x2.base, remote |-> x2.remote, seq |-> x2.seq,
                merged |-> m, copies |-> x2.copies, todo |-> x2.todo]
      BY <2>7
    <2>. HIDE DEF x2
    <2>9. x3 = [phase |-> x3.phase, stamp |-> x3.stamp, attempt |-> x3.attempt,
                base |-> x3.base, remote |-> x3.remote, seq |-> x3.seq,
                merged |-> m, copies |-> x3.copies, todo |-> x3.todo]
      BY <2>8
    <2>. HIDE DEF x3
    <2>10. pass'[d].merged = m /\ pass'[d].todo = t
      BY <2>6, <2>9
    <2>11. DOMAIN m \subseteq Paths
      BY <2>10 DEF LossInv, Shape, Small
    <2>. QED  BY <2>3, <2>4, <2>10, <2>11
  <1>4. ASSUME NEW d \in Device, NEW y, pass' = [pass EXCEPT ![d] = y],
               y.todo \subseteq pass[d].todo
        PROVE  pass'[d].todo \subseteq Paths
    BY <1>4, LossFacts DEF TodoNamed
  <1>5. ASSUME NEW d \in Device, Step(d) \/ User(d) \/ Fault(d), ~ScanAndMerge(d)
        PROVE  pass'[d].todo \subseteq Paths
    <2>. DEFINE k == pass[d]
    <2>1. PassOK(k, Known) /\ pass = [e \in Device |-> pass[e]]
      BY LossFacts
    <2>2. \/ pass' = pass
          \/ pass' = [pass EXCEPT ![d] = NoPass]
          \/ \E base, stamp, attempt : Fetch(d, base, stamp, attempt)
          \/ \E f : pass' = [pass EXCEPT ![d].phase = f]
          \/ \E f : pass' = [pass EXCEPT ![d].phase = f, ![d].seq = k.seq + 1]
          \/ \E c : pass' = [pass EXCEPT ![d].copies = c]
          \/ \E p : pass' = [pass EXCEPT ![d].todo = k.todo \ {p}]
      BY <1>5 DEF Step, User, Fault, Save, Delete, Begin, MergeInvalid, MakeCopy,
             CopyVanished, StartApply, ApplyPath, ApplyBlocked, MoveBase,
             NothingToPublish, Publish, LoseRace, NoteHead, Commit, AnswerLost, Interrupt
    <2>3. \/ pass' = pass
          \/ \E y : pass' = [pass EXCEPT ![d] = y] /\ y.todo \subseteq k.todo
      <3>1. ASSUME NEW f, pass' = [pass EXCEPT ![d].phase = f]
            PROVE  \E y : pass' = [pass EXCEPT ![d] = y] /\ y.todo \subseteq k.todo
        <4>. DEFINE y == [k EXCEPT !.phase = f]
        <4>1. pass' = [pass EXCEPT ![d] = y]
          BY <2>1, <3>1
        <4>2. y.todo = k.todo
          BY <2>1 DEF PassOK
        <4>. QED  BY <4>1, <4>2
      <3>2. ASSUME NEW f, pass' = [pass EXCEPT ![d].phase = f, ![d].seq = k.seq + 1]
            PROVE  \E y : pass' = [pass EXCEPT ![d] = y] /\ y.todo \subseteq k.todo
        <4>. DEFINE y == [k EXCEPT !.phase = f, !.seq = k.seq + 1]
        <4>1. pass' = [pass EXCEPT ![d] = y] /\ y.todo = k.todo
          BY <2>1, <3>2 DEF PassOK
        <4>. QED  BY <4>1
      <3>3. ASSUME NEW c, pass' = [pass EXCEPT ![d].copies = c]
            PROVE  \E y : pass' = [pass EXCEPT ![d] = y] /\ y.todo \subseteq k.todo
        <4>. DEFINE y == [k EXCEPT !.copies = c]
        <4>1. pass' = [pass EXCEPT ![d] = y]
          BY <2>1, <3>3
        <4>2. y.todo = k.todo
          BY <2>1 DEF PassOK
        <4>. QED  BY <4>1, <4>2
      <3>4. ASSUME NEW p, pass' = [pass EXCEPT ![d].todo = k.todo \ {p}]
            PROVE  \E y : pass' = [pass EXCEPT ![d] = y] /\ y.todo \subseteq k.todo
        <4>. DEFINE y == [k EXCEPT !.todo = k.todo \ {p}]
        <4>1. pass' = [pass EXCEPT ![d] = y]
          BY <2>1, <3>4
        <4>2. y.todo = k.todo \ {p}
          BY <2>1 DEF PassOK
        <4>. QED  BY <4>1, <4>2
      <3>. QED  BY <2>2, <3>1, <3>2, <3>3, <3>4, Zenon DEF Fetch, NoPass
    <2>. QED  BY <1>4, <2>3 DEF TodoNamed
  <1>6. CASE Next
    BY <1>2, <1>3, <1>5, <1>6 DEF Next
  <1>. QED  BY <1>1, <1>6

\* No file is in the way of the apply.
LEMMA NeverBlocked ==
  ASSUME LossInv, TodoNamed, PlainNames, NEW d \in Device
  PROVE  ~ApplyBlocked(d)
  <1>. SUFFICES ASSUME ApplyBlocked(d) PROVE FALSE
    OBVIOUS
  <1>1. PICK q : q \in pass[d].todo /\ ~Fits(disk[d], q)
    BY DEF ApplyBlocked, NextPaths
  <1>2. q \in Paths /\ DOMAIN disk[d] \subseteq Paths
    BY <1>1, LossFacts DEF Small, TodoNamed
  <1>. QED  BY <1>1, <1>2 DEF Fits, PlainNames

\* At a file of a user's the merge is the verdict of the rule table, for no
\* copy takes its name, and the apply takes it from the remote or leaves it.
LEMMA MergeAtFile ==
  ASSUME NamesGrow, PlainNames, NEW base, NEW local, NEW remote, NEW d, NEW stamp,
         Merging(local, remote, d, stamp), NEW p \in UserPaths
  PROVE  LET out == Merge3(base, local, remote, d, stamp)
             todo == ApplyFromRemote(local, out)
         IN  /\ \A a : Is(out.merged, p, a) => Is(local, p, a) \/ Is(remote, p, a)
             /\ \A a : Is(out.merged, p, a) /\ Is(base, p, a) => Is(remote, p, a)
             /\ p \in todo => \A a : Is(out.merged, p, a) <=> Is(remote, p, a)
             /\ p \notin todo => \A a : Is(local, p, a) <=> Is(out.merged, p, a)
             /\ \A c \in out.conflicts : c.copy \notin UserPaths
  <1>. DEFINE out == Merge3(base, local, remote, d, stamp)
              todo == ApplyFromRemote(local, out)
              b == At(base, p)  l == At(local, p)  r == At(remote, p)
  <1>1. IsTree(local, Entry) /\ IsTree(remote, Entry) /\ Entry \subseteq Entry
    BY MergingTrees
  <1>2. MergeFacts(base, local, remote, out) /\ IsManifest(out.merged, Entry)
    BY <1>1, MergedAt, MergedIsManifest DEF IsTree
  <1>3. \A c \in out.conflicts : c.copy \notin UserPaths
    <2>. SUFFICES ASSUME NEW c \in out.conflicts PROVE c.copy \notin UserPaths
      OBVIOUS
    <2>1. c \in Conflicts(base, local, remote, d, stamp)
      BY DEF Merge3
    <2>2. /\ c.path \in DOMAIN local
          /\ \E w \in {d, Remote}, n \in Nat : c.copy = CopyPath(c.path, w, stamp, n)
      BY <1>1, <2>1, ConflictFacts
    <2>3. c.path \in Paths
      BY <2>2 DEF Merging, Small
    <2>. QED  BY <2>2, <2>3 DEF PlainNames
  <1>. HIDE DEF out
  <1>4. At(out.merged, p) = Decide(b, l, r).win
    <2>1. CASE p \in DOMAIN local \cup DOMAIN remote
      BY <1>2, <2>1 DEF MergeFacts, Verdict
    <2>2. CASE p \notin DOMAIN local \cup DOMAIN remote
      <3>1. p \notin DOMAIN out.merged
        BY <1>2, <1>3, <2>2 DEF MergeFacts
      <3>. QED  BY <2>2, <3>1 DEF At, Decide, Wins
    <2>. QED  BY <2>1, <2>2
  <1>5. /\ l # Absent => l \in Entry
        /\ r # Absent => r \in Entry
    BY <1>1 DEF At, IsTree, IsManifest
  <1>6. Decide(b, l, r).win \in {l, r}
    BY <1>5, DecideIsASide
  <1>7. Decide(b, l, r).win = b => b = r
    <2>1. CASE l = r \/ r = b
      BY <2>1 DEF Decide, Wins
    <2>2. CASE l # r /\ r # b /\ l = b
      BY <2>2 DEF Decide, Wins
    <2>3. CASE l # r /\ r # b /\ l # b
      BY <1>6, <2>3
    <2>. QED  BY <2>1, <2>2, <2>3
  <1>8. /\ \A a : Is(local, p, a) <=> l = a /\ a # Absent
        /\ \A a : Is(remote, p, a) <=> r = a /\ a # Absent
        /\ \A a : Is(out.merged, p, a) <=> At(out.merged, p) = a /\ a # Absent
    <2>1. \A m : IsManifest(m, Entry) => \A a : Is(m, p, a) <=> At(m, p) = a /\ a # Absent
      BY AbsentAssumption DEF IsManifest, Is, At
    <2>. QED  BY <1>1, <1>2, <2>1 DEF IsTree
  <1>9. \A a : Is(base, p, a) => b = a
    BY DEF Is, At
  <1>10. p \in todo => At(out.merged, p) = r
    <2>1. p \in Diff(local, out.merged) => At(out.merged, p) # l
      BY DEF Diff
    <2>. QED  BY <1>4, <1>6, <2>1 DEF ApplyFromRemote
  <1>11. p \notin todo => At(out.merged, p) = l
    <2>1. p \notin todo => p \notin Diff(local, out.merged)
      BY <1>3 DEF ApplyFromRemote
    <2>2. p \notin Diff(local, out.merged) => At(out.merged, p) = l
      BY DEF Diff, At
    <2>. QED  BY <2>1, <2>2
  <1>. HIDE DEF l, r, b, todo
  <1>12. \A a : Is(out.merged, p, a) => Is(local, p, a) \/ Is(remote, p, a)
    BY <1>4, <1>6, <1>8
  <1>13. \A a : Is(out.merged, p, a) /\ Is(base, p, a) => Is(remote, p, a)
    BY <1>4, <1>7, <1>8, <1>9
  <1>14. p \in todo => \A a : Is(out.merged, p, a) <=> Is(remote, p, a)
    BY <1>8, <1>10
  <1>15. p \notin todo => \A a : Is(local, p, a) <=> Is(out.merged, p, a)
    BY <1>8, <1>11
  <1>. QED  BY <1>3, <1>12, <1>13, <1>14, <1>15 DEF out, todo

\* The scan sees what the device tracks, so what the merge does not take from
\* the remote is an edit of the device's.
LEMMA ScanTracks ==
  ASSUME LossInv, TrackInv, faults = 0, NamesGrow, Undisturbed, PlainNames,
         NEW d \in Device, ScanAndMerge(d)
  PROVE  Flows(d) /\ Tracking(d)' /\ heads' = heads /\ faults' = 0
  <1>1. /\ UNCHANGED <<heads, edits, author, disk, pointer>> /\ faults' = 0
        /\ pass[d].phase = "fetched"
    BY DEF ScanAndMerge, history
  <1>. DEFINE k == pass[d]
              local == disk[d]
              out == Merge3(k.base, local, k.remote, d, k.stamp)
              t == ApplyFromRemote(local, out)
              cs == CopiesToMake(out.conflicts)
              m == out.merged
  <1>2. /\ pass'[d].phase = "copying" /\ pass'[d].remote = k.remote /\ pass'[d].seq = k.seq
        /\ pass'[d].merged = m /\ pass'[d].copies = cs /\ pass'[d].todo = t
        /\ \A e \in Device : e # d => pass'[e] = pass[e]
    BY ScannedPass
  <1>3. Merging(local, k.remote, d, k.stamp)
    BY ScannedPass
  <1>4. PICK i \in 0 .. k.seq : k.base = HeadAt(heads, i) /\ \A p \in UserPaths : Tracks(d, p, i)
    BY <1>1 DEF TrackInv, Tracking
  <1>5. /\ k.seq \in 0 .. Len(heads) /\ k.remote = HeadAt(heads, k.seq)
        /\ i \in 0 .. Len(heads) /\ DOMAIN heads \subseteq Nat
        /\ i \in Nat /\ k.seq \in Nat /\ i <= k.seq
    BY <1>1, LossFacts
  <1>6. ASSUME NEW p \in UserPaths
        PROVE  /\ \A a : Is(m, p, a) => Is(local, p, a) \/ Is(k.remote, p, a)
               /\ \A a : Is(m, p, a) /\ Is(k.base, p, a) => Is(k.remote, p, a)
               /\ p \in t => \A a : Is(m, p, a) <=> Is(k.remote, p, a)
               /\ p \notin t => \A a : Is(local, p, a) <=> Is(m, p, a)
               /\ \A c \in cs : c.copy \notin UserPaths
    <2>1. \A c \in cs : c \in out.conflicts
      BY DEF CopiesToMake
    <2>2. /\ \A a : Is(m, p, a) => Is(local, p, a) \/ Is(k.remote, p, a)
          /\ \A a : Is(m, p, a) /\ Is(k.base, p, a) => Is(k.remote, p, a)
          /\ p \in t => \A a : Is(m, p, a) <=> Is(k.remote, p, a)
          /\ p \notin t => \A a : Is(local, p, a) <=> Is(m, p, a)
          /\ \A c \in out.conflicts : c.copy \notin UserPaths
      BY <1>3, MergeAtFile
    <2>. QED  BY <2>1, <2>2
  <1>. HIDE DEF out, t, cs, m, local
  <1>7. ASSUME NEW p \in UserPaths, NEW a, Is(m, p, a), ~Is(k.remote, p, a)
        PROVE  Is(local, p, a) /\ \A s \in {k.seq} : Own(d, p, a.data, s) /\ Clean(d, p, a.data, s)
    <2>1. Is(local, p, a) /\ ~Is(k.base, p, a)
      BY <1>6, <1>7
    <2>2. Own(d, p, a.data, i)
      BY <1>4, <2>1 DEF Tracks, local
    <2>3. Own(d, p, a.data, i) => \A s \in {k.seq} : Own(d, p, a.data, s)
      <3>. DEFINE x == a.data
      <3>. HIDE DEF x
      <3>1. Own(d, p, x, i) => \A s \in {k.seq} : Own(d, p, x, s)
        BY <1>5, OwnLater
      <3>. QED  BY <3>1 DEF x
    <2>. QED  BY <2>1, <2>2, <2>3 DEF Own
  <1>8. Flows(d)
    <2>1. \A p \in UserPaths : \A a : Is(k.remote, p, a) => InHeads(p, a)
      BY <1>5, HeadsHave
    <2>2. \A p \in UserPaths : \A a : Is(m, p, a) => Is(local, p, a) \/ InHeads(p, a)
      BY <1>6, <2>1
    <2>. QED  BY <1>1, <1>2, <2>2 DEF Flows, local
  <1>9. \A p \in UserPaths, j \in 0 .. Len(heads) : Tracks(d, p, j) => Tracks(d, p, j)'
    BY <1>1, <1>8, TracksKept
  <1>10. \A p, x, s : /\ Clean(d, p, x, s) /\ p \in UserPaths => Clean(d, p, x, s)'
                      /\ Own(d, p, x, s) /\ p \in UserPaths => Own(d, p, x, s)'
    BY <1>1, <1>8, OwnKept
  <1>11. \E j \in 0 .. Len(heads') :
           pointer'[d] = HeadAt(heads', j) /\ \A p \in UserPaths : Tracks(d, p, j)'
    <2>1. \E j \in 0 .. Len(heads) :
            pointer[d] = HeadAt(heads, j) /\ \A p \in UserPaths : Tracks(d, p, j)
      BY <1>1, PointerTracked
    <2>. QED  BY <1>1, <1>9, <2>1
  <1>12. ASSUME NEW p \in UserPaths, NEW s \in {k.seq} PROVE MergesOwn(d, p, s)'
    <2>. SUFFICES ASSUME NEW a, Is(m, p, a), ~Is(k.remote, p, a)
                  PROVE  Clean(d, p, a.data, s)'
      BY <1>2 DEF MergesOwn
    <2>1. Clean(d, p, a.data, s)
      BY <1>7
    <2>2. Clean(d, p, a.data, s) => Clean(d, p, a.data, s)'
      <3>. DEFINE x == a.data
      <3>. HIDE DEF x
      <3>1. Clean(d, p, x, s) => Clean(d, p, x, s)'
        BY <1>10
      <3>. QED  BY <3>1 DEF x
    <2>. QED  BY <2>1, <2>2
  <1>13. ASSUME NEW p \in UserPaths, p \in t PROVE AppliesRemote(d, p)'
    BY <1>2, <1>6, <1>13 DEF AppliesRemote
  <1>14. ASSUME NEW p \in UserPaths, p \notin t, NEW s
         PROVE TracksMerge(d, p, s)'
    BY <1>1, <1>2, <1>6, <1>14 DEF TracksMerge, local
  <1>15. ASSUME NEW p \in UserPaths, NEW s \in {k.seq}, p \notin t PROVE Tracks(d, p, s)'
    <2>. SUFFICES ASSUME NEW a, Is(local, p, a), ~Is(HeadAt(heads, s), p, a)
                  PROVE  Own(d, p, a.data, s)'
      BY <1>1 DEF Tracks, local
    <2>1. Own(d, p, a.data, s)
      BY <1>5, <1>6, <1>7, <1>15
    <2>2. Own(d, p, a.data, s) => Own(d, p, a.data, s)'
      <3>. DEFINE x == a.data
      <3>. HIDE DEF x
      <3>1. Own(d, p, x, s) => Own(d, p, x, s)'
        BY <1>10
      <3>. QED  BY <3>1 DEF x
    <2>. QED  BY <2>1, <2>2
  <1>16. \A c \in pass'[d].copies : c.copy \notin UserPaths
    <2>1. CASE UserPaths = {}
      BY <2>1
    <2>2. CASE \E p : p \in UserPaths
      BY <1>2, <1>6, <2>2
    <2>. QED  BY <2>1, <2>2
  <1>17. \A p \in UserPaths, s \in {pass'[d].seq} :
           /\ MergesOwn(d, p, s)'
           /\ p \in pass'[d].todo => AppliesRemote(d, p)'
           /\ p \notin pass'[d].todo => TracksMerge(d, p, s)' /\ Tracks(d, p, s)'
    BY <1>2, <1>12, <1>13, <1>14, <1>15
  <1>18. Tracking(d)'
    BY <1>2, <1>11, <1>16, <1>17 DEF Tracking
  <1>. QED  BY <1>1, <1>8, <1>18

(***************************************************************************)
(* The publication: what the device has of its own becomes the head's.     *)
(***************************************************************************)

\* The head a pass publishes over, and what its merge took from it.
LEMMA PublishFacts ==
  ASSUME LossInv, TrackInv, faults = 0, NEW d \in Device,
         pass[d].phase = "pushing", CasWins(d), heads' = Append(heads, pass[d].merged)
  PROVE  /\ Len(heads) \in Nat /\ DOMAIN heads = 1 .. Len(heads)
         /\ DOMAIN heads' = 1 .. Len(heads) + 1 /\ Len(heads') = Len(heads) + 1
         /\ \A i \in DOMAIN heads : heads'[i] = heads[i]
         /\ heads'[Len(heads) + 1] = pass[d].merged
         /\ pass[d].seq = Len(heads) /\ pass[d].remote = HeadAt(heads, Len(heads))
         /\ pass[d].todo = {}
         /\ \A p \in UserPaths : \A s \in {Len(heads)} :
               MergesOwn(d, p, s) /\ TracksMerge(d, p, s)
  <1>1. HeadsOK(Known) /\ IsManifest(pass[d].merged, Known)
    BY LossFacts DEF TypeOK, PassOK
  <1>2. Len(heads) \in Nat /\ DOMAIN heads = 1 .. Len(heads)
    BY LossFacts
  <1>3. /\ Len(heads') = Len(heads) + 1 /\ DOMAIN heads' = 1 .. Len(heads')
        /\ \A i \in DOMAIN heads : heads'[i] = heads[i]
        /\ heads'[Len(heads')] = pass[d].merged
    BY <1>1, HeadsStep
  <1>4. pass[d].seq = Len(heads) /\ pass[d].remote = HeadAt(heads, Len(heads))
    BY LossFacts DEF CasWins
  <1>5. pass[d].todo = {}
    BY LossFacts DEF PassKept
  <1>6. \A p \in UserPaths : \A s \in {Len(heads)} : MergesOwn(d, p, s) /\ TracksMerge(d, p, s)
    BY <1>4, <1>5 DEF TrackInv, Tracking
  <1>. QED  BY <1>2, <1>3, <1>4, <1>5, <1>6

\* What is published at a path was in the last head, or is an edit of the
\* device's, which no head ever had.
LEMMA PublishedAt ==
  ASSUME LossInv, TrackInv, faults = 0, NEW d \in Device,
         pass[d].phase = "pushing", CasWins(d), heads' = Append(heads, pass[d].merged),
         NEW p \in UserPaths, NEW a, Is(pass[d].merged, p, a)
  PROVE  \/ /\ Len(heads) \in DOMAIN heads /\ Is(heads[Len(heads)], p, a)
         \/ \A s \in {Len(heads)} : Clean(d, p, a.data, s)
  <1>1. \/ Is(HeadAt(heads, Len(heads)), p, a)
        \/ \A s \in {Len(heads)} : Clean(d, p, a.data, s)
    BY PublishFacts DEF MergesOwn
  <1>2. Len(heads) \in 0 .. Len(heads)
    BY PublishFacts
  <1>. QED  BY <1>1, <1>2, HeadsHave

LEMMA PublishReturns ==
  ASSUME LossInv, TrackInv, faults = 0, NEW d \in Device,
         pass[d].phase = "pushing", CasWins(d), heads' = Append(heads, pass[d].merged)
  PROVE  NoReturn'
  <1>1. /\ Len(heads) \in Nat /\ DOMAIN heads = 1 .. Len(heads)
        /\ DOMAIN heads' = 1 .. Len(heads) + 1
        /\ \A i \in DOMAIN heads : heads'[i] = heads[i]
        /\ heads'[Len(heads) + 1] = pass[d].merged
    BY PublishFacts
  <1>. SUFFICES ASSUME NEW p \in UserPaths, NEW x,
                       NEW i \in DOMAIN heads', NEW k \in DOMAIN heads', NEW j \in DOMAIN heads',
                       i <= k, k <= j, Has(heads'[i], p, x), Has(heads'[j], p, x)
                PROVE  Has(heads'[k], p, x)
    BY DEF NoReturn
  <1>2. CASE j \in DOMAIN heads
    <2>1. i \in DOMAIN heads /\ k \in DOMAIN heads
      BY <1>1, <1>2
    <2>. QED  BY <1>1, <1>2, <2>1 DEF TrackInv, NoReturn
  <1>3. CASE j = Len(heads) + 1
    <2>1. PICK a : Is(pass[d].merged, p, a) /\ a.data = x
      BY <1>1, <1>3 DEF Has, Is
    <2>2. CASE k = Len(heads) + 1
      BY <1>3, <2>2
    <2>3. CASE k # Len(heads) + 1
      <3>1. i \in DOMAIN heads /\ k \in DOMAIN heads /\ k <= Len(heads)
        BY <1>1, <2>3
      <3>2. ~Clean(d, p, x, Len(heads))
        BY <1>1, <3>1 DEF Clean, Private
      <3>3. Len(heads) \in DOMAIN heads /\ Is(heads[Len(heads)], p, a)
        BY <2>1, <3>2, PublishedAt
      <3>4. Has(heads[Len(heads)], p, x)
        BY <2>1, <3>3 DEF Has, Is
      <3>. QED  BY <1>1, <3>1, <3>3, <3>4 DEF TrackInv, NoReturn
    <2>. QED  BY <2>2, <2>3
  <1>. QED  BY <1>1, <1>2, <1>3

\* A content the device does not have, nobody else has and no head had, is
\* lost.
LEMMA PrivateIsLost ==
  ASSUME NEW d \in Device, NEW p, NEW z, Private(d, p, z),
         ~Has(disk[d], p, z), ~Has(pass[d].merged, p, z)
  PROVE  Lost(p, z)
  BY DEF Lost, Somewhere, InHeads, Private, Is, Has

LEMMA PublishAuthors ==
  ASSUME LossInv, TrackInv, faults = 0, NEW d \in Device, Flows(d),
         pass[d].phase = "pushing", CasWins(d), heads' = Append(heads, pass[d].merged)
  PROVE  HeadAuthors'
  <1>1. /\ Len(heads) \in Nat /\ DOMAIN heads = 1 .. Len(heads)
        /\ DOMAIN heads' = 1 .. Len(heads) + 1
        /\ \A i \in DOMAIN heads : heads'[i] = heads[i]
        /\ heads'[Len(heads) + 1] = pass[d].merged
        /\ author' = author
    BY PublishFacts DEF Flows
  <1>. SUFFICES ASSUME NEW p \in UserPaths, NEW j \in DOMAIN heads', NEW a, Is(heads'[j], p, a),
                       NEW z \in author[a.data]
                PROVE  Lost(p, z)' \/ \E i \in DOMAIN heads' : i <= j /\ Has(heads'[i], p, z)
    BY <1>1 DEF HeadAuthors
  <1>2. ASSUME NEW n \in DOMAIN heads, n <= j, Is(heads[n], p, a)
        PROVE  Lost(p, z)' \/ \E i \in DOMAIN heads' : i <= j /\ Has(heads'[i], p, z)
    <2>1. Lost(p, z) \/ \E i \in DOMAIN heads : i <= n /\ Has(heads[i], p, z)
      BY <1>2 DEF TrackInv, HeadAuthors
    <2>2. \A i \in DOMAIN heads : i <= n => i \in DOMAIN heads' /\ i <= j
      BY <1>1, <1>2
    <2>. QED  BY <1>1, <2>1, <2>2, LostKept
  <1>3. CASE j \in DOMAIN heads
    BY <1>1, <1>2, <1>3
  <1>4. CASE j = Len(heads) + 1
    <2>1. Is(pass[d].merged, p, a)
      BY <1>1, <1>4
    <2>2. CASE Len(heads) \in DOMAIN heads /\ Is(heads[Len(heads)], p, a)
      BY <1>1, <1>2, <1>4, <2>2
    <2>3. CASE \A s \in {Len(heads)} : Clean(d, p, a.data, s)
      <3>1. Settled(d, p, z, Len(heads))
        BY <2>3 DEF Clean
      <3>2. CASE \E i \in DOMAIN heads : i <= Len(heads) /\ Has(heads[i], p, z)
        BY <1>1, <1>4, <3>2
      <3>3. CASE Private(d, p, z) /\ ~Has(disk[d], p, z)
        <4>1. ~Has(pass[d].merged, p, z)
          <5>1. a.data \in DOMAIN author /\ a.data \in Nat
            <6>1. IsManifest(pass[d].merged, Known) /\ TypeOK
              BY LossFacts DEF PassOK
            <6>2. a.data \in 1 .. edits
              BY <2>1, <6>1, KnownData DEF Is
            <6>3. DOMAIN author = 1 .. edits
              BY <6>1, LenProperties DEF TypeOK, HistoryOK
            <6>. QED  BY <6>2, <6>3
          <5>2. z < a.data
            BY <5>1 DEF TrackInv, Older
          <5>. QED  BY <2>1, <5>1, <5>2 DEF Has, Is
        <4>. QED  BY <3>3, <4>1, PrivateIsLost, LostKept
      <3>. QED  BY <3>1, <3>2, <3>3 DEF Settled
    <2>. QED  BY <2>1, <2>2, <2>3, PublishedAt
  <1>. QED  BY <1>1, <1>3, <1>4

LEMMA PublishTracks ==
  ASSUME LossInv, TrackInv, faults = 0, NEW d \in Device, Publish(d)
  PROVE  TrackInv'
  <1>. DEFINE k == pass[d]
              y1 == [k EXCEPT !.phase = "committing"]
              y == [y1 EXCEPT !.seq = k.seq + 1]
  <1>1. /\ UNCHANGED <<edits, author, disk, pointer, faults>>
        /\ heads' = Append(heads, k.merged) /\ k.phase = "pushing" /\ CasWins(d)
        /\ pass' = [pass EXCEPT ![d].phase = "committing", ![d].seq = k.seq + 1]
    BY DEF Publish, history
  <1>2. pass'[d] = y /\ \A e \in Device : e # d => pass'[e] = pass[e]
    BY <1>1, LossFacts
  <1>3. y.phase = "committing" /\ y.seq = k.seq + 1 /\ y.merged = k.merged /\ y.todo = k.todo
    <2>1. PassOK(k, Known)
      BY LossFacts
    <2>. HIDE DEF k
    <2>2. /\ y1.phase = "committing" /\ y1.merged = k.merged /\ y1.todo = k.todo
          /\ y1 = [phase |-> y1.phase, stamp |-> y1.stamp, attempt |-> y1.attempt,
              base |-> y1.base, remote |-> y1.remote, seq |-> y1.seq,
              merged |-> y1.merged, copies |-> y1.copies, todo |-> y1.todo]
      BY <2>1 DEF PassOK
    <2>. HIDE DEF y1
    <2>. QED  BY <2>2
  <1>. HIDE DEF y
  <1>4. Flows(d)
    BY <1>1, <1>2, <1>3 DEF Flows
  <1>5. OneFile' /\ NoReturn' /\ HeadAuthors'
    BY <1>1, <1>4, OneFileKept, PublishReturns, PublishAuthors DEF TrackInv
  <1>6. /\ Len(heads) \in Nat /\ DOMAIN heads = 1 .. Len(heads)
        /\ DOMAIN heads' = 1 .. Len(heads) + 1
        /\ \A i \in DOMAIN heads : heads'[i] = heads[i]
        /\ heads'[Len(heads) + 1] = k.merged
        /\ k.seq = Len(heads) /\ k.todo = {}
        /\ \A p \in UserPaths : TracksMerge(d, p, Len(heads))
    BY <1>1, PublishFacts
  <1>7. ASSUME NEW p \in UserPaths, NEW s \in {Len(heads) + 1} PROVE Tracks(d, p, s)'
    <2>. SUFFICES ASSUME NEW a, Is(disk[d], p, a), ~Is(k.merged, p, a)
                  PROVE  Own(d, p, a.data, s)'
      BY <1>1, <1>6 DEF Tracks, HeadAt
    <2>. DEFINE x == a.data
    <2>1. ~Has(k.merged, p, x)
      <3>. SUFFICES ASSUME Has(k.merged, p, x) PROVE FALSE
        OBVIOUS
      <3>1. PICK b : Is(k.merged, p, b) /\ b.data = a.data
        BY DEF Has, Is
      <3>2. Somewhere(p, a) /\ Somewhere(p, b)
        BY <3>1 DEF Somewhere
      <3>3. a = b
        BY <3>1, <3>2 DEF TrackInv, OneFile
      <3>. QED  BY <3>1, <3>3
    <2>2. \A n \in {Len(heads)} : Own(d, p, x, n)
      BY <1>6 DEF TracksMerge
    <2>. HIDE DEF x
    <2>3. Private(d, p, x)'
      BY <1>4, <2>1, <2>2, PrivateKept DEF Own, Clean
    <2>4. ASSUME NEW z \in author[x] PROVE Settled(d, p, z, s)'
      <3>1. Settled(d, p, z, Len(heads))
        BY <2>2 DEF Own, Clean
      <3>2. CASE Has(k.merged, p, z)
        <4>1. s \in DOMAIN heads' /\ s <= s /\ Has(heads'[s], p, z)
          BY <1>6, <3>2
        <4>. QED  BY <4>1 DEF Settled
      <3>3. CASE ~Has(k.merged, p, z)
        <4>1. \A n \in {Len(heads)} : Settled(d, p, z, n)'
          BY <1>4, <3>1, <3>3, SettledKept
        <4>2. \A i \in DOMAIN heads' : i <= Len(heads) => i <= s
          BY <1>6
        <4>. QED  BY <4>1, <4>2 DEF Settled
      <3>. QED  BY <3>2, <3>3
    <2>5. Unseen(x)'
      BY <1>1, <2>2 DEF Own, Unseen
    <2>6. Own(d, p, x, s)'
      BY <1>1, <2>3, <2>4, <2>5 DEF Own, Clean
    <2>. QED  BY <2>6 DEF x
  <1>8. Tracking(d)'
    BY <1>2, <1>3, <1>6, <1>7 DEF Tracking
  <1>9. \A e \in Device : Tracking(e)'
    BY <1>4, <1>8, OthersTrack DEF TrackInv
  <1>10. Older'
    BY <1>1 DEF TrackInv, Older
  <1>. QED  BY <1>5, <1>9, <1>10 DEF TrackInv

(***************************************************************************)
(* The user's edits: a save is an edit of the device's own, written over   *)
(* what the device tracks.                                                 *)
(***************************************************************************)

\* What a save or a delete of q on d does.
Edited(d, q, new) ==
  /\ author' = Append(author, new) /\ edits' = edits + 1
  /\ UNCHANGED <<heads, pointer, pass>>
  /\ new \subseteq Lineage(d, q) /\ (q \in UserPaths \/ new = {})
  /\ \A e \in Device : e # d => disk'[e] = disk[e]
  /\ \A p, a : p # q => (Is(disk'[d], p, a) <=> Is(disk[d], p, a))
  /\ \A a : Is(disk'[d], q, a) => a.data = edits + 1

LEMMA UserEdits ==
  ASSUME LossInv, NEW d \in Device, User(d)
  PROVE  faults' = faults /\ \E q : \E new \in SUBSET Lineage(d, q) : Edited(d, q, new)
  <1>1. disk = [x \in Device |-> disk[x]]
    BY LossFacts
  <1>2. ASSUME NEW q \in UserPaths, NEW t \in MTimes, Save(d, q, t)
        PROVE  faults' = faults /\ Edited(d, q, Lineage(d, q))
    <2>. DEFINE e == [data |-> edits + 1, mtime |-> t]
    <2>1. /\ disk'[d] = With(disk[d], q, e) /\ \A c \in Device : c # d => disk'[c] = disk[c]
          /\ edits' = edits + 1 /\ author' = Append(author, Lineage(d, q))
          /\ UNCHANGED <<heads, pointer, pass, faults>>
      BY <1>1, <1>2 DEF Save
    <2>2. e.data = edits + 1
      OBVIOUS
    <2>. HIDE DEF e
    <2>3. /\ \A p, a : p # q => (Is(disk'[d], p, a) <=> Is(disk[d], p, a))
          /\ \A a : Is(disk'[d], q, a) => a.data = edits + 1
      BY <2>1, <2>2 DEF With, Is
    <2>. QED  BY <2>1, <2>3 DEF Edited
  <1>3. ASSUME NEW q \in DOMAIN disk[d], Delete(d, q)
        PROVE  faults' = faults /\ Edited(d, q, {})
    <2>1. /\ disk'[d] = Without(disk[d], q) /\ \A c \in Device : c # d => disk'[c] = disk[c]
          /\ edits' = edits + 1 /\ author' = Append(author, {})
          /\ UNCHANGED <<heads, pointer, pass, faults>>
      BY <1>1, <1>3 DEF Delete
    <2>2. /\ \A p, a : p # q => (Is(disk'[d], p, a) <=> Is(disk[d], p, a))
          /\ \A a : ~Is(disk'[d], q, a)
      BY <2>1 DEF Without, Is
    <2>. QED  BY <2>1, <2>2 DEF Edited
  <1>4. ASSUME NEW q, NEW new, new \subseteq Lineage(d, q), Edited(d, q, new), faults' = faults
        PROVE  faults' = faults /\ \E p : \E n \in SUBSET Lineage(d, p) : Edited(d, p, n)
    BY <1>4
  <1>5. CASE \E q \in UserPaths, t \in MTimes : Save(d, q, t)
    <2>1. PICK q \in UserPaths, t \in MTimes : Save(d, q, t)
      BY <1>5
    <2>2. faults' = faults /\ Edited(d, q, Lineage(d, q))
      BY <1>2, <2>1
    <2>. QED  BY <1>4, <2>2
  <1>6. CASE \E q \in DOMAIN disk[d] : Delete(d, q)
    <2>1. PICK q \in DOMAIN disk[d] : Delete(d, q)
      BY <1>6
    <2>2. faults' = faults /\ Edited(d, q, {})
      BY <1>3, <2>1
    <2>. QED  BY <1>4, <2>2
  <1>. QED  BY <1>5, <1>6 DEF User

\* The authors of the contents so far, and of the new one.
LEMMA EditedAuthors ==
  ASSUME LossInv, TrackInv, NEW d \in Device, NEW q,
         NEW new \in SUBSET Lineage(d, q), Edited(d, q, new)
  PROVE  /\ edits \in Nat /\ DOMAIN author = 1 .. edits /\ DOMAIN author' = 1 .. edits + 1
         /\ \A x \in 1 .. edits : author'[x] = author[x] /\ author[x] \subseteq 1 .. edits
         /\ author'[edits + 1] = new /\ new \subseteq 1 .. edits
         /\ Older'
  <1>1. TypeOK /\ edits \in Nat
    BY LossFacts, ConvergeAssumption DEF TypeOK
  <1>2. author \in Seq(SUBSET (1 .. edits)) /\ Len(author) = edits /\ DOMAIN author = 1 .. edits
    BY <1>1, LenProperties DEF TypeOK, HistoryOK
  <1>3. \A x \in 1 .. edits : author[x] \subseteq 1 .. edits
    BY <1>2
  <1>4. new \subseteq 1 .. edits
    <2>1. q \in DOMAIN disk[d] => disk[d][q].data \in 1 .. edits
      BY LossFacts, KnownData
    <2>. QED  BY <1>3, <2>1 DEF Edited, Lineage
  <1>5. /\ DOMAIN author' = 1 .. Len(author) + 1
        /\ \A x \in 1 .. Len(author) : author'[x] = author[x]
        /\ author'[Len(author) + 1] = new
    BY <1>2, <1>4, AppendProperties DEF Edited
  <1>6. Older'
    <2>. SUFFICES ASSUME NEW x \in 1 .. edits + 1, NEW z \in author'[x] PROVE z < x
      BY <1>2, <1>5 DEF Older
    <2>1. CASE x \in 1 .. edits
      BY <1>2, <1>5, <2>1 DEF TrackInv, Older
    <2>2. CASE x = edits + 1
      <3>1. z \in 1 .. edits
        BY <1>2, <1>4, <1>5, <2>2
      <3>. QED  BY <1>1, <2>2, <3>1
    <2>. QED  BY <1>1, <2>1, <2>2
  <1>. QED  BY <1>1, <1>2, <1>3, <1>4, <1>5, <1>6

\* What is somewhere is an earlier content, or the new one.
LEMMA EditedSomewhere ==
  ASSUME LossInv, NEW d \in Device, NEW q,
         NEW new \in SUBSET Lineage(d, q), Edited(d, q, new), NEW p, NEW a
  PROVE  /\ Somewhere(p, a) => a.data \in 1 .. edits
         /\ Somewhere(p, a)' => Somewhere(p, a) \/ (p = q /\ Is(disk'[d], q, a))
  <1>1. ASSUME NEW m, IsManifest(m, Known), Is(m, p, a) PROVE a.data \in 1 .. edits
    BY <1>1, KnownData DEF Is
  <1>2. /\ \A i \in DOMAIN heads : IsManifest(heads[i], Known)
        /\ \A e \in Device : IsManifest(disk[e], Known) /\ IsManifest(pass[e].merged, Known)
    BY LossFacts DEF TypeOK, HeadsOK, PassOK
  <1>3. Somewhere(p, a) => a.data \in 1 .. edits
    BY <1>1, <1>2 DEF Somewhere, InHeads
  <1>4. Somewhere(p, a)' => Somewhere(p, a) \/ (p = q /\ Is(disk'[d], q, a))
    BY DEF Somewhere, InHeads, Edited
  <1>. QED  BY <1>3, <1>4

\* An earlier content an edit does not bring back.
LEMMA EditedKeeps ==
  ASSUME LossInv, TrackInv, NEW d \in Device, NEW q,
         NEW new \in SUBSET Lineage(d, q), Edited(d, q, new),
         NEW p, NEW z \in 1 .. edits
  PROVE  /\ \A e \in Device : Has(disk'[e], p, z) => Has(disk[e], p, z)
         /\ \A e \in Device : Private(e, p, z) => Private(e, p, z)'
         /\ \A e \in Device : \A k : Settled(e, p, z, k) => Settled(e, p, z, k)'
         /\ Lost(p, z) => Lost(p, z)'
  <1>0. z # edits + 1
    BY EditedAuthors
  <1>1. \A e \in Device : Has(disk'[e], p, z) => Has(disk[e], p, z)
    <2>1. \A a : Is(disk'[d], p, a) /\ a.data = z => Is(disk[d], p, a)
      BY <1>0 DEF Edited
    <2>2. Has(disk'[d], p, z) => Has(disk[d], p, z)
      BY <2>1 DEF Has, Is
    <2>. QED  BY <2>2 DEF Edited
  <1>2. \A e \in Device : Private(e, p, z) => Private(e, p, z)'
    BY <1>1 DEF Private, Edited
  <1>3. \A e \in Device : \A k : Settled(e, p, z, k) => Settled(e, p, z, k)'
    BY <1>1, <1>2 DEF Settled, Edited
  <1>4. Lost(p, z) => Lost(p, z)'
    <2>1. \A a : Somewhere(p, a)' => Somewhere(p, a) \/ (p = q /\ Is(disk'[d], q, a))
      BY EditedSomewhere
    <2>2. \A a : Is(disk'[d], q, a) => a.data # z
      BY <1>0 DEF Edited
    <2>. QED  BY <2>1, <2>2 DEF Lost
  <1>. QED  BY <1>1, <1>2, <1>3, <1>4

\* An edit a device has not published stays its own when someone edits
\* another file.
LEMMA EditedOwn ==
  ASSUME LossInv, TrackInv, faults = 0, NEW d \in Device, NEW q,
         NEW new \in SUBSET Lineage(d, q), Edited(d, q, new),
         NEW e \in Device, NEW p \in UserPaths, NEW x \in 1 .. edits, NEW k
  PROVE  /\ Clean(e, p, x, k) => Clean(e, p, x, k)'
         /\ Own(e, p, x, k) /\ Has(disk[e], p, x) /\ (e # d \/ p # q) => Own(e, p, x, k)'
  <1>1. /\ DOMAIN author = 1 .. edits /\ DOMAIN author' = 1 .. edits + 1
        /\ author'[x] = author[x] /\ author[x] \subseteq 1 .. edits
        /\ \A z \in 1 .. edits : author'[z] = author[z]
        /\ author'[edits + 1] = new /\ edits \in Nat
    BY EditedAuthors
  <1>2. ASSUME Clean(e, p, x, k) PROVE Clean(e, p, x, k)'
    <2>1. Private(e, p, x)'
      BY <1>2, EditedKeeps DEF Clean
    <2>2. \A z \in author[x] : Settled(e, p, z, k)'
      BY <1>1, <1>2, EditedKeeps DEF Clean
    <2>. QED  BY <1>1, <2>1, <2>2 DEF Clean
  <1>3. ASSUME Own(e, p, x, k), Has(disk[e], p, x), e # d \/ p # q
        PROVE  Own(e, p, x, k)'
    <2>0. PICK a : Is(disk[e], p, a) /\ a.data = x
      BY <1>3 DEF Has, Is
    <2>1. \A z \in 1 .. edits : x \notin author[z]
      BY <1>1, <1>3 DEF Own, Unseen
    <2>2. x \notin new
      <3>. SUFFICES ASSUME x \in new PROVE FALSE
        OBVIOUS
      <3>1. q \in UserPaths /\ q \in DOMAIN disk[d]
        BY DEF Edited, Lineage
      <3>. DEFINE b == disk[d][q]
      <3>2. Is(disk[d], q, b) /\ b.data \in 1 .. edits
        BY <3>1, LossFacts, KnownData DEF Is
      <3>3. x = b.data
        BY <2>1, <3>1, <3>2 DEF Edited, Lineage
      <3>. HIDE DEF b
      <3>4. p = q
        BY <2>0, <3>1, <3>2, <3>3 DEF TrackInv, OneFile, Somewhere
      <3>5. ~Has(disk[d], p, x)
        BY <1>3, <3>4 DEF Own, Clean, Private
      <3>. QED  BY <3>2, <3>3, <3>4, <3>5 DEF Has, Is
    <2>3. \A z \in DOMAIN author' : x \notin author'[z]
      <3>1. \A z \in DOMAIN author' : z \in 1 .. edits \/ z = edits + 1
        BY <1>1
      <3>. QED  BY <1>1, <2>1, <2>2, <3>1
    <2>. QED  BY <1>2, <1>3, <2>3 DEF Own, Unseen
  <1>. QED  BY <1>2, <1>3

\* The new content is an edit of the device's own: what it was written over is
\* in the head the device tracks or an earlier one, or on no device now.
LEMMA NewIsOwn ==
  ASSUME LossInv, TrackInv, faults = 0, NEW d \in Device, NEW q \in UserPaths,
         NEW new \in SUBSET Lineage(d, q), Edited(d, q, new),
         NEW i \in 0 .. Len(heads), Tracks(d, q, i), NEW N, N = edits + 1
  PROVE  Own(d, q, N, i)'
  <1>1. /\ edits \in Nat /\ DOMAIN author = 1 .. edits /\ DOMAIN author' = 1 .. N
        /\ \A x \in 1 .. edits : author'[x] = author[x] /\ author[x] \subseteq 1 .. edits
        /\ author'[N] = new /\ new \subseteq 1 .. edits
    BY EditedAuthors
  <1>2. N \notin 1 .. edits /\ \A z \in DOMAIN author' : z \in 1 .. edits \/ z = N
    BY <1>1
  <1>3. \A p, a : Somewhere(p, a) => a.data \in 1 .. edits
    BY EditedSomewhere
  <1>4. ~Has(HeadAt(heads, 0), q, N) /\ \A j \in DOMAIN heads : ~Has(heads[j], q, N)
    BY <1>2, <1>3 DEF Somewhere, InHeads, Has, Is, HeadAt, Empty
  <1>5. \A e \in Device : ~Has(disk[e], q, N) /\ ~Has(pass[e].merged, q, N)
    BY <1>2, <1>3 DEF Somewhere, Has, Is
  <1>6. Private(d, q, N)'
    BY <1>4, <1>5 DEF Private, Edited
  <1>7. \A z \in 1 .. edits : ~Has(disk'[d], q, z)
    <2>1. \A a : Is(disk'[d], q, a) => a.data = N
      BY DEF Edited
    <2>. QED  BY <1>2, <2>1 DEF Has, Is
  <1>8. ASSUME NEW z \in new PROVE Settled(d, q, z, i)'
    <2>. DEFINE b == disk[d][q]  y == b.data
    <2>1. q \in DOMAIN disk[d] /\ z \in {y} \cup author[y]
      BY <1>8 DEF Lineage
    <2>2. Is(disk[d], q, b) /\ y \in 1 .. edits /\ z \in 1 .. edits
      BY <1>1, <1>8, <2>1, LossFacts, KnownData DEF Is
    <2>3. ~Has(disk'[d], q, z) /\ ~Has(disk'[d], q, y)
      BY <1>7, <2>2
    <2>4. \A v \in 1 .. edits :
             /\ Private(d, q, v) => Private(d, q, v)'
             /\ Settled(d, q, v, i) => Settled(d, q, v, i)'
             /\ Lost(q, v) => Lost(q, v)'
      BY EditedKeeps
    <2>5. \A v \in 1 .. edits : Private(d, q, v)' => Settled(d, q, v, i)'
      BY <1>7 DEF Settled
    <2>6. \A v \in 1 .. edits : Lost(q, v)' => Settled(d, q, v, i)'
      <3>1. ASSUME NEW v \in 1 .. edits, Lost(q, v)' PROVE Private(d, q, v)'
        BY <3>1 DEF Lost, Private, Somewhere, InHeads, Has, Is
      <3>. QED  BY <2>5, <3>1
    <2>7. CASE Is(HeadAt(heads, i), q, b)
      <3>1. i \in DOMAIN heads /\ Is(heads[i], q, b)
        BY <2>7, HeadsHave
      <3>1a. i <= i
        OBVIOUS
      <3>2. CASE z = y
        <4>1. Has(heads[i], q, z)
          BY <3>1, <3>2 DEF Has, Is
        <4>2. Settled(d, q, z, i)
          BY <3>1, <3>1a, <4>1 DEF Settled
        <4>. QED  BY <2>2, <2>4, <4>2
      <3>3. CASE z \in author[y]
        <4>1. Lost(q, z) \/ \E j \in DOMAIN heads : j <= i /\ Has(heads[j], q, z)
          BY <3>1, <3>3 DEF TrackInv, HeadAuthors
        <4>2. (\E j \in DOMAIN heads : j <= i /\ Has(heads[j], q, z)) => Settled(d, q, z, i)
          BY DEF Settled
        <4>. HIDE DEF b, y
        <4>. QED  BY <2>2, <2>4, <2>6, <4>1, <4>2
      <3>. QED  BY <2>1, <3>2, <3>3
    <2>8. CASE Own(d, q, b.data, i)
      <3>1. Private(d, q, y) /\ \A v \in author[y] : Settled(d, q, v, i)
        BY <2>8 DEF Own, Clean
      <3>. HIDE DEF b, y
      <3>2. CASE z = y
        BY <2>2, <2>4, <2>5, <3>1, <3>2
      <3>3. CASE z \in author[y]
        BY <2>2, <2>4, <3>1, <3>3
      <3>. QED  BY <2>1, <3>2, <3>3
    <2>. QED  BY <2>2, <2>7, <2>8 DEF Tracks
  <1>9. Unseen(N)'
    BY <1>1, <1>2 DEF Unseen
  <1>10. (\A z \in author'[N] : Settled(d, q, z, i)')
    BY <1>1, <1>8
  <1>. QED  BY <1>6, <1>9, <1>10 DEF Own, Clean

\* What every device tracked it tracks after the edit: the editor's file is an
\* edit since.
LEMMA EditedTracks ==
  ASSUME LossInv, TrackInv, faults = 0, NEW d \in Device, NEW q,
         NEW new \in SUBSET Lineage(d, q), Edited(d, q, new),
         NEW e \in Device, NEW p \in UserPaths
  PROVE  /\ \A i \in 0 .. Len(heads) : Tracks(e, p, i) => Tracks(e, p, i)'
         /\ \A s : MergesOwn(e, p, s) => MergesOwn(e, p, s)'
         /\ AppliesRemote(e, p) => AppliesRemote(e, p)'
         /\ \A s \in 0 .. Len(heads) :
               TracksMerge(e, p, s) /\ Tracks(e, p, s) => TracksMerge(e, p, s)'
  <1>1. /\ \A x \in 1 .. edits : \A k : Clean(e, p, x, k) => Clean(e, p, x, k)'
        /\ \A x \in 1 .. edits : \A k :
              Own(e, p, x, k) /\ Has(disk[e], p, x) /\ (e # d \/ p # q) => Own(e, p, x, k)'
    BY EditedOwn
  <1>2. heads' = heads /\ pass' = pass
    BY DEF Edited
  <1>3. ASSUME e # d \/ p # q, NEW a, Is(disk'[e], p, a), NEW k
        PROVE  Is(disk[e], p, a) /\ (Own(e, p, a.data, k) => Own(e, p, a.data, k)')
    <2>1. Is(disk[e], p, a)
      BY <1>3 DEF Edited
    <2>. DEFINE x == a.data
    <2>2. x \in 1 .. edits /\ Has(disk[e], p, x)
      BY <2>1, LossFacts, KnownData DEF Is, Has
    <2>. HIDE DEF x
    <2>3. Own(e, p, x, k) => Own(e, p, x, k)'
      BY <1>1, <1>3, <2>2
    <2>. QED  BY <2>1, <2>3 DEF x
  <1>4. ASSUME e = d, p = q, NEW a, Is(disk'[e], p, a), NEW i \in 0 .. Len(heads), Tracks(e, p, i)
        PROVE  Own(e, p, a.data, i)'
    <2>. DEFINE N == a.data
    <2>1. N = edits + 1
      BY <1>4 DEF Edited
    <2>. HIDE DEF N
    <2>2. Own(d, q, N, i)'
      BY <1>4, <2>1, NewIsOwn
    <2>. QED  BY <1>4, <2>2 DEF N
  <1>5. ASSUME NEW i \in 0 .. Len(heads), Tracks(e, p, i) PROVE Tracks(e, p, i)'
    <2>. SUFFICES ASSUME NEW a, Is(disk'[e], p, a)
                  PROVE  Is(HeadAt(heads, i), p, a) \/ Own(e, p, a.data, i)'
      BY <1>2 DEF Tracks
    <2>1. CASE e # d \/ p # q
      BY <1>3, <1>5, <2>1 DEF Tracks
    <2>2. CASE e = d /\ p = q
      BY <1>4, <1>5, <2>2
    <2>. QED  BY <2>1, <2>2
  <1>6. ASSUME NEW s, MergesOwn(e, p, s) PROVE MergesOwn(e, p, s)'
    <2>. SUFFICES ASSUME NEW a, Is(pass[e].merged, p, a), ~Is(pass[e].remote, p, a)
                  PROVE  Clean(e, p, a.data, s)'
      BY <1>2 DEF MergesOwn
    <2>. DEFINE x == a.data
    <2>1. Clean(e, p, x, s)
      BY <1>6 DEF MergesOwn
    <2>2. x \in 1 .. edits
      BY LossFacts, KnownData DEF Is, PassOK
    <2>. HIDE DEF x
    <2>3. Clean(e, p, x, s)'
      BY <1>1, <2>1, <2>2
    <2>. QED  BY <2>3 DEF x
  <1>7. AppliesRemote(e, p) => AppliesRemote(e, p)'
    BY <1>2 DEF AppliesRemote
  <1>8. ASSUME NEW s \in 0 .. Len(heads), TracksMerge(e, p, s), Tracks(e, p, s)
        PROVE  TracksMerge(e, p, s)'
    <2>. SUFFICES ASSUME NEW a, Is(disk'[e], p, a)
                  PROVE  Is(pass[e].merged, p, a) \/ Own(e, p, a.data, s)'
      BY <1>2 DEF TracksMerge
    <2>1. CASE e # d \/ p # q
      BY <1>3, <1>8, <2>1 DEF TracksMerge
    <2>2. CASE e = d /\ p = q
      BY <1>4, <1>8, <2>2
    <2>. QED  BY <2>1, <2>2
  <1>. QED  BY <1>5, <1>6, <1>7, <1>8

\* An edit leaves one file for every content, and what the heads say of one.
LEMMA EditedHeads ==
  ASSUME LossInv, TrackInv, faults = 0, NEW d \in Device, NEW q,
         NEW new \in SUBSET Lineage(d, q), Edited(d, q, new)
  PROVE  OneFile' /\ NoReturn' /\ HeadAuthors'
  <1>1. \A p, a : /\ Somewhere(p, a) => a.data \in 1 .. edits
                  /\ Somewhere(p, a)' => Somewhere(p, a) \/ (p = q /\ Is(disk'[d], q, a))
    BY EditedSomewhere
  <1>2. edits \in Nat /\ heads' = heads
    BY EditedAuthors DEF Edited
  <1>3. OneFile'
    <2>. SUFFICES ASSUME NEW p \in UserPaths, NEW r \in UserPaths, NEW a, NEW b,
                         Somewhere(p, a)', Somewhere(r, b)', a.data = b.data
                  PROVE  p = r /\ a = b
      BY DEF OneFile
    <2>1. \A v : Is(disk'[d], q, v) => v.data = edits + 1 /\ v = disk'[d][q]
      BY DEF Edited, Is
    <2>2. CASE Somewhere(p, a) /\ Somewhere(r, b)
      BY <2>2 DEF TrackInv, OneFile
    <2>3. CASE p = q /\ Is(disk'[d], q, a)
      <3>1. b.data \notin 1 .. edits
        BY <1>2, <2>1, <2>3
      <3>2. r = q /\ Is(disk'[d], q, b)
        BY <1>1, <3>1
      <3>. QED  BY <2>1, <2>3, <3>2
    <2>4. CASE r = q /\ Is(disk'[d], q, b)
      <3>1. a.data \notin 1 .. edits
        BY <1>2, <2>1, <2>4
      <3>2. p = q /\ Is(disk'[d], q, a)
        BY <1>1, <3>1
      <3>. QED  BY <2>1, <2>4, <3>2
    <2>. QED  BY <1>1, <2>2, <2>3, <2>4
  <1>4. NoReturn'
    BY <1>2 DEF TrackInv, NoReturn
  <1>5. HeadAuthors'
    <2>. SUFFICES ASSUME NEW p \in UserPaths, NEW j \in DOMAIN heads, NEW a,
                         Is(heads[j], p, a), NEW z \in author'[a.data]
                  PROVE  Lost(p, z)' \/ \E i \in DOMAIN heads : i <= j /\ Has(heads[i], p, z)
      BY <1>2 DEF HeadAuthors
    <2>1. a.data \in 1 .. edits
      BY <1>1 DEF Somewhere, InHeads
    <2>. DEFINE x == a.data
    <2>2. z \in author[x] /\ z \in 1 .. edits
      <3>1. x \in 1 .. edits /\ z \in author'[x]
        BY <2>1
      <3>. HIDE DEF x
      <3>. QED  BY <3>1, EditedAuthors
    <2>3. Lost(p, z) \/ \E i \in DOMAIN heads : i <= j /\ Has(heads[i], p, z)
      BY <2>2 DEF TrackInv, HeadAuthors
    <2>. HIDE DEF x
    <2>4. Lost(p, z) => Lost(p, z)'
      BY <2>2, EditedKeeps
    <2>. QED  BY <2>3, <2>4
  <1>. QED  BY <1>3, <1>4, <1>5

LEMMA UserTracks ==
  ASSUME LossInv, TrackInv, faults = 0, NEW d \in Device, User(d)
  PROVE  TrackInv'
  <1>1. PICK q : \E new \in SUBSET Lineage(d, q) : Edited(d, q, new)
    BY UserEdits
  <1>2. PICK new \in SUBSET Lineage(d, q) : Edited(d, q, new)
    BY <1>1
  <1>3. heads' = heads /\ pass' = pass /\ pointer' = pointer
    BY <1>2 DEF Edited
  <1>4. ASSUME NEW e \in Device PROVE Tracking(e)'
    <2>1. Tracking(e)
      BY DEF TrackInv
    <2>2. \A p \in UserPaths :
             /\ \A i \in 0 .. Len(heads) : Tracks(e, p, i) => Tracks(e, p, i)'
             /\ \A s : MergesOwn(e, p, s) => MergesOwn(e, p, s)'
             /\ AppliesRemote(e, p) => AppliesRemote(e, p)'
             /\ \A s \in 0 .. Len(heads) :
                   TracksMerge(e, p, s) /\ Tracks(e, p, s) => TracksMerge(e, p, s)'
      BY <1>2, EditedTracks
    <2>3. pass[e].phase # "idle" => pass[e].seq \in 0 .. Len(heads) /\ 0 .. pass[e].seq \subseteq 0 .. Len(heads)
      <3>1. pass[e].phase = "committing" => pass[e].seq \in DOMAIN heads
        BY DEF LossInv, BaseInv, CommitsTheHead
      <3>2. pass[e].phase # "idle" => pass[e].seq \in 0 .. Len(heads) /\ Len(heads) \in Nat
        BY <3>1, LossFacts
      <3>. QED  BY <3>2
    <2>4. pass[e].phase \notin {"applying", "committing"} =>
             \E i \in 0 .. Len(heads) :
                pointer[e] = HeadAt(heads, i) /\ \A p \in UserPaths : Tracks(e, p, i)'
      BY <2>1, <2>2 DEF Tracking
    <2>5. pass[e].phase = "fetched" =>
             \E i \in 0 .. pass[e].seq :
                pass[e].base = HeadAt(heads, i) /\ \A p \in UserPaths : Tracks(e, p, i)'
      BY <2>1, <2>2, <2>3 DEF Tracking
    <2>6. pass[e].phase \in {"copying", "applying", "pushing", "committing"} =>
             \A p \in UserPaths, s \in {pass[e].seq} : p \notin pass[e].todo => Tracks(e, p, s)'
      BY <2>1, <2>2, <2>3 DEF Tracking
    <2>7. pass[e].phase \in {"copying", "applying", "pushing"} =>
             \A p \in UserPaths, s \in {pass[e].seq} :
                /\ MergesOwn(e, p, s)'
                /\ p \in pass[e].todo => AppliesRemote(e, p)'
                /\ p \notin pass[e].todo => TracksMerge(e, p, s)'
      BY <2>1, <2>2, <2>3 DEF Tracking
    <2>8. pass[e].phase = "copying" => \A c \in pass[e].copies : c.copy \notin UserPaths
      BY <2>1 DEF Tracking
    <2>. QED  BY <1>3, <2>4, <2>5, <2>6, <2>7, <2>8 DEF Tracking
  <1>. QED  BY <1>2, <1>4, EditedHeads, EditedAuthors DEF TrackInv

LEMMA TrackInit == Init => TrackInv
  <1>. SUFFICES ASSUME Init PROVE TrackInv
    OBVIOUS
  <1>1. /\ heads = <<>> /\ DOMAIN heads = {} /\ Len(heads) = 0 /\ author = <<>>
        /\ DOMAIN author = {}
        /\ \A e \in Device : disk[e] = Empty /\ pass[e] = NoPass /\ pointer[e] = Empty
    BY DEF Init
  <1>2. \A p, a : ~Is(Empty, p, a)
    BY DEF Is, Empty
  <1>3. OneFile
    BY <1>1, <1>2 DEF OneFile, Somewhere, InHeads, NoPass
  <1>4. NoReturn /\ HeadAuthors /\ Older
    BY <1>1 DEF NoReturn, HeadAuthors, Older
  <1>5. ASSUME NEW e \in Device PROVE Tracking(e)
    <2>1. pass[e].phase = "idle"
      BY <1>1 DEF NoPass
    <2>2. 0 \in 0 .. Len(heads) /\ pointer[e] = HeadAt(heads, 0)
      BY <1>1 DEF HeadAt
    <2>3. \A p \in UserPaths : Tracks(e, p, 0)
      BY <1>1, <1>2 DEF Tracks
    <2>. QED  BY <2>1, <2>2, <2>3 DEF Tracking
  <1>. QED  BY <1>3, <1>4, <1>5 DEF TrackInv

\* What a step of a pass leaves alone.
LEMMA StepHistory ==
  ASSUME NEW d \in Device, Step(d) \/ Fault(d)
  PROVE  author' = author /\ (Step(d) => faults' = faults)
  BY DEF Step, Fault, Begin, ScanAndMerge, MergeInvalid, MakeCopy, CopyVanished, StartApply,
         ApplyPath, ApplyBlocked, MoveBase, NothingToPublish, Publish, LoseRace, NoteHead,
         Commit, AnswerLost, Interrupt, history

\* Whatever a device, its user or a fault does.
LEMMA TrackNext ==
  ASSUME NamesGrow, Undisturbed, PlainNames
  PROVE  LossInv /\ TodoNamed /\ TrackInv /\ [Next]_vars => TrackInv'
  <1>. SUFFICES ASSUME LossInv, TodoNamed, TrackInv, [Next]_vars PROVE TrackInv'
    OBVIOUS
  <1>1. CASE UNCHANGED vars
    <2>. USE <1>1 DEF vars
    <2>1. Older' /\ OneFile' = OneFile /\ NoReturn' = NoReturn /\ HeadAuthors' = HeadAuthors
      BY DEF TrackInv, Older, OneFile, NoReturn, HeadAuthors, Lost, Somewhere, InHeads
    <2>2. \A e, p, k : Tracks(e, p, k)' = Tracks(e, p, k) /\ TracksMerge(e, p, k)' = TracksMerge(e, p, k)
                       /\ MergesOwn(e, p, k)' = MergesOwn(e, p, k)
                       /\ AppliesRemote(e, p)' = AppliesRemote(e, p)
      BY DEF Tracks, TracksMerge, MergesOwn, AppliesRemote, Own, Clean, Unseen, Settled, Private
    <2>3. \A e \in Device : Tracking(e) => Tracking(e)'
      BY <2>2 DEF Tracking
    <2>. QED  BY <2>1, <2>3 DEF TrackInv
  <1>2. ASSUME faults # 0, NEW d \in Device, Step(d) \/ User(d) PROVE TrackInv'
    <2>1. faults' # 0
      BY <1>2, StepHistory, UserEdits
    <2>2. Step(d) => Older'
      BY StepHistory DEF TrackInv, Older
    <2>3. User(d) => Older'
      <3>. SUFFICES ASSUME User(d) PROVE Older'
        OBVIOUS
      <3>1. PICK q : \E new \in SUBSET Lineage(d, q) : Edited(d, q, new)
        BY UserEdits
      <3>. QED  BY <3>1, EditedAuthors
    <2>. QED  BY <1>2, <2>1, <2>2, <2>3 DEF TrackInv
  <1>3. ASSUME NEW d \in Device, Fault(d) PROVE TrackInv'
    <2>1. faults' # 0
      BY <1>3, ConvergeAssumption DEF LossInv, BaseInv, TypeOK, Fault, AnswerLost, Interrupt
    <2>2. Older'
      BY <1>3, StepHistory DEF TrackInv, Older
    <2>. QED  BY <2>1, <2>2 DEF TrackInv
  <1>4. ASSUME faults = 0, NEW d \in Device, Step(d) PROVE TrackInv'
    <2>1. CASE Publish(d)
      BY <1>4, <2>1, PublishTracks
    <2>2. ASSUME Flows(d) /\ Tracking(d)' /\ heads' = heads /\ faults' = 0 PROVE TrackInv'
      BY <1>4, <2>2, TrackStep
    <2>3. CASE Begin(d)             BY <1>4, <2>2, <2>3, BeginTracks
    <2>4. CASE ScanAndMerge(d)      BY <1>4, <2>2, <2>4, ScanTracks
    <2>5. CASE MergeInvalid(d)      BY <1>4, <2>2, <2>5, FailTracks
    <2>6. CASE MakeCopy(d)          BY <1>4, <2>2, <2>6, CopyTracks
    <2>7. CASE CopyVanished(d)      BY <1>4, <2>2, <2>7, FailTracks
    <2>8. CASE StartApply(d)        BY <1>4, <2>2, <2>8, StartApplyTracks
    <2>9. CASE ApplyPath(d)         BY <1>4, <2>2, <2>9, ApplyTracks
    <2>10. CASE ApplyBlocked(d)     BY <2>10, NeverBlocked
    <2>11. CASE MoveBase(d)         BY <1>4, <2>2, <2>11, MoveBaseTracks
    <2>12. CASE NothingToPublish(d) BY <1>4, <2>2, <2>12, AgreedTracks
    <2>13. CASE LoseRace(d)         BY <1>4, <2>2, <2>13, LoseRaceTracks
    <2>14. CASE NoteHead(d)         BY <1>4, <2>2, <2>14, NoteHeadTracks
    <2>15. CASE Commit(d)           BY <1>4, <2>2, <2>15, CommitTracks
    <2>. QED  BY <1>4, <2>1, <2>3, <2>4, <2>5, <2>6, <2>7, <2>8, <2>9, <2>10, <2>11, <2>12,
                 <2>13, <2>14, <2>15 DEF Step
  <1>5. CASE Next
    BY <1>2, <1>3, <1>4, <1>5, UserTracks DEF Next
  <1>. QED  BY <1>1, <1>5

\* Two entries that race, and the base has neither.
LEMMA RacersDiffer ==
  ASSUME NEW base, NEW local, NEW remote, IsManifest(local, Entry), IsManifest(remote, Entry),
         NEW p \in Contested(base, local, remote)
  PROVE  /\ p \in DOMAIN local /\ p \in DOMAIN remote /\ local[p].data # remote[p].data
         /\ At(base, p) # local[p] /\ At(base, p) # remote[p]
  <1>1. Verdict(base, local, remote, p).lose # "none" /\ Entry \subseteq Entry
    BY DEF Contested
  <1>2. p \in DOMAIN local /\ p \in DOMAIN remote
    BY <1>1, ContestedIsShared
  <1>3. Decide(At(base, p), local[p], remote[p]).lose # "none"
    BY <1>1, <1>2 DEF Verdict, At
  <1>4. local[p] \in Entry /\ remote[p] \in Entry
    BY <1>2 DEF IsManifest
  <1>5. local[p].data # remote[p].data
    BY <1>3, <1>4, DecideIsASide
  <1>6. \A b, l, r : b = l \/ b = r => Decide(b, l, r).lose = "none"
    BY DEF Decide, Wins
  <1>. QED  BY <1>2, <1>3, <1>5, <1>6

\* Two contents that race at a user's file: the local one is an edit of the
\* device's own that no author of the remote one has seen, and the remote one,
\* had the device's user seen it, would still be what the base has.
LEMMA RaceIsReal ==
  ASSUME NamesGrow, LossInv, TrackInv
  PROVE  ConflictsAreReal
  <1>. SUFFICES ASSUME faults = 0, NEW d \in Device, pass[d].phase = "fetched",
                       NEW p \in UserPaths,
                       p \in Contested(pass[d].base, disk[d], pass[d].remote)
                PROVE  Concurrent(disk[d][p].data, pass[d].remote[p].data)
    BY DEF ConflictsAreReal
  <1>. DEFINE k == pass[d]  l == disk[d][p]  r == k.remote[p]
  <1>1. /\ k.seq \in 0 .. Len(heads) /\ k.remote = HeadAt(heads, k.seq) /\ TypeOK
        /\ IsManifest(disk[d], Known) /\ IsManifest(k.remote, Known) /\ Len(heads) \in Nat
        /\ DOMAIN heads = 1 .. Len(heads)
    BY LossFacts DEF PassOK
  <1>2. /\ p \in DOMAIN disk[d] /\ p \in DOMAIN k.remote /\ l.data # r.data
        /\ At(k.base, p) # l /\ At(k.base, p) # r
    <2>1. IsManifest(disk[d], Entry) /\ IsManifest(k.remote, Entry)
      BY <1>1, DeviceTypes, ManifestMonotonic
    <2>. QED  BY <2>1, RacersDiffer
  <1>3. l \in Known /\ r \in Known
    BY <1>1, <1>2 DEF IsManifest
  <1>4. PICK i \in 0 .. k.seq : k.base = HeadAt(heads, i) /\ Tracks(d, p, i)
    BY DEF TrackInv, Tracking
  <1>5. Is(disk[d], p, l) /\ Is(k.remote, p, r) /\ ~Is(k.base, p, l) /\ ~Is(k.base, p, r)
    BY <1>2 DEF Is, At
  <1>6. Own(d, p, l.data, i)
    BY <1>4, <1>5 DEF Tracks
  <1>7. r.data \in DOMAIN author
    <2>1. author \in Seq(SUBSET (1 .. edits)) /\ Len(author) = edits
      BY <1>1 DEF TypeOK, HistoryOK
    <2>2. DOMAIN author = 1 .. edits
      BY <2>1, LenProperties
    <2>. QED  BY <1>3, <2>2 DEF Known
  <1>8. l.data \notin author[r.data]
    BY <1>6, <1>7 DEF Own, Unseen
  <1>9. k.seq \in DOMAIN heads /\ Is(heads[k.seq], p, r)
    BY <1>1, <1>5, HeadsHave
  <1>10. r.data \notin author[l.data]
    <2>. SUFFICES ASSUME Settled(d, p, r.data, i) PROVE FALSE
      BY <1>6 DEF Own, Clean
    <2>1. CASE Private(d, p, r.data) /\ ~Has(disk[d], p, r.data)
      <3>1. Has(heads[k.seq], p, r.data)
        BY <1>9 DEF Has, Is
      <3>. QED  BY <1>9, <2>1, <3>1 DEF Private
    <2>2. CASE \E j \in DOMAIN heads : j <= i /\ Has(heads[j], p, r.data)
      <3>1. PICK j \in DOMAIN heads : j <= i /\ Has(heads[j], p, r.data)
        BY <2>2
      <3>2. i \in DOMAIN heads /\ i <= k.seq
        BY <1>1, <1>4, <3>1
      <3>3. Has(heads[k.seq], p, r.data)
        BY <1>9 DEF Has, Is
      <3>4. Has(heads[i], p, r.data)
        BY <1>9, <3>1, <3>2, <3>3 DEF TrackInv, NoReturn
      <3>5. PICK b : Is(heads[i], p, b) /\ b.data = r.data
        BY <3>4 DEF Has, Is
      <3>6. Somewhere(p, b) /\ Somewhere(p, r)
        BY <1>9, <3>2, <3>5 DEF Somewhere, InHeads
      <3>7. b = r
        BY <3>5, <3>6 DEF TrackInv, OneFile
      <3>8. k.base = heads[i]
        BY <1>1, <1>4, <3>2 DEF HeadAt
      <3>. QED  BY <1>5, <3>5, <3>7, <3>8
    <2>. QED  BY <2>1, <2>2 DEF Settled
  <1>. QED  BY <1>8, <1>10 DEF Concurrent

\* A publication: the head's content, an edit no head ever had, or none.
LEMMA HeadGoesOn ==
  ASSUME NamesGrow, LossInv, TrackInv, faults = 0, [Next]_vars, heads' # heads,
         NEW p \in UserPaths
  PROVE  \/ At(RelayHead', p) \in {At(RelayHead, p), Absent}
         \/ \A i \in DOMAIN heads : At(heads[i], p) # At(RelayHead', p)
  <1>1. PICK d \in Device : Publish(d) \/ AnswerLost(d)
    BY DEF vars, Next, Step, User, Fault, Save, Delete, Begin, ScanAndMerge, MergeInvalid,
           MakeCopy, CopyVanished, StartApply, ApplyPath, ApplyBlocked, MoveBase,
           NothingToPublish, LoseRace, NoteHead, Commit, Interrupt
  <1>. DEFINE m == pass[d].merged
  <1>2. pass[d].phase = "pushing" /\ CasWins(d) /\ heads' = Append(heads, m)
    BY <1>1 DEF Publish, AnswerLost
  <1>3. /\ Len(heads) \in Nat /\ DOMAIN heads = 1 .. Len(heads)
        /\ Len(heads') = Len(heads) + 1 /\ heads'[Len(heads) + 1] = m
    BY <1>2, PublishFacts
  <1>4. RelayHead' = m
    <2>1. heads' # <<>>
      BY <1>3
    <2>. QED  BY <1>3, <2>1 DEF RelayHead
  <1>5. CASE p \notin DOMAIN m
    BY <1>4, <1>5 DEF At
  <1>6. CASE p \in DOMAIN m
    <2>. DEFINE a == m[p]
    <2>1. Is(m, p, a) /\ At(m, p) = a
      BY <1>6 DEF Is, At
    <2>2. CASE Len(heads) \in DOMAIN heads /\ Is(heads[Len(heads)], p, a)
      <3>1. RelayHead = heads[Len(heads)]
        BY <1>3, <2>2 DEF RelayHead
      <3>2. At(RelayHead, p) = a
        BY <2>2, <3>1 DEF Is, At
      <3>. QED  BY <1>4, <2>1, <3>2
    <2>3. CASE \A s \in {Len(heads)} : Clean(d, p, a.data, s)
      <3>1. \A i \in DOMAIN heads : ~Has(heads[i], p, a.data)
        BY <2>3 DEF Clean, Private
      <3>2. a # Absent
        <4>1. IsManifest(m, Known) /\ Known \subseteq Entry
          BY LossFacts, DeviceTypes DEF PassOK
        <4>. QED  BY <1>6, <4>1, AbsentAssumption DEF IsManifest
      <3>3. \A i \in DOMAIN heads : At(heads[i], p) # a
        BY <3>1, <3>2 DEF At, Has
      <3>. QED  BY <1>4, <2>1, <3>3
    <2>. HIDE DEF a, m
    <2>. QED  BY <1>2, <2>1, <2>2, <2>3, PublishedAt DEF m
  <1>. QED  BY <1>5, <1>6

\* merge and converge_once: as long as no pass is interrupted, a conflict copy
\* of a user's file is made only of two edits neither of whose authors had
\* seen the other's.
THEOREM OnlyRealConflicts ==
  ASSUME NamesGrow, Undisturbed, PlainNames
  PROVE  Spec => []ConflictsAreReal
  <1>1. Spec => [](LossInv /\ TrackInv)
    BY LossInit, LossStep, TodoInit, TodoStep, TrackInit, TrackNext, PTL DEF Spec
  <1>. QED  BY <1>1, RaceIsReal, PTL

\* put_head: as long as no pass is interrupted, a content that the head had
\* and a later one replaced or removed is never published again.
THEOREM HeadOnlyMovesOn ==
  ASSUME NamesGrow, Undisturbed, PlainNames
  PROVE  Spec => HeadNeverGoesBack
  <1>1. Spec => [](LossInv /\ TrackInv)
    BY LossInit, LossStep, TodoInit, TodoStep, TrackInit, TrackNext, PTL DEF Spec
  <1>2. LossInv /\ TrackInv /\ [Next]_vars =>
          [faults = 0 =>
             \A p \in UserPaths :
                \/ At(RelayHead', p) \in {At(RelayHead, p), Absent}
                \/ \A i \in DOMAIN heads : At(heads[i], p) # At(RelayHead', p)]_heads
    BY HeadGoesOn
  <1>. QED  BY <1>1, <1>2, PTL DEF Spec, HeadNeverGoesBack
=============================================================================
