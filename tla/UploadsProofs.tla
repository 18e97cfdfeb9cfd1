---------------------------- MODULE UploadsProofs ---------------------------
(***************************************************************************)
(* The scan cache hides no edit and no unconfirmed chunk is submitted:     *)
(* proofs about module Uploads for any files, contents and timestamps not  *)
(* coarser than CACHE_SETTLE_SECS, and any number of edits, losses and     *)
(* failures.                                                               *)
(*                                                                         *)
(* The argument for the cache is about time.  A timestamp of a write is    *)
(* less than Tick behind the clock (StampBound).  An entry that is settled *)
(* is at least that much older than the scan that recorded it, so a write  *)
(* since then gives the file another timestamp: as long as file and entry  *)
(* agree on it, they agree on the content (RecordInv).  The same holds     *)
(* between the walk and the end of the pass (ScanInv, EntryInv), which is  *)
(* what makes the record of the next pass right.                           *)
(***************************************************************************)
EXTENDS Uploads, TLAPS, SequenceTheorems

\* A pass starts from nothing, and its parts fit together.
PassInv ==
    /\ open # None => phase = "reading"
    /\ phase \in {"idle", "fatal", "walking"} =>
          /\ seen = {} /\ pending = {} /\ present = {} /\ hidden = {} /\ left = {}
          /\ new = Empty /\ listing = Empty
          /\ reused = {} /\ kept = {}
    /\ phase \in {"flushing", "publishing"} => left = {}
    /\ phase = "publishing" => pending = {}
    /\ \A p \in left : listing[p] # Absent /\ p \notin reused \cup kept
    /\ reused \cap kept = {}
    /\ \A p \in reused : new[p] # Absent /\ listing[p] # Absent
    /\ \A p \in hidden : listing[p] = Absent

ConfirmInv ==
    /\ seen \cup present \subseteq pool \cup lost
    /\ Refers(new) \subseteq seen \cup pending \cup present
    /\ open # None => Chunks(open.read) \subseteq seen \cup pending

Settled(mtime, t) == mtime + CacheSettle <= t

\* Entries not carried over: neither the file nor what the walk found differs
\* from them in its content alone.
RecordInv ==
    /\ record.at <= clock
    /\ \A p \in Path \ carried :
          record.files[p] # Absent /\ Settled(record.files[p].mtime, record.at) =>
             \A f \in {file[p], listing[p]} :
                f # Absent /\ f.mtime = record.files[p].mtime =>
                   f.data = record.files[p].data

\* The file has the timestamp the walk found, and that was settled.
Untouched(p) ==
    /\ file[p] # Absent /\ listing[p] # Absent
    /\ file[p].mtime = listing[p].mtime
    /\ Settled(listing[p].mtime, at)

\* What has been read of a file so far.
IsPrefixOf(s, t) == Len(s) <= Len(t) /\ \A i \in 1..Len(s) : s[i] = t[i]

ScanInv ==
    /\ at <= clock
    /\ \A p \in Path : Untouched(p) =>
          /\ file[p].data = listing[p].data
          /\ open # None /\ open.path = p =>
                open.source = listing[p].data /\ IsPrefixOf(open.read, open.source)

\* The entry is not one of an earlier pass.
Own(p) == p \notin kept \cup (carried \cap reused)

EntryInv ==
    \A p \in Path : new[p] # Absent /\ Own(p) =>
        /\ listing[p] # Absent /\ new[p].mtime = listing[p].mtime
        /\ Untouched(p) \/ p \in reused => new[p].data = listing[p].data

PresenceInv ==
    \A p \in Path :
        LastGood(p) /\ listing[p] # Absent /\ p \notin left => new[p] # Absent

UploadsInv ==
    /\ TypeOK /\ PassInv /\ ConfirmInv /\ RecordInv /\ ScanInv /\ EntryInv
    /\ PresenceInv
    /\ NoFalseDeletion

-----------------------------------------------------------------------------
(***************************************************************************)
(* Lemmas about the operators.                                             *)
(***************************************************************************)

\* The file system's timestamps lag behind the clock by less than Tick.
LEMMA StampBound ==
    ASSUME NEW t \in Nat
    PROVE  Stamp(t) \in Nat /\ Stamp(t) <= t /\ t < Stamp(t) + Tick
<1>1. Tick \in Nat /\ Tick > 0
  BY UploadsAssumption
<1>2. t % Tick \in 0 .. Tick - 1 /\ t % Tick <= t
  BY <1>1, SMT
<1> QED
  BY <1>1, <1>2 DEF Stamp

\* Times are numbers and the granularity is not coarser than the settling time.
LEMMA Times ==
    ASSUME TypeOK
    PROVE  /\ clock \in Nat /\ at \in Nat /\ record.at \in Nat
           /\ CacheSettle \in Nat /\ Tick \in Nat /\ Tick <= CacheSettle
           /\ record.files \in Files /\ file \in Files /\ listing \in Files
           /\ new \in Files
  BY UploadsAssumption DEF TypeOK, Manifest

\* A path has an entry or none.
LEMMA EntryOrNone ==
    ASSUME NEW files \in Files, NEW p \in Path
    PROVE  /\ files[p] = Absent \/ files[p] \in Entry
           /\ files[p] # Absent => files[p].data \in Seq(Chunk) /\ files[p].mtime \in Nat
  BY DEF Files, Entry

\* What a manifest refers to are chunks.
LEMMA RefersToChunks ==
    ASSUME NEW files \in Files
    PROVE  Refers(files) \subseteq Chunk
<1> SUFFICES ASSUME NEW p \in Path PROVE ChunksAt(files, p) \subseteq Chunk
  BY DEF Refers
<1>1. CASE files[p] = Absent
  BY <1>1 DEF ChunksAt
<1>2. CASE files[p] # Absent
  <2>1. files[p].data \in Seq(Chunk)
    BY <1>2, EntryOrNone
  <2>2. \A i \in DOMAIN files[p].data : files[p].data[i] \in Chunk
    BY <2>1, ElementOfSeq, LenProperties
  <2> QED
    BY <1>2, <2>2 DEF ChunksAt, Chunks
<1> QED
  BY <1>1, <1>2

\* A write of now has a later timestamp than anything that is settled.
LEMMA WriteIsLater ==
    ASSUME TypeOK, NEW m \in Nat, NEW t \in Nat, t <= clock, Settled(m, t)
    PROVE  m < Stamp(clock)
<1>1. clock \in Nat /\ CacheSettle \in Nat /\ Tick \in Nat /\ Tick <= CacheSettle
  BY Times
<1>2. Stamp(clock) \in Nat /\ clock < Stamp(clock) + Tick
  BY <1>1, StampBound
<1> QED
  BY <1>1, <1>2 DEF Settled

-----------------------------------------------------------------------------
(***************************************************************************)
(* The initial state, time, the user and the relay.                        *)
(***************************************************************************)

\* A tree that was never scanned.
LEMMA UploadsInit == Init => UploadsInv
<1> SUFFICES ASSUME Init PROVE UploadsInv
  OBVIOUS
<1>1. Empty \in Files /\ \A p \in Path : Empty[p] = Absent
  BY DEF Empty, Files
<1>2. file \in Files
  BY UploadsAssumption DEF Init, Files, Entry
<1>3. TypeOK
  <2>1. record \in Manifest
    BY <1>1 DEF Init, Manifest
  <2>2. /\ clock \in 0..MaxClock /\ edits \in 0..MaxEdits /\ at \in 0..MaxClock
        /\ losses \in 0..MaxLosses /\ faults \in 0..MaxFaults
    BY UploadsAssumption DEF Init
  <2> QED
    BY <1>1, <1>2, <2>1, <2>2 DEF Init, TypeOK
<1>4. PassInv
  BY DEF Init, PassInv
<1>5. Refers(Empty) = {}
  BY <1>1 DEF Refers, ChunksAt
<1>6. ConfirmInv
  BY <1>5 DEF Init, ConfirmInv
<1>7. RecordInv /\ ScanInv /\ EntryInv /\ PresenceInv /\ NoFalseDeletion
  BY <1>1 DEF Init, RecordInv, ScanInv, EntryInv, Untouched, PresenceInv,
              LastGood, NoFalseDeletion
<1> QED
  BY <1>3, <1>4, <1>6, <1>7 DEF UploadsInv

\* The clock only makes more of the past.
LEMMA AdvanceStep ==
    ASSUME UploadsInv, Advance
    PROVE  UploadsInv'
<1> USE DEF Advance, world, scan, uploader, history
<1>1. TypeOK
  BY DEF UploadsInv
<1>2. clock \in Nat /\ clock' = clock + 1 /\ at \in Nat /\ record.at \in Nat
  BY <1>1, Times
<1>3. TypeOK'
  BY <1>1, UploadsAssumption DEF TypeOK
<1>4. PassInv' /\ ConfirmInv'
  BY DEF UploadsInv, PassInv, ConfirmInv, Refers, ChunksAt
<1>5. RecordInv' /\ ScanInv'
  BY <1>2 DEF UploadsInv, RecordInv, ScanInv, Untouched
<1>6. EntryInv' /\ PresenceInv' /\ NoFalseDeletion'
  BY DEF UploadsInv, EntryInv, Own, Untouched, PresenceInv, NoFalseDeletion,
         LastGood, ChunksAt
<1> QED
  BY <1>3, <1>4, <1>5, <1>6 DEF UploadsInv

\* What the user does is later than all that is settled.
LEMMA EditStep ==
    ASSUME UploadsInv, NEW p \in Path, NEW f \in Entry \cup {Absent}, Edit(p, f),
           f # Absent => f.mtime = Stamp(clock),
           \/ open' = open
           \/ /\ open # None /\ open.path = p
              /\ \E data \in Content : open' = [open EXCEPT !.source = data]
    PROVE  UploadsInv'
<1> USE DEF Edit, uploader, history
<1>1. TypeOK
  BY DEF UploadsInv
<1>2. /\ clock \in Nat /\ at \in Nat /\ record.at \in Nat
      /\ record.files \in Files /\ listing \in Files /\ file \in Files
  BY <1>1, Times
<1>3. file' \in Files /\ file'[p] = f /\ \A q \in Path \ {p} : file'[q] = file[q]
  BY <1>2 DEF Files
<1>4. /\ open # None <=> open' # None
      /\ open' # None => /\ open' \in [path : left, source : Seq(Chunk), read : Seq(Chunk)]
                         /\ open'.path = open.path /\ open'.read = open.read
                         /\ open.path # p => open' = open
  <2>1. open = None \/ open \in [path : left, source : Seq(Chunk), read : Seq(Chunk)]
    BY <1>1 DEF TypeOK
  <2>2. left \subseteq Path
    BY <1>1 DEF TypeOK
  <2>3. CASE open' = open
    BY <2>1, <2>3
  <2>4. CASE open # None /\ open.path = p
             /\ \E data \in Content : open' = [open EXCEPT !.source = data]
    <3>1. PICK data \in Content : open' = [open EXCEPT !.source = data]
      BY <2>4
    <3>2. open' \in [path : left, source : Seq(Chunk), read : Seq(Chunk)]
      BY <2>1, <2>4, <3>1, UploadsAssumption
    <3>3. open' # None
      BY <3>2, <2>2, UploadsAssumption
    <3> QED
      BY <2>1, <2>4, <3>1, <3>2, <3>3
  <2> QED
    BY <2>3, <2>4
<1>5. TypeOK'
  <2>1. edits' \in 0..MaxEdits
    BY <1>1, UploadsAssumption DEF TypeOK
  <2> QED
    BY <1>1, <1>3, <1>4, <2>1 DEF TypeOK
<1>6. PassInv'
  BY <1>4 DEF UploadsInv, PassInv
<1>7. ConfirmInv'
  BY <1>4 DEF UploadsInv, ConfirmInv, Refers, ChunksAt
<1>8. RecordInv'
  <2> SUFFICES ASSUME NEW q \in Path \ carried, record.files[q] # Absent,
                      Settled(record.files[q].mtime, record.at),
                      NEW g \in {file'[q], listing[q]},
                      g # Absent, g.mtime = record.files[q].mtime
               PROVE  g.data = record.files[q].data
    BY DEF UploadsInv, RecordInv
  <2>1. CASE g \in {file[q], listing[q]}
    BY <2>1 DEF UploadsInv, RecordInv
  <2>2. CASE q = p /\ g = f
    <3>1. record.files[q].mtime \in Nat /\ record.at <= clock
      BY <1>2, EntryOrNone DEF UploadsInv, RecordInv
    <3>2. record.files[q].mtime < Stamp(clock)
      BY <1>1, <1>2, <3>1, WriteIsLater
    <3>3. Stamp(clock) \in Nat
      BY <1>2, StampBound
    <3> QED
      BY <2>2, <3>1, <3>2, <3>3
  <2> QED
    BY <1>3, <2>1, <2>2
<1>9. \A q \in Path : Untouched(q)' => q # p /\ Untouched(q)
  <2> SUFFICES ASSUME NEW q \in Path, Untouched(q)'
               PROVE  q # p /\ Untouched(q)
    OBVIOUS
  <2>1. q # p
    <3> SUFFICES ASSUME q = p PROVE FALSE
      OBVIOUS
    <3>1. f # Absent /\ listing[p] # Absent /\ f.mtime = listing[p].mtime
          /\ Settled(listing[p].mtime, at)
      BY <1>3 DEF Untouched
    <3>2. listing[p].mtime \in Nat /\ at <= clock
      BY <1>2, <3>1, EntryOrNone DEF UploadsInv, ScanInv
    <3>3. listing[p].mtime < Stamp(clock)
      BY <1>1, <1>2, <3>1, <3>2, WriteIsLater
    <3>4. Stamp(clock) \in Nat
      BY <1>2, StampBound
    <3> QED
      BY <3>1, <3>2, <3>3, <3>4
  <2> QED
    BY <1>3, <2>1 DEF Untouched
<1>10. ScanInv'
  <2> SUFFICES ASSUME NEW q \in Path, Untouched(q)'
               PROVE  /\ file'[q].data = listing[q].data
                      /\ open' # None /\ open'.path = q =>
                            /\ open'.source = listing[q].data
                            /\ IsPrefixOf(open'.read, open'.source)
    BY DEF UploadsInv, ScanInv
  <2>1. q # p /\ Untouched(q) /\ file'[q] = file[q]
    BY <1>3, <1>9
  <2> QED
    BY <1>4, <2>1 DEF UploadsInv, ScanInv
<1>11. EntryInv'
  BY <1>9 DEF UploadsInv, EntryInv, Own
<1>12. PresenceInv' /\ NoFalseDeletion'
  BY DEF UploadsInv, PresenceInv, NoFalseDeletion, LastGood, ChunksAt
<1> QED
  BY <1>5, <1>6, <1>7, <1>8, <1>10, <1>11, <1>12 DEF UploadsInv

\* The three ways to edit.
LEMMA UserStep ==
    ASSUME UploadsInv, User
    PROVE  UploadsInv'
<1>1. PICK p \in Path :
         Remove(p) \/ \E data \in Content : Replace(p, data) \/ Rewrite(p, data)
  BY DEF User
<1>2. clock \in Nat /\ Stamp(clock) \in Nat
  BY Times, StampBound DEF UploadsInv
<1>3. \A data \in Content :
         [data |-> data, mtime |-> Stamp(clock)] \in Entry
  BY <1>2, UploadsAssumption DEF Entry
<1>4. CASE Remove(p)
  BY <1>4, EditStep DEF Remove
<1>5. ASSUME NEW data \in Content, Replace(p, data) PROVE UploadsInv'
  BY <1>3, <1>5, EditStep DEF Replace
<1>6. ASSUME NEW data \in Content, Rewrite(p, data) PROVE UploadsInv'
  BY <1>3, <1>6, EditStep DEF Rewrite
<1> QED
  BY <1>1, <1>4, <1>5, <1>6

\* What the relay loses is noted.
LEMMA LoseStep ==
    ASSUME UploadsInv, NEW k \in Chunk, Lose(k)
    PROVE  UploadsInv'
<1> USE DEF Lose, scan, uploader
<1>1. TypeOK'
  BY UploadsAssumption DEF UploadsInv, TypeOK
<1>2. PassInv' /\ ConfirmInv'
  BY DEF UploadsInv, PassInv, ConfirmInv, Refers, ChunksAt
<1>3. RecordInv' /\ ScanInv' /\ EntryInv'
  BY DEF UploadsInv, RecordInv, ScanInv, EntryInv, Own, Untouched
<1>4. PresenceInv' /\ NoFalseDeletion'
  BY DEF UploadsInv, PresenceInv, NoFalseDeletion, LastGood, ChunksAt
<1> QED
  BY <1>1, <1>2, <1>3, <1>4 DEF UploadsInv

-----------------------------------------------------------------------------
(***************************************************************************)
(* The batches of the uploader.                                            *)
(***************************************************************************)

\* What a batch, done or failed, may do: nothing buffered is forgotten, and
\* what is confirmed is at the relay.
Batched(buf) ==
    /\ pool \subseteq pool' /\ pool' \subseteq Chunk
    /\ seen' \subseteq Chunk /\ pending' \subseteq Chunk
    /\ seen' \cap pending' = {}
    /\ seen \cup buf \subseteq seen' \cup pending'
    /\ seen' \subseteq seen \cup pool'

\* Every outcome of a batch of chunks that are not confirmed yet.
LEMMA BatchKeeps ==
    ASSUME pool \subseteq Chunk, seen \subseteq Chunk, NEW buf \in SUBSET Chunk,
           seen \cap buf = {}, Flushed(buf) \/ FlushFails(buf)
    PROVE  Batched(buf) /\ (Flushed(buf) => pending' = {})
<1>1. CASE Flushed(buf)
  BY <1>1 DEF Flushed, Batched
<1>2. CASE AskFails(buf)
  BY <1>2 DEF AskFails, Batched, Flushed
<1>3. ASSUME NEW some \in SUBSET (buf \ pool), SendFails(buf, some)
      PROVE  Batched(buf) /\ (Flushed(buf) => pending' = {})
  BY <1>3 DEF SendFails, Batched, Flushed
<1>4. ASSUME NEW some \in SUBSET (buf \ pool), EntriesFail(buf, some)
      PROVE  Batched(buf) /\ (Flushed(buf) => pending' = {})
  BY <1>4 DEF EntriesFail, Batched, Flushed
<1> QED
  BY <1>1, <1>2, <1>3, <1>4 DEF FlushFails

\* The next chunk of an open file is a chunk.
LEMMA NextIsChunk ==
    ASSUME TypeOK, More
    PROVE  /\ NextChunk \in Chunk
           /\ open \in [path : left, source : Seq(Chunk), read : Seq(Chunk)]
           /\ Len(open.read) \in Nat /\ Len(open.source) \in Nat
<1>1. open \in [path : left, source : Seq(Chunk), read : Seq(Chunk)]
  BY DEF TypeOK, More
<1>2. open.source \in Seq(Chunk) /\ open.read \in Seq(Chunk)
  BY <1>1, UploadsAssumption
<1>3. Len(open.read) + 1 \in 1..Len(open.source)
  BY <1>2, LenProperties DEF More
<1> QED
  BY <1>1, <1>2, <1>3, ElementOfSeq, LenProperties DEF NextChunk

-----------------------------------------------------------------------------
(***************************************************************************)
(* The scan.                                                               *)
(***************************************************************************)

\* A pass begins.
LEMMA BeginStep ==
    ASSUME UploadsInv, Begin
    PROVE  UploadsInv'
<1> USE DEF Begin, world, uploader
<1>1. TypeOK' /\ at' \in Nat /\ clock \in Nat
  BY Times DEF UploadsInv, TypeOK
<1>2. listing = Empty /\ new = Empty /\ \A p \in Path : Empty[p] = Absent
  BY DEF UploadsInv, PassInv, Empty
<1>3. PassInv' /\ ConfirmInv'
  BY DEF UploadsInv, PassInv, ConfirmInv, Refers, ChunksAt
<1>4. RecordInv' /\ ScanInv' /\ EntryInv'
  BY <1>1, <1>2 DEF UploadsInv, RecordInv, ScanInv, EntryInv, Own, Untouched
<1>5. PresenceInv' /\ NoFalseDeletion'
  BY <1>2 DEF UploadsInv, PresenceInv, NoFalseDeletion, LastGood, ChunksAt
<1> QED
  BY <1>1, <1>3, <1>4, <1>5 DEF UploadsInv

\* The walk finds files as they are.
LEMMA ListStep ==
    ASSUME UploadsInv, NEW h \in SUBSET Path, NEW s \in SUBSET Path, List(h, s)
    PROVE  UploadsInv'
<1> USE DEF List, uploader, history
<1>1. TypeOK
  BY DEF UploadsInv
<1>2. file \in Files /\ new \in Files /\ record.files \in Files
  BY <1>1, Times
<1>3. listing' \in Files
      /\ \A p \in Path : listing'[p] \in {Absent, file[p]}
                         /\ (p \in left' => listing'[p] # Absent)
                         /\ (listing'[p] # Absent => p \in left')
                         /\ (p \in hidden' => listing'[p] = Absent)
  BY <1>2 DEF Files
<1>4. /\ new = Empty /\ seen = {} /\ pending = {} /\ reused = {} /\ kept = {}
      /\ open = None /\ listing = Empty
  BY DEF UploadsInv, PassInv
<1>5. faults' \in 0..MaxFaults
  BY <1>1, UploadsAssumption DEF TypeOK, Fault
<1>6. present' \subseteq Chunk
  BY <1>1 DEF TypeOK
<1>7. TypeOK'
  BY <1>1, <1>3, <1>4, <1>5, <1>6 DEF TypeOK
<1>8. PassInv'
  BY <1>3, <1>4 DEF PassInv
<1>9. \A p \in Path : Empty[p] = Absent
  BY DEF Empty
<1>10. Refers(new') = {}
  BY <1>4, <1>9 DEF Refers, ChunksAt
<1>11. ConfirmInv'
  BY <1>4, <1>10 DEF ConfirmInv
<1>12. RecordInv'
  BY <1>3 DEF UploadsInv, RecordInv
<1>13. ScanInv'
  BY <1>3, <1>4 DEF UploadsInv, ScanInv, Untouched
<1>14. EntryInv' /\ PresenceInv' /\ NoFalseDeletion'
  BY <1>3, <1>4, <1>9 DEF EntryInv, PresenceInv, NoFalseDeletion
<1> QED
  BY <1>7, <1>8, <1>11, <1>12, <1>13, <1>14 DEF UploadsInv

\* A cached entry is what the walk found, and its chunks are at the relay.
LEMMA ReuseStep ==
    ASSUME UploadsInv, NEW p \in Path, Reuse(p)
    PROVE  UploadsInv'
<1> USE DEF Reuse, world, uploader
<1>1. TypeOK
  BY DEF UploadsInv
<1>2. new \in Files /\ record.files \in Files /\ listing \in Files
      /\ record.at \in Nat /\ at \in Nat
  BY <1>1, Times
<1>3. /\ record.files[p] # Absent /\ record.files[p].mtime = listing[p].mtime
      /\ Settled(record.files[p].mtime, record.at)
      /\ ChunksAt(record.files, p) \subseteq present
  BY DEF Reusable, LastGood, Settled
<1>4. listing[p] # Absent /\ p \notin reused \cup kept
  BY DEF UploadsInv, PassInv
<1>5. /\ new' \in Files /\ new'[p] = record.files[p]
      /\ \A q \in Path \ {p} : new'[q] = new[q]
  BY <1>2 DEF Files
<1>6. TypeOK'
  BY <1>1, <1>5 DEF TypeOK
<1>7. PassInv'
  BY <1>3, <1>4, <1>5 DEF UploadsInv, PassInv, TypeOK
<1>8. ConfirmInv'
  <2>1. \A q \in Path : ChunksAt(new', q) \subseteq seen \cup pending \cup present
    BY <1>3, <1>5 DEF UploadsInv, ConfirmInv, Refers, ChunksAt
  <2> QED
    BY <2>1 DEF UploadsInv, ConfirmInv, Refers
<1>9. RecordInv' /\ ScanInv'
  BY DEF UploadsInv, RecordInv, ScanInv, Untouched
<1>10. EntryInv'
  <2> SUFFICES ASSUME NEW q \in Path, new'[q] # Absent, Own(q)'
               PROVE  /\ listing[q] # Absent /\ new'[q].mtime = listing[q].mtime
                      /\ Untouched(q) \/ q \in reused' => new'[q].data = listing[q].data
    BY DEF EntryInv, Untouched
  <2>1. CASE q = p
    <3>1. p \notin carried
      BY <2>1 DEF Own
    <3>2. listing[p].data = record.files[p].data
      BY <1>3, <1>4, <3>1 DEF UploadsInv, RecordInv
    <3> QED
      BY <1>3, <1>4, <1>5, <2>1, <3>2
  <2>2. CASE q # p
    BY <1>5, <2>2 DEF UploadsInv, EntryInv, Own
  <2> QED
    BY <2>1, <2>2
<1>11. PresenceInv' /\ NoFalseDeletion'
  BY <1>3, <1>5 DEF UploadsInv, PresenceInv, NoFalseDeletion, LastGood, ChunksAt
<1> QED
  BY <1>6, <1>7, <1>8, <1>9, <1>10, <1>11 DEF UploadsInv

\* A file is opened with what it holds now.
LEMMA OpenStep ==
    ASSUME UploadsInv, NEW p \in Path, Open(p)
    PROVE  UploadsInv'
<1> USE DEF Open, world, uploader, history
<1>1. TypeOK
  BY DEF UploadsInv
<1>2. file[p].data \in Seq(Chunk)
  BY <1>1, Times, EntryOrNone
<1>3. <<>> \in Seq(Chunk) /\ Len(<<>>) = 0
  BY EmptySeq
<1>4. open' \in [path : left, source : Seq(Chunk), read : Seq(Chunk)]
  BY <1>2, <1>3
<1>5. TypeOK'
  BY <1>1, <1>4 DEF TypeOK
<1>6. PassInv'
  BY DEF UploadsInv, PassInv
<1>7. ConfirmInv'
  <2>1. Chunks(<<>>) = {}
    BY DEF Chunks
  <2> QED
    BY <2>1 DEF UploadsInv, ConfirmInv, Refers, ChunksAt
<1>8. RecordInv' /\ EntryInv' /\ PresenceInv' /\ NoFalseDeletion'
  BY DEF UploadsInv, RecordInv, EntryInv, Own, Untouched, PresenceInv,
         NoFalseDeletion, LastGood, ChunksAt
<1>9. ScanInv'
  <2>1. Len(file[p].data) \in Nat
    BY <1>2, LenProperties
  <2>2. IsPrefixOf(<<>>, file[p].data)
    BY <1>3, <2>1 DEF IsPrefixOf
  <2> QED
    BY <2>2 DEF UploadsInv, ScanInv, Untouched
<1> QED
  BY <1>5, <1>6, <1>7, <1>8, <1>9 DEF UploadsInv

\* One more chunk is read, and buffered or known.
LEMMA ReadChunkStep ==
    ASSUME UploadsInv, ReadChunk
    PROVE  UploadsInv'
<1> USE DEF ReadChunk, world, history
<1>1. TypeOK
  BY DEF UploadsInv
<1> DEFINE k == NextChunk
<1>2. /\ k \in Chunk
      /\ open \in [path : left, source : Seq(Chunk), read : Seq(Chunk)]
      /\ Len(open.read) \in Nat /\ Len(open.source) \in Nat
  BY <1>1, NextIsChunk
<1>3. Batched(pending \cup {k})
  <2>1. pool \subseteq Chunk /\ seen \subseteq Chunk /\ pending \subseteq Chunk
        /\ seen \cap pending = {}
    BY <1>1 DEF TypeOK
  <2>2. CASE Known(k) /\ UNCHANGED <<pool, seen, pending>>
    BY <1>2, <2>1, <2>2 DEF Batched, Known
  <2>3. CASE ~Known(k) /\ pending' = pending \cup {k} /\ UNCHANGED <<pool, seen>>
    BY <1>2, <2>1, <2>3 DEF Batched, Known
  <2>4. CASE ~Known(k) /\ Flushed(pending \cup {k})
    BY <1>2, <2>1, <2>4, BatchKeeps DEF Known
  <2> QED
    BY <2>2, <2>3, <2>4
<1>4. /\ Append(open.read, k) \in Seq(Chunk)
      /\ Len(Append(open.read, k)) = Len(open.read) + 1
      /\ \A i \in 1..Len(open.read) : Append(open.read, k)[i] = open.read[i]
      /\ Append(open.read, k)[Len(open.read) + 1] = k
  BY <1>2, AppendProperties
<1>5. /\ open' \in [path : left, source : Seq(Chunk), read : Seq(Chunk)]
      /\ open'.path = open.path /\ open'.source = open.source
      /\ open'.read = Append(open.read, k) /\ open # None
  BY <1>2, <1>4 DEF More
<1>6. open' # None
  BY <1>1, <1>5, UploadsAssumption DEF TypeOK
<1> HIDE DEF k
<1>7. TypeOK'
  BY <1>1, <1>3, <1>5 DEF TypeOK, Batched
<1>8. PassInv'
  BY <1>5, <1>6 DEF UploadsInv, PassInv
<1>9. ConfirmInv'
  <2>1. seen' \cup present' \subseteq pool' \cup lost'
    BY <1>3 DEF UploadsInv, ConfirmInv, Batched
  <2>2. Refers(new)' \subseteq seen' \cup pending' \cup present'
    BY <1>3 DEF UploadsInv, ConfirmInv, Batched, Refers, ChunksAt
  <2>3. Chunks(open'.read) \subseteq seen' \cup pending'
    <3> SUFFICES ASSUME NEW i \in DOMAIN open'.read
                 PROVE  open'.read[i] \in seen' \cup pending'
      BY DEF Chunks
    <3>1. i \in 1..(Len(open.read) + 1)
      BY <1>4, <1>5, LenProperties
    <3>2. CASE i = Len(open.read) + 1
      BY <1>3, <1>4, <1>5, <3>2 DEF Batched
    <3>3. CASE i \in 1..Len(open.read)
      <4>1. open.read[i] \in Chunks(open.read)
        BY <1>2, <3>3, LenProperties DEF Chunks
      <4> QED
        BY <1>3, <1>4, <1>5, <3>3, <4>1 DEF UploadsInv, ConfirmInv, Batched
    <3> QED
      BY <1>2, <3>1, <3>2, <3>3
  <2> QED
    BY <2>1, <2>2, <2>3 DEF ConfirmInv
<1>10. RecordInv' /\ EntryInv' /\ PresenceInv' /\ NoFalseDeletion'
  BY DEF UploadsInv, RecordInv, EntryInv, Own, Untouched, PresenceInv,
         NoFalseDeletion, LastGood, ChunksAt
<1>11. ScanInv'
  <2> SUFFICES ASSUME NEW q \in Path, Untouched(q), open.path = q
               PROVE  /\ open.source = listing[q].data
                      /\ IsPrefixOf(Append(open.read, k), open.source)
    BY <1>5 DEF UploadsInv, ScanInv, Untouched
  <2>1. open.source = listing[q].data /\ IsPrefixOf(open.read, open.source)
    BY <1>5 DEF UploadsInv, ScanInv
  <2>2. Len(open.read) + 1 <= Len(open.source) /\ k = open.source[Len(open.read) + 1]
    BY <1>2 DEF More, NextChunk, k
  <2>3. \A i \in 1..(Len(open.read) + 1) : Append(open.read, k)[i] = open.source[i]
    BY <1>2, <1>4, <2>1, <2>2 DEF IsPrefixOf
  <2> QED
    BY <1>4, <2>1, <2>2, <2>3 DEF IsPrefixOf
<1> QED
  BY <1>7, <1>8, <1>9, <1>10, <1>11 DEF UploadsInv

\* A file that is skipped has its last-good entry, or none.
LEMMA SkipStep ==
    ASSUME UploadsInv, NEW p \in left, Skip(p), Batched(pending),
           phase = "reading", open # None => open.path = p,
           faults' \in 0..MaxFaults,
           UNCHANGED <<clock, edits, losses, file, record, phase, at, listing,
                       hidden, present, reused, carried, lost>>
    PROVE  UploadsInv'
<1> USE DEF Skip
<1>1. TypeOK
  BY DEF UploadsInv
<1>2. p \in Path /\ new \in Files /\ record.files \in Files
  BY <1>1, Times DEF TypeOK
<1>3. listing[p] # Absent /\ p \notin reused \cup kept
  BY DEF UploadsInv, PassInv
<1>4. CASE LastGood(p)
  <2>1. /\ new' \in Files /\ new'[p] = record.files[p] /\ new'[p] # Absent
        /\ \A q \in Path \ {p} : new'[q] = new[q]
        /\ kept' = kept \cup {p}
    BY <1>2, <1>4 DEF Files, LastGood
  <2>2. TypeOK'
    BY <1>1, <1>2, <2>1 DEF TypeOK, Batched
  <2>3. PassInv'
    BY <1>3, <2>1 DEF UploadsInv, PassInv, TypeOK
  <2>4. ConfirmInv'
    <3>1. \A q \in Path : ChunksAt(new', q) \subseteq seen' \cup pending' \cup present
      BY <1>4, <2>1 DEF UploadsInv, ConfirmInv, Refers, ChunksAt, LastGood, Batched
    <3> QED
      BY <3>1 DEF UploadsInv, ConfirmInv, Refers, Batched
  <2>5. RecordInv' /\ ScanInv'
    BY DEF UploadsInv, RecordInv, ScanInv, Untouched
  <2>6. EntryInv'
    BY <2>1 DEF UploadsInv, EntryInv, Own, Untouched
  <2>7. PresenceInv' /\ NoFalseDeletion'
    BY <2>1 DEF UploadsInv, PresenceInv, NoFalseDeletion, LastGood, ChunksAt
  <2> QED
    BY <2>2, <2>3, <2>4, <2>5, <2>6, <2>7 DEF UploadsInv
<1>5. CASE ~LastGood(p)
  <2>1. new' = new /\ kept' = kept
    BY <1>5
  <2>2. TypeOK'
    BY <1>1, <2>1 DEF TypeOK, Batched
  <2>3. PassInv'
    BY <2>1 DEF UploadsInv, PassInv
  <2>4. ConfirmInv'
    BY <2>1 DEF UploadsInv, ConfirmInv, Batched, Refers, ChunksAt
  <2>5. RecordInv' /\ ScanInv' /\ EntryInv'
    BY <2>1 DEF UploadsInv, RecordInv, ScanInv, EntryInv, Own, Untouched
  <2>6. PresenceInv' /\ NoFalseDeletion'
    BY <1>5, <2>1 DEF UploadsInv, PresenceInv, NoFalseDeletion, LastGood, ChunksAt
  <2> QED
    BY <2>2, <2>3, <2>4, <2>5, <2>6 DEF UploadsInv
<1> QED
  BY <1>4, <1>5

\* A batch of nothing new.
LEMMA NoBatch ==
    ASSUME TypeOK, UNCHANGED <<pool, seen, pending>>
    PROVE  Batched(pending)
  BY DEF TypeOK, Batched

\* The file is gone.
LEMMA VanishedStep ==
    ASSUME UploadsInv, NEW p \in Path, Vanished(p)
    PROVE  UploadsInv'
<1>1. TypeOK /\ faults' \in 0..MaxFaults
  BY DEF UploadsInv, TypeOK, Vanished, world
<1>2. Batched(pending)
  BY <1>1, NoBatch DEF Vanished, uploader
<1> QED
  BY <1>1, <1>2, SkipStep DEF Vanished, world

\* The file cannot be read, or not be sent.
LEMMA ReadFailsStep ==
    ASSUME UploadsInv, ReadFails
    PROVE  UploadsInv'
<1>1. TypeOK /\ faults' \in 0..MaxFaults
  BY UploadsAssumption DEF UploadsInv, TypeOK, ReadFails, Fault
<1>2. open # None /\ open.path \in left /\ phase = "reading"
  BY <1>1 DEF TypeOK, ReadFails, UploadsInv, PassInv
<1>3. Batched(pending)
  <2>1. CASE UNCHANGED <<pool, seen, pending>>
    BY <1>1, <2>1, NoBatch
  <2>2. CASE More /\ ~Known(NextChunk) /\ FlushFails(pending \cup {NextChunk})
    <3>1. pool \subseteq Chunk /\ seen \subseteq Chunk
          /\ pending \cup {NextChunk} \subseteq Chunk
          /\ seen \cap (pending \cup {NextChunk}) = {}
      BY <1>1, <2>2, NextIsChunk DEF TypeOK, Known
    <3>2. Batched(pending \cup {NextChunk})
      BY <2>2, <3>1, BatchKeeps
    <3> QED
      BY <3>2 DEF Batched
  <2> QED
    BY <2>1, <2>2 DEF ReadFails
<1> QED
  BY <1>1, <1>2, <1>3, SkipStep DEF ReadFails

\* The entry of a file has the walk's time and what was read.
LEMMA CloseStep ==
    ASSUME UploadsInv, Close
    PROVE  UploadsInv'
<1> USE DEF Close, world, uploader, history
<1>1. TypeOK
  BY DEF UploadsInv
<1> DEFINE p == open.path
           e == [data |-> open.read, mtime |-> listing[open.path].mtime]
<1>2. /\ p \in left /\ p \in Path /\ open.read \in Seq(Chunk)
      /\ open.source \in Seq(Chunk)
      /\ new \in Files /\ listing \in Files
  BY <1>1, Times DEF TypeOK
<1>3. listing[p] # Absent /\ p \notin reused \cup kept
  BY <1>2 DEF UploadsInv, PassInv
<1>4. e \in Entry /\ e # Absent
  BY <1>2, <1>3, EntryOrNone, UploadsAssumption DEF Entry
<1>5. /\ new' \in Files /\ new'[p] = e
      /\ \A q \in Path \ {p} : new'[q] = new[q]
      /\ left' = left \ {p}
  BY <1>2, <1>4 DEF Files
<1>6. e.data = open.read /\ e.mtime = listing[p].mtime
  OBVIOUS
<1>7. Untouched(p) => open.read = listing[p].data
  <2> SUFFICES ASSUME Untouched(p) PROVE open.read = open.source
    BY <1>2 DEF UploadsInv, ScanInv
  <2>1. IsPrefixOf(open.read, open.source) /\ ~(Len(open.read) < Len(open.source))
    BY <1>2 DEF UploadsInv, ScanInv, More
  <2>2. Len(open.read) = Len(open.source)
        /\ \A i \in 1..Len(open.read) : open.read[i] = open.source[i]
    BY <1>2, <2>1, LenProperties DEF IsPrefixOf
  <2> QED
    BY <1>2, <2>2, SeqEqual
<1> HIDE DEF p, e
<1>8. TypeOK'
  BY <1>1, <1>5 DEF TypeOK
<1>9. PassInv'
  BY <1>3, <1>4, <1>5 DEF UploadsInv, PassInv, TypeOK
<1>10. ConfirmInv'
  <2>1. ChunksAt(new', p) \subseteq seen \cup pending
    BY <1>4, <1>5, <1>6 DEF UploadsInv, ConfirmInv, ChunksAt
  <2>2. \A q \in Path : ChunksAt(new', q) \subseteq seen \cup pending \cup present
    BY <1>5, <2>1 DEF UploadsInv, ConfirmInv, Refers, ChunksAt
  <2> QED
    BY <2>2 DEF UploadsInv, ConfirmInv, Refers
<1>11. RecordInv' /\ ScanInv'
  BY DEF UploadsInv, RecordInv, ScanInv, Untouched
<1>12. EntryInv'
  BY <1>3, <1>5, <1>6, <1>7 DEF UploadsInv, EntryInv, Own, Untouched
<1>13. PresenceInv' /\ NoFalseDeletion'
  BY <1>4, <1>5 DEF UploadsInv, PresenceInv, NoFalseDeletion, LastGood, ChunksAt
<1> QED
  BY <1>8, <1>9, <1>10, <1>11, <1>12, <1>13 DEF UploadsInv

\* What the walk could not look at is in the manifest again.
LEMMA FinishStep ==
    ASSUME UploadsInv, Finish
    PROVE  UploadsInv'
<1> USE DEF Finish, world, uploader
<1>1. TypeOK
  BY DEF UploadsInv
<1>2. new \in Files /\ record.files \in Files
  BY <1>1, Times
<1>3. Retained \subseteq Path /\ \A p \in Retained : record.files[p] # Absent
      /\ ChunksAt(record.files, p) \subseteq present
  BY <1>1 DEF TypeOK, Retained, LastGood
<1>4. /\ new' \in Files
      /\ \A p \in Path : new'[p] = IF p \in Retained THEN record.files[p] ELSE new[p]
  BY <1>2 DEF Files
<1>5. TypeOK'
  BY <1>1, <1>3, <1>4 DEF TypeOK
<1>6. Retained \cap reused = {}
  BY DEF UploadsInv, PassInv, Retained
<1>7. PassInv'
  BY <1>3, <1>4, <1>6 DEF UploadsInv, PassInv, TypeOK
<1>8. ConfirmInv'
  <2>1. \A p \in Path : ChunksAt(new', p) \subseteq seen \cup pending \cup present
    BY <1>3, <1>4 DEF UploadsInv, ConfirmInv, Refers, ChunksAt
  <2> QED
    BY <2>1 DEF UploadsInv, ConfirmInv, Refers
<1>9. RecordInv' /\ ScanInv'
  BY DEF UploadsInv, RecordInv, ScanInv, Untouched
<1>10. EntryInv'
  BY <1>4 DEF UploadsInv, EntryInv, Own, Untouched
<1>11. \A p \in Path : (p \in hidden \/ listing[p] # Absent) /\ LastGood(p)
                          => new'[p] # Absent
  BY <1>3, <1>4 DEF UploadsInv, PresenceInv, Retained
<1>12. PresenceInv' /\ NoFalseDeletion'
  BY <1>11 DEF PresenceInv, NoFalseDeletion, LastGood, ChunksAt
<1> QED
  BY <1>5, <1>7, <1>8, <1>9, <1>10, <1>12 DEF UploadsInv

-----------------------------------------------------------------------------
(***************************************************************************)
(* The rest of the pass, and all steps.                                    *)
(***************************************************************************)

\* The last batch confirms what is left.
LEMMA FlushStep ==
    ASSUME UploadsInv, Flush
    PROVE  UploadsInv'
<1> USE DEF Flush, world, scan, history
<1>1. TypeOK
  BY DEF UploadsInv
<1>2. pending' = {}
  BY DEF Flushed
<1>3. Batched(pending)
  BY <1>1, BatchKeeps DEF TypeOK
<1>4. TypeOK'
  BY <1>1, <1>3 DEF TypeOK, Batched
<1>5. PassInv'
  BY <1>2 DEF UploadsInv, PassInv
<1>6. ConfirmInv'
  BY <1>3 DEF UploadsInv, ConfirmInv, Batched, Refers, ChunksAt
<1>7. RecordInv' /\ ScanInv' /\ EntryInv'
  BY DEF UploadsInv, RecordInv, ScanInv, EntryInv, Own, Untouched
<1>8. PresenceInv' /\ NoFalseDeletion'
  BY DEF UploadsInv, PresenceInv, NoFalseDeletion, LastGood, ChunksAt
<1> QED
  BY <1>4, <1>5, <1>6, <1>7, <1>8 DEF UploadsInv

\* Nothing of a pass is left when it ends, whatever its record is.
LEMMA EndStep ==
    ASSUME UploadsInv, NEW ph \in {"idle", "fatal"}, EndsAt(ph),
           UNCHANGED <<clock, edits, losses, file, lost>>,
           faults' \in 0..MaxFaults, pool' \subseteq Chunk,
           record' \in Manifest, carried' \subseteq Path, record'.at <= clock,
           \A p \in Path \ carried' :
              record'.files[p] # Absent /\ Settled(record'.files[p].mtime, record'.at)
              /\ file[p] # Absent /\ file[p].mtime = record'.files[p].mtime =>
                 file[p].data = record'.files[p].data
    PROVE  UploadsInv'
<1> USE DEF EndsAt
<1>1. TypeOK /\ clock \in Nat
  BY Times DEF UploadsInv
<1>2. Empty \in Files /\ \A p \in Path : Empty[p] = Absent
  BY DEF Empty, Files
<1>3. TypeOK'
  <2>1. at' \in 0..MaxClock
    BY UploadsAssumption
  <2> QED
    BY <1>1, <1>2, <2>1 DEF TypeOK
<1>4. PassInv'
  BY DEF PassInv
<1>5. ConfirmInv'
  BY <1>2 DEF ConfirmInv, Refers, ChunksAt
<1>6. RecordInv'
  BY <1>2 DEF RecordInv
<1>7. ScanInv' /\ EntryInv' /\ PresenceInv' /\ NoFalseDeletion'
  BY <1>1, <1>2 DEF ScanInv, EntryInv, Untouched, PresenceInv, NoFalseDeletion
<1> QED
  BY <1>3, <1>4, <1>5, <1>6, <1>7 DEF UploadsInv

\* A pass that gives up leaves the record alone.
LEMMA GiveUpStep ==
    ASSUME UploadsInv, NEW ph \in {"idle", "fatal"}, EndsAt(ph),
           UNCHANGED <<clock, edits, losses, file, record, carried, lost>>,
           faults' \in 0..MaxFaults, pool' \subseteq Chunk
    PROVE  UploadsInv'
<1>1. record' \in Manifest /\ carried' \subseteq Path /\ record'.at <= clock
  BY DEF UploadsInv, TypeOK, RecordInv
<1>2. \A p \in Path \ carried' :
         record'.files[p] # Absent /\ Settled(record'.files[p].mtime, record'.at)
         /\ file[p] # Absent /\ file[p].mtime = record'.files[p].mtime =>
            file[p].data = record'.files[p].data
  BY DEF UploadsInv, RecordInv
<1> QED
  BY <1>1, <1>2, EndStep

\* A record that is made by its scan agrees with the tree where both have one
\* settled time.
LEMMA PublishStep ==
    ASSUME UploadsInv, Publish
    PROVE  UploadsInv'
<1> USE DEF Publish, world
<1>1. TypeOK /\ at \in Nat /\ at <= clock
  BY Times DEF UploadsInv, ScanInv
<1>2. faults' \in 0..MaxFaults /\ pool' \subseteq Chunk
  BY <1>1 DEF TypeOK
<1>3. CASE EndsAt("fatal") /\ UNCHANGED <<record, carried>>
  BY <1>2, <1>3, GiveUpStep
<1>4. CASE /\ record' = [at |-> at, files |-> new]
           /\ carried' = kept \cup (carried \cap reused)
           /\ EndsAt("idle")
  <2>1. record' \in Manifest /\ record'.at <= clock /\ carried' \subseteq Path
    BY <1>1, <1>4 DEF TypeOK, Manifest
  <2>2. ASSUME NEW p \in Path \ carried', new[p] # Absent,
               Settled(new[p].mtime, at), file[p] # Absent,
               file[p].mtime = new[p].mtime
        PROVE  file[p].data = new[p].data
    <3>1. Own(p)
      BY <1>4, <2>2 DEF Own
    <3>2. Untouched(p) /\ (Untouched(p) => new[p].data = listing[p].data)
      BY <2>2, <3>1 DEF UploadsInv, EntryInv, Untouched
    <3> QED
      BY <2>2, <3>2 DEF UploadsInv, ScanInv
  <2> QED
    BY <1>2, <1>4, <2>1, <2>2, EndStep
<1> QED
  BY <1>3, <1>4

\* The last batch fails, a request does, or the process dies.
LEMMA FailedPassStep ==
    ASSUME UploadsInv, FinalFlushFails \/ Interrupt
    PROVE  UploadsInv'
<1>1. faults' \in 0..MaxFaults
  BY UploadsAssumption DEF UploadsInv, TypeOK, FinalFlushFails, Interrupt, Fault
<1>2. pool' \subseteq Chunk
  BY DEF UploadsInv, TypeOK, FinalFlushFails, Interrupt
<1> QED
  BY <1>1, <1>2, GiveUpStep DEF FinalFlushFails, Interrupt

\* A step that changes nothing.
LEMMA UploadsStutter ==
    ASSUME UploadsInv, UNCHANGED vars
    PROVE  UploadsInv'
<1> USE DEF vars, world, scan, uploader, history
<1>1. TypeOK' /\ PassInv' /\ ConfirmInv'
  BY DEF UploadsInv, TypeOK, PassInv, ConfirmInv, Refers, ChunksAt
<1>2. RecordInv' /\ ScanInv' /\ EntryInv'
  BY DEF UploadsInv, RecordInv, ScanInv, EntryInv, Own, Untouched
<1>3. PresenceInv' /\ NoFalseDeletion'
  BY DEF UploadsInv, PresenceInv, NoFalseDeletion, LastGood, ChunksAt
<1> QED
  BY <1>1, <1>2, <1>3 DEF UploadsInv

\* Every step keeps the invariant.
LEMMA UploadsNext == UploadsInv /\ [Next]_vars => UploadsInv'
<1> SUFFICES ASSUME UploadsInv, [Next]_vars PROVE UploadsInv'
  OBVIOUS
<1>1. CASE User
  BY <1>1, UserStep
<1>2. CASE Advance
  BY <1>2, AdvanceStep
<1>3. CASE \E k \in Chunk : Lose(k)
  BY <1>3, LoseStep
<1>4. CASE Pass
  <2>1. List({}, {}) => UploadsInv'
    BY ListStep
  <2> QED
    BY <1>4, <2>1, BeginStep, ReadChunkStep, CloseStep, FinishStep, FlushStep,
       PublishStep, ReuseStep, OpenStep, VanishedStep DEF Pass
<1>5. CASE Failure
  BY <1>5, ListStep, ReadFailsStep, FailedPassStep DEF Failure
<1>6. CASE UNCHANGED vars
  BY <1>6, UploadsStutter
<1> QED
  BY <1>1, <1>2, <1>3, <1>4, <1>5, <1>6 DEF Next

\* The invariant holds throughout.
LEMMA UploadsInvariant == Spec => []UploadsInv
<1> QED
  BY UploadsInit, UploadsNext, PTL DEF Spec

-----------------------------------------------------------------------------
(***************************************************************************)
(* Theorems.                                                               *)
(***************************************************************************)

\* Every variable has its type; a chunk is buffered or confirmed, not both.
THEOREM UploadsTypeCorrect == Spec => []TypeOK
<1>1. UploadsInv => TypeOK
  BY DEF UploadsInv
<1> QED
  BY <1>1, UploadsInvariant, PTL

\* Taking a file's chunks from the cache hides no edit of it, however coarse
\* the timestamps are up to CACHE_SETTLE_SECS and whatever happened since,
\* unless the entry was carried over from an earlier record.
THEOREM CacheIsSound == Spec => []CacheHidesNoEdit
<1>1. UploadsInv => CacheHidesNoEdit
  <2> SUFFICES ASSUME UploadsInv, NEW p \in reused \ carried
               PROVE  new[p].data = listing[p].data
    BY DEF CacheHidesNoEdit
  <2>1. p \in Path /\ new[p] # Absent /\ Own(p)
    BY DEF UploadsInv, TypeOK, PassInv, Own
  <2> QED
    BY <2>1 DEF UploadsInv, EntryInv
<1> QED
  BY <1>1, UploadsInvariant, PTL

\* A manifest is submitted only with chunks that were at the relay at some
\* moment of its pass, whichever reads, batches and entries failed.
THEOREM SubmitsOnlyConfirmed == Spec => []NothingUnconfirmed
<1>1. UploadsInv => NothingUnconfirmed
  BY DEF UploadsInv, PassInv, ConfirmInv, NothingUnconfirmed
<1> QED
  BY <1>1, UploadsInvariant, PTL

\* What fails or cannot be looked at is not published as deleted while the
\* relay has its last-good content.
THEOREM FailuresDeleteNothing == Spec => []NoFalseDeletion
<1>1. UploadsInv => NoFalseDeletion
  BY DEF UploadsInv
<1> QED
  BY <1>1, UploadsInvariant, PTL
=============================================================================
