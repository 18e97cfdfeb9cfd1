---------------------------- MODULE DaemonProofs ----------------------------
(***************************************************************************)
(* Proofs about module Daemon, for any number of directories and loops.    *)
(*                                                                         *)
(* The properties are not inductive one by one.  Sound says what a loop's  *)
(* control and its thread have to do with each other at any moment;        *)
(* Process when the lock, restore's list and shutdown's round are in use;  *)
(* LoopsAreOwned, Answered and Drained relate registry, threads,           *)
(* daemon.json, the clients and the wait of a shutdown.                    *)
(***************************************************************************)
EXTENDS Daemon, TLAPS

\* A loop that begins a cycle after its stop is past its last look at the flag.
Sound(l) ==
    /\ l \in Loop
    /\ l.late <= 1
    /\ l.late > 0 => l.stop /\ l.phase # "entering"
    /\ l.error => l.phase \notin Live
    /\ l.phase \notin Live => l.error \/ l.stop
    /\ l.phase = "cycling" => l.inCycle

AllSound == \A i \in DOMAIN loop : Sound(loop[i])

Process ==
    /\ request # {} => status \in {"serving", "returned"}
    /\ status # "restoring" => todo = {}
    /\ status # "draining" => polled = {}

RegisteredSet == {loop[i].reg : i \in registered}

Agrees(p, answer, S) ==
    IF answer = "gone" THEN \A r \in S : r.path # p
    ELSE [path |-> p, kind |-> answer] \in S

\* While restore runs, what it has not brought back yet is on its list; while
\* a request runs, its path is nobody's promise and the registry has its answer.
Answered ==
    /\ status = "restoring" => RegisteredSet \cup todo = saved
    /\ \A p \in Path : promise[p] # "unknown" =>
          /\ Agrees(p, promise[p], saved)
          /\ status \in {"serving", "draining", "returned"} =>
                Agrees(p, promise[p], RegisteredSet)
    /\ \A q \in request :
          promise[q.path] = "unknown" /\ Agrees(q.path, q.answer, RegisteredSet)

Drained ==
    status = "draining" =>
        /\ \A i \in registered : loop[i].stop
        /\ \A i \in polled : loop[i].phase = "cycling" => loop[i].late > 0

Inv == TypeOK /\ AllSound /\ Process /\ LoopsAreOwned /\ Answered /\ Drained

-----------------------------------------------------------------------------
\* The loops that start and restore spawn are sound.
LEMMA SpawnedSound ==
    ASSUME NEW r \in Registration, token \in BOOLEAN
    PROVE  /\ Sound(NewLoop(r)) /\ NewLoop(r).reg = r
           /\ Sound(Resumed(r)) /\ Resumed(r).reg = r
<1>1. r.kind \in Kind /\ r \in Registration
  BY DEF Registration
<1>2. Sound(NewLoop(r)) /\ NewLoop(r).reg = r
  BY <1>1 DEF Sound, NewLoop, Loop, Phase, Live
<1> DEFINE n == NewLoop(r)
           l == [n EXCEPT !.phase = "unspawned", !.error = TRUE]
<1>3. Sound(l) /\ l.reg = r
  <2>1. n \in Loop /\ n.late = 0 /\ n.reg = r /\ ~n.inCycle
    BY <1>1 DEF NewLoop, Loop, Phase, Live
  <2> HIDE DEF n
  <2>2. /\ l \in Loop /\ l.late = 0 /\ l.reg = r
        /\ l.phase = "unspawned" /\ l.error
    BY <2>1 DEF Loop, Phase, Live
  <2> HIDE DEF l
  <2> QED
    BY <2>2 DEF Sound, Live
<1>4. CASE NeedsToken(r) /\ ~token
  BY <1>2, <1>3, <1>4 DEF Resumed
<1>5. CASE ~(NeedsToken(r) /\ ~token)
  BY <1>2, <1>5 DEF Resumed
<1> QED
  BY <1>4, <1>5

\* One step of a thread: only its own loop changes, and it stays sound, keeps
\* its registration and its flag, does not come back to life, and enters a
\* stopped cycle only as a late one.
Advances(i, l) ==
    /\ loop' = [loop EXCEPT ![i] = l]
    /\ Sound(l) /\ l.reg = loop[i].reg /\ l.stop = loop[i].stop
    /\ l.phase \in Live => loop[i].phase \in Live
    /\ l.phase = "cycling" /\ l.stop => l.late > 0

\* What every step of a thread leaves alone.
LEMMA ThreadFrame ==
    ASSUME NEW i \in LoopId, ThreadStep(i)
    PROVE  /\ i \in DOMAIN loop /\ status \in Up
           /\ UNCHANGED <<status, registered, saved, todo, token, request, polled, promise>>
BY DEF ThreadStep, Started, StartFails, GivesUpKey, Retire, Wake, EnterCycle,
       EndCycle, SourceGone, ParkFatal, ReturnFatal, Demote, Step

\* Every step of a thread advances its loop.
LEMMA ThreadAdvances ==
    ASSUME NEW i \in LoopId, Inv, ThreadStep(i)
    PROVE  \E l : Advances(i, l)
<1> DEFINE c == loop[i]
<1>1. i \in DOMAIN loop
  BY ThreadFrame
<1>2. c \in Loop /\ Sound(c)
  BY <1>1 DEF Inv, AllSound, Sound
<1>3. /\ c.reg \in Registration /\ c.body \in Kind /\ c.phase \in Phase
      /\ c.stop \in BOOLEAN /\ c.error \in BOOLEAN /\ c.inCycle \in BOOLEAN
      /\ c.late \in Nat
  BY <1>2 DEF Loop
<1>4. CASE Started(i)
  <2>1. Advances(i, [c EXCEPT !.phase = "waiting"])
    BY <1>2, <1>3, <1>4 DEF Started, Step, Advances, Sound, Loop, Phase, Live
  <2> QED
    BY <2>1
<1>5. CASE StartFails(i)
  <2>1. Advances(i, [c EXCEPT !.phase = "returned", !.error = TRUE])
    BY <1>2, <1>3, <1>5 DEF StartFails, Step, Advances, Sound, Loop, Phase, Live
  <2> QED
    BY <2>1
<1>6. CASE GivesUpKey(i)
  <2>1. Advances(i, [c EXCEPT !.phase = "returned"])
    BY <1>2, <1>3, <1>6 DEF GivesUpKey, Step, Advances, Sound, Loop, Phase, Live
  <2> QED
    BY <2>1
<1>7. CASE Retire(i)
  <2>1. Advances(i, [c EXCEPT !.phase = IF c.body = "mirror" THEN "returned"
                                        ELSE "parked"])
    BY <1>2, <1>3, <1>7 DEF Retire, Done, Step, Advances, Sound, Loop, Phase, Live
  <2> QED
    BY <2>1
<1>8. CASE Wake(i)
  <2>1. Advances(i, [c EXCEPT !.phase = "entering"])
    BY <1>2, <1>3, <1>8 DEF Wake, Done, Step, Advances, Sound, Loop, Phase, Live
  <2> QED
    BY <2>1
<1>9. CASE EnterCycle(i)
  <2> DEFINE n == IF c.stop THEN c.late + 1 ELSE c.late
             d == [c EXCEPT !.phase = "cycling", !.inCycle = TRUE, !.late = n]
  <2>1. c.phase = "entering" /\ loop' = [loop EXCEPT ![i] = d]
    BY <1>9 DEF EnterCycle, Step
  <2>2. c.late = 0 /\ ~c.error
    BY <1>2, <1>3, <2>1 DEF Sound, Live
  <2>3. n \in Nat /\ n <= 1 /\ (n > 0 <=> c.stop)
    BY <1>3, <2>2
  <2>4. /\ d \in Loop /\ d.phase = "cycling" /\ d.inCycle /\ d.late = n
        /\ d.error = c.error /\ d.stop = c.stop /\ d.reg = c.reg
    <3> HIDE DEF n
    <3> QED
      BY <1>2, <1>3, <2>3 DEF Loop, Phase, Live
  <2>5. Sound(d)
    BY <2>2, <2>3, <2>4 DEF Sound, Live
  <2>6. Advances(i, d)
    <3> HIDE DEF d
    <3> QED
      BY <2>1, <2>3, <2>4, <2>5 DEF Advances, Live
  <2> QED
    BY <2>6
<1>10. CASE EndCycle(i)
  <2>1. Advances(i, [c EXCEPT !.phase = "waiting", !.inCycle = FALSE])
    BY <1>2, <1>3, <1>10 DEF EndCycle, Step, Advances, Sound, Loop, Phase, Live
  <2> QED
    BY <2>1
<1>11. CASE SourceGone(i)
  <2>1. Advances(i, [c EXCEPT !.phase = "returned", !.error = TRUE])
    BY <1>2, <1>3, <1>11 DEF SourceGone, Step, Advances, Sound, Loop, Phase, Live
  <2> QED
    BY <2>1
<1>12. CASE ParkFatal(i)
  <2>1. Advances(i, [c EXCEPT !.phase = "parked", !.error = TRUE])
    BY <1>2, <1>3, <1>12 DEF ParkFatal, Step, Advances, Sound, Loop, Phase, Live
  <2> QED
    BY <2>1
<1>13. CASE ReturnFatal(i)
  <2>1. Advances(i, [c EXCEPT !.phase = "returned", !.error = TRUE, !.inCycle = FALSE])
    BY <1>2, <1>3, <1>13 DEF ReturnFatal, Step, Advances, Sound, Loop, Phase, Live
  <2> QED
    BY <2>1
<1>14. CASE Demote(i)
  <2>1. Advances(i, [c EXCEPT !.phase = "starting", !.body = "mirror", !.inCycle = FALSE])
    BY <1>2, <1>3, <1>14 DEF Demote, Step, Advances, Sound, Loop, Phase, Live, Kind
  <2> QED
    BY <2>1
<1> QED
  BY <1>4, <1>5, <1>6, <1>7, <1>8, <1>9, <1>10, <1>11, <1>12, <1>13, <1>14
     DEF ThreadStep

-----------------------------------------------------------------------------
\* What a spawned loop adds: it is registered and sound, its directory had no
\* loop, and nothing else changes.
LEMMA SpawnKeeps ==
    ASSUME Inv, NEW r \in Registration, NEW i \in LoopId \ DOMAIN loop, NEW l,
           Sound(l), l.reg = r, ~Taken(r.path),
           loop' = Spawn(i, l), registered' = registered \cup {i}
    PROVE  /\ DOMAIN loop' \subseteq LoopId /\ loop' \in [DOMAIN loop' -> Loop]
           /\ registered' \subseteq DOMAIN loop'
           /\ AllSound' /\ LoopsAreOwned'
           /\ RegisteredSet' = RegisteredSet \cup {r}
           /\ \A j \in registered : j \in DOMAIN loop /\ loop'[j] = loop[j]
<1>1. DOMAIN loop' = DOMAIN loop \cup {i} /\ loop'[i] = l
  BY DEF Spawn
<1>2. \A j \in DOMAIN loop : j # i /\ loop'[j] = loop[j]
  BY DEF Spawn
<1>3. registered \subseteq DOMAIN loop /\ l \in Loop /\ DOMAIN loop \subseteq LoopId
  BY DEF Inv, TypeOK, Sound
<1>4. loop' \in [DOMAIN loop' -> Loop]
  BY <1>3 DEF Spawn, Inv, TypeOK
<1>5. AllSound'
  BY <1>1, <1>2 DEF Inv, AllSound, Sound
<1>6. \A j \in registered : loop'[j].reg.path # r.path
  BY <1>2, <1>3 DEF Taken
<1>7. LoopsAreOwned'
  <2>1. \A j, k \in registered' :
            loop'[j].reg.path = loop'[k].reg.path => j = k
    <3>1. \A j, k \in registered : loop'[j].reg.path = loop'[k].reg.path => j = k
      BY <1>2, <1>3 DEF Inv, LoopsAreOwned
    <3> QED
      BY <3>1, <1>1, <1>6
  <2>2. \A j \in DOMAIN loop' :
            loop'[j].phase \in Live /\ ~loop'[j].stop => j \in registered'
    BY <1>1, <1>2 DEF Inv, LoopsAreOwned
  <2> QED
    BY <2>1, <2>2 DEF LoopsAreOwned
<1>8. RegisteredSet' = RegisteredSet \cup {r}
  BY <1>1, <1>2, <1>3 DEF RegisteredSet
<1> QED
  BY <1>1, <1>2, <1>3, <1>4, <1>5, <1>7, <1>8

\* A promise about another path is not affected by one more registration.
LEMMA AgreesMore ==
    ASSUME NEW p, NEW answer, NEW S, NEW r \in Registration, r.path # p,
           Agrees(p, answer, S)
    PROVE  Agrees(p, answer, S \cup {r})
BY DEF Agrees

\* restore brings back one registration.
LEMMA RestoreKeeps ==
    ASSUME Inv, NEW r \in Registration, NEW i \in LoopId, Restore(r, i)
    PROVE  Inv'
<1>1. /\ status = "restoring" /\ r \in todo /\ todo' = todo \ {r}
      /\ i \in LoopId \ DOMAIN loop /\ ~Taken(r.path)
      /\ UNCHANGED <<status, saved, token, request, polled, promise>>
      /\ loop' = Spawn(i, Resumed(r)) /\ registered' = registered \cup {i}
  BY DEF Restore
<1>2. token \in BOOLEAN
  BY DEF Inv, TypeOK
<1>3. Sound(Resumed(r)) /\ Resumed(r).reg = r
  BY <1>2, SpawnedSound
<1>4. /\ DOMAIN loop' \subseteq LoopId /\ loop' \in [DOMAIN loop' -> Loop]
      /\ registered' \subseteq DOMAIN loop'
      /\ AllSound' /\ LoopsAreOwned'
      /\ RegisteredSet' = RegisteredSet \cup {r}
  BY <1>1, <1>3, SpawnKeeps
<1>5. TypeOK'
  BY <1>1, <1>4 DEF Inv, TypeOK
<1>6. Process' /\ Drained'
  BY <1>1 DEF Inv, Process, Drained
<1>7. request' = {}
  BY <1>1 DEF Inv, Process
<1>8. Answered'
  BY <1>1, <1>4, <1>7 DEF Inv, Answered, Agrees
<1> QED
  BY <1>4, <1>5, <1>6, <1>8 DEF Inv

\* add registers a loop; until the write is done its path is not promised.
LEMMA AddKeeps ==
    ASSUME Inv, NEW r \in Registration, NEW i \in LoopId, Add(r, i)
    PROVE  Inv'
<1>1. /\ status \in {"serving", "returned"} /\ request = {}
      /\ todo = {} /\ polled = {}
      /\ i \in LoopId \ DOMAIN loop /\ ~Taken(r.path)
      /\ UNCHANGED <<status, saved, todo, token, polled>>
      /\ loop' = Spawn(i, NewLoop(r)) /\ registered' = registered \cup {i}
      /\ request' = {[path |-> r.path, answer |-> r.kind]}
      /\ promise' = [promise EXCEPT ![r.path] = "unknown"]
  BY DEF Add, Unlocked, Inv, Process
<1>2. r.path \in Path /\ r.kind \in Kind /\ r = [path |-> r.path, kind |-> r.kind]
  BY DEF Registration
<1>3. Sound(NewLoop(r)) /\ NewLoop(r).reg = r
  BY SpawnedSound DEF Inv, TypeOK
<1>4. /\ DOMAIN loop' \subseteq LoopId /\ loop' \in [DOMAIN loop' -> Loop]
      /\ registered' \subseteq DOMAIN loop'
      /\ AllSound' /\ LoopsAreOwned'
      /\ RegisteredSet' = RegisteredSet \cup {r}
  BY <1>1, <1>3, SpawnKeeps
<1>5. TypeOK'
  <2>1. promise' \in [Path -> Kind \cup {"gone", "unknown"}]
    BY <1>1, <1>2 DEF Inv, TypeOK
  <2>2. \E q \in Request : request' = {q}
    BY <1>1, <1>2 DEF Request
  <2> QED
    BY <1>1, <1>4, <2>1, <2>2 DEF Inv, TypeOK
<1>6. Process' /\ Drained'
  BY <1>1 DEF Process, Drained
<1>7. \A p \in Path : promise'[p] # "unknown" =>
          p # r.path /\ promise'[p] = promise[p]
  BY <1>1 DEF Inv, TypeOK
<1>8. Answered'
  <2>1. ASSUME NEW p \in Path, promise'[p] # "unknown"
        PROVE  Agrees(p, promise'[p], saved) /\ Agrees(p, promise'[p], RegisteredSet')
    <3>1. p # r.path /\ promise'[p] = promise[p]
      BY <2>1, <1>7
    <3>2. Agrees(p, promise[p], saved) /\ Agrees(p, promise[p], RegisteredSet)
      BY <2>1, <3>1, <1>1 DEF Inv, Answered
    <3> QED
      BY <3>1, <3>2, <1>4, AgreesMore
  <2>2. promise'[r.path] = "unknown"
    BY <1>1, <1>2 DEF Inv, TypeOK
  <2>3. r.kind # "gone" /\ r \in RegisteredSet'
    BY <1>2, <1>4 DEF Kind
  <2>4. Agrees(r.path, r.kind, RegisteredSet')
    BY <2>3, <1>2 DEF Agrees
  <2>5. \A q \in request' : q.path = r.path /\ q.answer = r.kind
    BY <1>1
  <2>6. status' # "restoring" /\ saved' = saved
    BY <1>1
  <2> QED
    BY <2>1, <2>2, <2>4, <2>5, <2>6 DEF Answered, Agrees
<1> QED
  BY <1>4, <1>5, <1>6, <1>8 DEF Inv

\* A step of a thread keeps all of Inv: the registry and the file are not its.
LEMMA ThreadKeeps ==
    ASSUME Inv, NEW i \in LoopId, ThreadStep(i)
    PROVE  Inv'
<1>1. /\ i \in DOMAIN loop /\ status \in Up
      /\ UNCHANGED <<status, registered, saved, todo, token, request, polled, promise>>
  BY ThreadFrame
<1>2. PICK l : Advances(i, l)
  BY ThreadAdvances
<1>3. /\ DOMAIN loop' = DOMAIN loop /\ loop'[i] = l
      /\ \A j \in DOMAIN loop : j # i => loop'[j] = loop[j]
      /\ loop' \in [DOMAIN loop' -> Loop]
  BY <1>1, <1>2 DEF Advances, Sound, Inv, TypeOK
<1>4. /\ Sound(l) /\ l.reg = loop[i].reg /\ l.stop = loop[i].stop
      /\ l.phase \in Live => loop[i].phase \in Live
      /\ l.phase = "cycling" /\ l.stop => l.late > 0
  BY <1>2 DEF Advances
<1>5. \A j \in DOMAIN loop :
          /\ loop'[j].reg = loop[j].reg /\ loop'[j].stop = loop[j].stop
          /\ loop'[j].phase \in Live => loop[j].phase \in Live
  BY <1>3, <1>4
<1>6. registered \subseteq DOMAIN loop /\ polled \subseteq registered
  BY DEF Inv, TypeOK
<1>7. TypeOK' /\ Process'
  BY <1>1, <1>3 DEF Inv, TypeOK, Process
<1>8. AllSound'
  BY <1>3, <1>4 DEF Inv, AllSound
<1>9. LoopsAreOwned'
  BY <1>1, <1>3, <1>5, <1>6 DEF Inv, LoopsAreOwned
<1>10. RegisteredSet' = RegisteredSet
  BY <1>1, <1>5, <1>6 DEF RegisteredSet
<1>11. Answered'
  BY <1>1, <1>10 DEF Inv, Answered, Agrees
<1>12. Drained'
  <2>1. ASSUME status = "draining" PROVE \A j \in registered : loop'[j].stop
    BY <2>1, <1>5, <1>6 DEF Inv, Drained
  <2>2. ASSUME status = "draining", NEW j \in polled, loop'[j].phase = "cycling"
        PROVE  loop'[j].late > 0
    <3>1. CASE j = i
      <4>1. loop'[j].stop
        BY <2>1, <2>2, <1>6
      <4> QED
        BY <3>1, <4>1, <2>2, <1>3, <1>4
    <3>2. CASE j # i
      <4>1. loop'[j] = loop[j]
        BY <3>2, <1>3, <1>6
      <4> QED
        BY <4>1, <2>2 DEF Inv, Drained
    <3> QED
      BY <3>1, <3>2
  <2> QED
    BY <2>1, <2>2, <1>1 DEF Inv, Drained
<1> QED
  BY <1>7, <1>8, <1>9, <1>11, <1>12 DEF Inv

\* remove takes one loop out of the registry and stops it; no other
\* registered loop has its directory, so the registry agrees with "gone".
LEMMA RemoveKeeps ==
    ASSUME Inv, NEW i \in LoopId, Remove(i)
    PROVE  Inv'
<1> DEFINE p0 == loop[i].reg.path
<1>1. /\ status \in {"serving", "returned"} /\ request = {}
      /\ todo = {} /\ polled = {}
      /\ i \in registered /\ registered' = registered \ {i}
      /\ loop' = [loop EXCEPT ![i].stop = TRUE]
      /\ request' = {[path |-> p0, answer |-> "gone"]}
      /\ promise' = [promise EXCEPT ![p0] = "unknown"]
      /\ UNCHANGED <<status, saved, todo, token, polled>>
  BY DEF Remove, Unlocked, Inv, Process
<1>2. /\ registered \subseteq DOMAIN loop /\ i \in DOMAIN loop
      /\ Sound(loop[i]) /\ loop[i] \in Loop
  BY <1>1 DEF Inv, TypeOK, AllSound, Sound
<1>3. p0 \in Path
  BY <1>2 DEF Loop, Registration
<1> DEFINE l == [loop[i] EXCEPT !.stop = TRUE]
<1>4. /\ l \in Loop /\ l.reg = loop[i].reg /\ l.stop
      /\ l.phase = loop[i].phase /\ l.late = loop[i].late
      /\ l.error = loop[i].error /\ l.inCycle = loop[i].inCycle
  BY <1>2 DEF Loop
<1>5. Sound(l)
  <2> HIDE DEF l
  <2> QED
    BY <1>2, <1>4 DEF Sound
<1>6. /\ DOMAIN loop' = DOMAIN loop /\ loop'[i] = l
      /\ \A j \in DOMAIN loop : j # i => loop'[j] = loop[j]
  BY <1>1, <1>2
<1> HIDE DEF l
<1>7. TypeOK'
  <2>1. loop' \in [DOMAIN loop' -> Loop]
    BY <1>1, <1>2, <1>4, <1>6 DEF Inv, TypeOK
  <2>2. promise' \in [Path -> Kind \cup {"gone", "unknown"}]
    BY <1>1, <1>3 DEF Inv, TypeOK
  <2>3. \E q \in Request : request' = {q}
    BY <1>1, <1>3 DEF Request
  <2> QED
    BY <1>1, <1>6, <2>1, <2>2, <2>3 DEF Inv, TypeOK
<1>8. AllSound'
  BY <1>5, <1>6 DEF Inv, AllSound
<1>9. Process' /\ Drained'
  BY <1>1 DEF Process, Drained
<1>10. \A j \in DOMAIN loop : loop'[j].reg = loop[j].reg
  BY <1>4, <1>6
<1>11. LoopsAreOwned'
  <2>1. \A j, k \in registered' : loop'[j].reg.path = loop'[k].reg.path => j = k
    BY <1>1, <1>2, <1>10 DEF Inv, LoopsAreOwned
  <2>2. \A j \in DOMAIN loop' :
            loop'[j].phase \in Live /\ ~loop'[j].stop => j \in registered'
    BY <1>1, <1>4, <1>6 DEF Inv, LoopsAreOwned
  <2> QED
    BY <2>1, <2>2 DEF LoopsAreOwned
<1>12. \A j \in registered' : loop'[j].reg.path # p0 /\ j \in registered
  BY <1>1, <1>2, <1>10 DEF Inv, LoopsAreOwned
<1>13. \A r : r \in RegisteredSet' <=> r \in RegisteredSet /\ r.path # p0
  <2>1. \A j \in registered : j \in registered' \/ j = i
    BY <1>1
  <2> QED
    BY <2>1, <1>2, <1>10, <1>12 DEF RegisteredSet
<1>14. Answered'
  <2>1. ASSUME NEW p \in Path, promise'[p] # "unknown"
        PROVE  Agrees(p, promise'[p], saved) /\ Agrees(p, promise'[p], RegisteredSet')
    <3>1. p # p0 /\ promise'[p] = promise[p]
      BY <2>1, <1>1, <1>3 DEF Inv, TypeOK
    <3>2. Agrees(p, promise[p], saved) /\ Agrees(p, promise[p], RegisteredSet)
      BY <2>1, <3>1, <1>1 DEF Inv, Answered
    <3>3. [path |-> p, kind |-> promise[p]].path = p
      OBVIOUS
    <3>4. Agrees(p, promise[p], RegisteredSet')
      BY <3>1, <3>2, <3>3, <1>13 DEF Agrees
    <3> QED
      BY <3>1, <3>2, <3>4
  <2>2. promise'[p0] = "unknown"
    BY <1>1, <1>3 DEF Inv, TypeOK
  <2>3. Agrees(p0, "gone", RegisteredSet')
    BY <1>13 DEF Agrees
  <2>4. \A q \in request' : q.path = p0 /\ q.answer = "gone"
    BY <1>1
  <2>5. status' # "restoring" /\ saved' = saved
    BY <1>1
  <2> QED
    BY <2>1, <2>2, <2>3, <2>4, <2>5 DEF Answered, Agrees
<1> QED
  BY <1>7, <1>8, <1>9, <1>11, <1>14 DEF Inv

\* The end of a request: the whole registry is written, and agrees with every
\* promise, the one just made included.
LEMMA PersistKeeps ==
    ASSUME Inv, Persist
    PROVE  Inv'
<1>1. PICK q \in request :
          /\ saved' = RegisteredSet
          /\ promise' = [promise EXCEPT ![q.path] = q.answer]
          /\ request' = {}
          /\ UNCHANGED <<status, registered, loop, todo, token, polled>>
  BY DEF Persist, control, RegisteredSet
<1>2. status \in {"serving", "returned"} /\ todo = {} /\ q \in Request
  BY <1>1 DEF Inv, Process, TypeOK
<1>3. q.path \in Path /\ q.answer \in Kind \cup {"gone"} /\ q.answer # "unknown"
  BY <1>2 DEF Request, Kind
<1>4. RegisteredSet \subseteq Registration
  BY DEF RegisteredSet, Inv, TypeOK, Loop
<1>5. TypeOK'
  <2>1. promise' \in [Path -> Kind \cup {"gone", "unknown"}]
    BY <1>1, <1>3 DEF Inv, TypeOK
  <2> QED
    BY <1>1, <1>2, <1>4, <2>1 DEF Inv, TypeOK
<1>6. AllSound' /\ LoopsAreOwned' /\ Process' /\ Drained'
  BY <1>1, <1>2 DEF Inv, AllSound, LoopsAreOwned, Process, Drained
<1>7. RegisteredSet' = RegisteredSet
  BY <1>1 DEF RegisteredSet
<1>8. Answered'
  <2>1. ASSUME NEW p \in Path, promise'[p] # "unknown"
        PROVE  Agrees(p, promise'[p], RegisteredSet)
    <3>1. CASE p = q.path
      <4>1. promise'[p] = q.answer
        BY <3>1, <1>1, <1>3 DEF Inv, TypeOK
      <4> QED
        BY <3>1, <4>1, <1>1 DEF Inv, Answered
    <3>2. CASE p # q.path
      <4>1. promise'[p] = promise[p]
        BY <3>2, <1>1 DEF Inv, TypeOK
      <4> QED
        BY <4>1, <2>1, <1>2 DEF Inv, Answered
    <3> QED
      BY <3>1, <3>2
  <2> QED
    BY <2>1, <1>1, <1>2, <1>7 DEF Answered, Agrees
<1> QED
  BY <1>5, <1>6, <1>8 DEF Inv

\* A new process, or the end of one: no loops, and what is on the list (or in
\* the file) is all there is to restore.
LEMMA BootKeeps ==
    ASSUME Inv, Boot \/ Crash \/ Exit
    PROVE  Inv'
<1>1. /\ registered' = {} /\ loop' = NoLoops /\ polled' = {} /\ token' \in BOOLEAN
      /\ saved' = saved /\ promise' = promise /\ request' = {}
      /\ \/ status' = "restoring" /\ todo' = saved
         \/ status' \in {"crashed", "off"} /\ todo' = {}
  BY DEF Boot, Crash, Exit, Ends, Inv, Process, Ended, TypeOK
<1>2. DOMAIN loop' = {} /\ loop' \in [{} -> Loop]
  BY <1>1 DEF NoLoops
<1>3. TypeOK'
  BY <1>1, <1>2 DEF Inv, TypeOK, Up, Ended
<1>4. AllSound' /\ Process' /\ LoopsAreOwned' /\ Drained'
  BY <1>1, <1>2 DEF AllSound, Process, LoopsAreOwned, Drained
<1>5. RegisteredSet' = {}
  BY <1>1 DEF RegisteredSet
<1>6. Answered'
  BY <1>1, <1>5 DEF Inv, Answered, Agrees
<1> QED
  BY <1>3, <1>4, <1>6 DEF Inv

\* The steps that leave every loop alone, or only stop them all.
LEMMA ProcessKeeps ==
    ASSUME Inv, \/ Listen \/ PersistFails \/ Shutdown \/ Finish
                \/ \E i \in LoopId : SeeIdle(i) \/ SeeBusy(i) \/ Expire(i)
    PROVE  Inv'
<1>1. CASE Listen
  <2>1. /\ status = "restoring" /\ status' = "serving" /\ todo = {} /\ token' = FALSE
        /\ UNCHANGED <<registered, loop, saved, todo, request, polled, promise>>
    BY <1>1 DEF Listen, control
  <2>2. request = {}
    BY <2>1 DEF Inv, Process
  <2>3. TypeOK' /\ AllSound' /\ Process' /\ LoopsAreOwned' /\ Drained'
    BY <2>1, <2>2
       DEF Inv, TypeOK, AllSound, Process, LoopsAreOwned, Drained, Up
  <2>4. RegisteredSet = saved /\ RegisteredSet' = RegisteredSet
    BY <2>1 DEF Inv, Answered, RegisteredSet
  <2>5. Answered'
    BY <2>1, <2>2, <2>4 DEF Inv, Answered, Agrees
  <2> QED
    BY <2>3, <2>5 DEF Inv
<1>2. CASE PersistFails
  <2>1. request' = {} /\ UNCHANGED <<status, registered, loop, saved, todo, token, polled, promise>>
    BY <1>2 DEF PersistFails, control
  <2>2. RegisteredSet' = RegisteredSet
    BY <2>1 DEF RegisteredSet
  <2> QED
    BY <2>1, <2>2
       DEF Inv, TypeOK, AllSound, Process, LoopsAreOwned, Answered, Agrees, Drained
<1>3. CASE Shutdown
  <2>1. /\ status' = IF status = "serving" THEN "draining" ELSE status
        /\ status \in {"serving", "returned"} /\ request = {}
        /\ polled = {} /\ polled' = {} /\ todo = {}
        /\ loop' = [i \in DOMAIN loop |->
                      [loop[i] EXCEPT !.stop = loop[i].stop \/ i \in registered]]
        /\ UNCHANGED <<registered, saved, todo, token, request, promise>>
    BY <1>3 DEF Shutdown, Unlocked, Inv, Process
  <2>2. ASSUME NEW j \in DOMAIN loop
        PROVE  /\ Sound(loop'[j]) /\ loop'[j].reg = loop[j].reg
               /\ loop'[j].phase = loop[j].phase
               /\ loop'[j].stop = (loop[j].stop \/ j \in registered)
    <3> DEFINE c == loop[j]
               b == c.stop \/ j \in registered
               l == [c EXCEPT !.stop = b]
    <3>1. Sound(c) /\ c \in Loop /\ loop'[j] = l
      BY <2>1 DEF Inv, AllSound, Sound
    <3>2. b \in BOOLEAN /\ (c.stop => b)
      BY <3>1 DEF Loop
    <3> HIDE DEF b
    <3>3. /\ l \in Loop /\ l.reg = c.reg /\ l.phase = c.phase /\ l.stop = b
          /\ l.late = c.late /\ l.error = c.error /\ l.inCycle = c.inCycle
      BY <3>1, <3>2 DEF Loop
    <3> HIDE DEF l, c
    <3>4. Sound(l)
      BY <3>1, <3>2, <3>3 DEF Sound
    <3> USE DEF b, c
    <3> QED
      BY <3>1, <3>3, <3>4
  <2>3. DOMAIN loop' = DOMAIN loop /\ registered \subseteq DOMAIN loop
    BY <2>1 DEF Inv, TypeOK
  <2>4. loop' \in [DOMAIN loop' -> Loop] /\ AllSound'
    BY <2>1, <2>2, <2>3 DEF AllSound, Sound
  <2>5. TypeOK' /\ Process'
    BY <2>1, <2>3, <2>4 DEF Inv, TypeOK, Process, Up
  <2>6. LoopsAreOwned' /\ Drained'
    <3>1. polled' = {} /\ registered' = registered
      BY <2>1
    <3>2. \A j, k \in registered' : loop'[j].reg.path = loop'[k].reg.path => j = k
      BY <3>1, <2>2, <2>3 DEF Inv, LoopsAreOwned
    <3>3. \A j \in DOMAIN loop' :
              loop'[j].phase \in Live /\ ~loop'[j].stop => j \in registered'
      BY <3>1, <2>2, <2>3 DEF Inv, LoopsAreOwned
    <3>4. \A j \in registered' : loop'[j].stop
      BY <3>1, <2>2, <2>3
    <3> QED
      BY <3>1, <3>2, <3>3, <3>4 DEF LoopsAreOwned, Drained
  <2>7. RegisteredSet' = RegisteredSet
    BY <2>1, <2>2, <2>3 DEF RegisteredSet
  <2>8. Answered'
    BY <2>1, <2>7 DEF Inv, Answered, Agrees
  <2> QED
    BY <2>4, <2>5, <2>6, <2>8 DEF Inv
<1>4. CASE Finish
  <2>1. /\ status = "draining" /\ status' = "returned" /\ polled' = {}
        /\ UNCHANGED <<registered, loop, saved, todo, token, request, promise>>
    BY <1>4 DEF Finish, control
  <2>2. RegisteredSet' = RegisteredSet /\ request = {} /\ todo = {}
    BY <2>1 DEF RegisteredSet, Inv, Process
  <2>3. Answered'
    BY <2>1, <2>2 DEF Inv, Answered, Agrees
  <2>4. TypeOK' /\ AllSound' /\ Process' /\ LoopsAreOwned' /\ Drained'
    BY <2>1, <2>2 DEF Inv, TypeOK, AllSound, Process, LoopsAreOwned, Drained, Up
  <2> QED
    BY <2>3, <2>4 DEF Inv
<1>5. ASSUME NEW i \in LoopId, SeeIdle(i) PROVE Inv'
  <2>1. /\ status = "draining" /\ i \in registered /\ ~loop[i].inCycle
        /\ polled' = polled \cup {i}
        /\ UNCHANGED <<status, registered, loop, saved, todo, token, request, promise>>
    BY <1>5 DEF SeeIdle, control
  <2>2. loop[i].phase # "cycling"
    BY <2>1 DEF Inv, TypeOK, AllSound, Sound
  <2>3. RegisteredSet' = RegisteredSet
    BY <2>1 DEF RegisteredSet
  <2>4. Answered'
    BY <2>1, <2>3 DEF Inv, Answered, Agrees
  <2>5. TypeOK' /\ AllSound' /\ Process' /\ LoopsAreOwned'
    BY <2>1 DEF Inv, TypeOK, AllSound, Process, LoopsAreOwned
  <2>6. Drained'
    BY <2>1, <2>2 DEF Inv, Drained
  <2> QED
    BY <2>4, <2>5, <2>6 DEF Inv
<1>6. ASSUME NEW i \in LoopId, SeeBusy(i) \/ Expire(i) PROVE Inv'
  <2>1. /\ status = "draining" /\ polled' \in {{}, polled}
        /\ \/ status' = "draining"
           \/ status' = "returned" /\ polled' = {}
        /\ UNCHANGED <<registered, loop, saved, todo, token, request, promise>>
    BY <1>6 DEF SeeBusy, Expire, control
  <2>2. RegisteredSet' = RegisteredSet /\ request = {} /\ todo = {}
    BY <2>1 DEF RegisteredSet, Inv, Process
  <2>3. Answered'
    BY <2>1, <2>2 DEF Inv, Answered, Agrees
  <2>4. TypeOK' /\ AllSound' /\ Process' /\ LoopsAreOwned' /\ Drained'
    BY <2>1, <2>2 DEF Inv, TypeOK, AllSound, Process, LoopsAreOwned, Drained, Up, Ended
  <2> QED
    BY <2>3, <2>4 DEF Inv
<1> QED
  BY <1>1, <1>2, <1>3, <1>4, <1>5, <1>6

-----------------------------------------------------------------------------
\* The invariant holds when nothing has run yet ...
LEMMA InvInit == Init => Inv
<1> SUFFICES ASSUME Init PROVE Inv
  OBVIOUS
<1>1. DOMAIN loop = {} /\ loop \in [{} -> Loop]
  BY DEF Init, NoLoops
<1>2. TypeOK
  BY <1>1 DEF Init, TypeOK, Ended
<1>3. RegisteredSet = {}
  BY DEF Init, RegisteredSet
<1> QED
  BY <1>1, <1>2, <1>3
     DEF Init, Inv, AllSound, Process, LoopsAreOwned, Answered, Agrees, Drained

\* ... and every step keeps it.
LEMMA InvStep == Inv /\ [Next]_vars => Inv'
<1> SUFFICES ASSUME Inv, [Next]_vars PROVE Inv'
  OBVIOUS
<1>1. CASE Boot \/ Crash \/ Exit
  BY <1>1, BootKeeps
<1>2. ASSUME NEW r \in Registration, NEW i \in LoopId, Restore(r, i) PROVE Inv'
  BY <1>2, RestoreKeeps
<1>3. ASSUME NEW r \in Registration, NEW i \in LoopId, Add(r, i) PROVE Inv'
  BY <1>3, AddKeeps
<1>4. ASSUME NEW i \in LoopId, Remove(i) PROVE Inv'
  BY <1>4, RemoveKeeps
<1>5. ASSUME NEW i \in LoopId, ThreadStep(i) PROVE Inv'
  BY <1>5, ThreadKeeps
<1>6. CASE Persist
  BY <1>6, PersistKeeps
<1>7. CASE \/ Listen \/ PersistFails \/ Shutdown \/ Finish
           \/ \E i \in LoopId : SeeIdle(i) \/ SeeBusy(i) \/ Expire(i)
  BY <1>7, ProcessKeeps
<1>8. CASE UNCHANGED vars
  <2>1. RegisteredSet' = RegisteredSet
    BY <1>8 DEF vars, control, RegisteredSet
  <2> QED
    BY <1>8, <2>1 DEF vars, control, Inv, TypeOK, AllSound, Process, LoopsAreOwned,
                      Answered, Agrees, Drained
<1> QED
  BY <1>1, <1>2, <1>3, <1>4, <1>5, <1>6, <1>7, <1>8 DEF Next

\* What the invariant says, in the words of the properties.
LEMMA InvImplies ==
    Inv => AcksSurvive /\ HonestStatus /\ WindsDown
<1> SUFFICES ASSUME Inv PROVE AcksSurvive /\ HonestStatus /\ WindsDown
  OBVIOUS
<1>1. AcksSurvive
  BY DEF Inv, Answered, Agrees, RegisteredSet, AcksSurvive
<1>2. registered \subseteq DOMAIN loop
  BY DEF Inv, TypeOK
<1>3. HonestStatus
  BY <1>2 DEF Inv, AllSound, Sound, HonestStatus, Reported
<1>4. WindsDown
  BY DEF Inv, AllSound, Sound, WindsDown
<1> QED
  BY <1>1, <1>3, <1>4

\* The inductive invariant of every run of the daemon.
LEMMA Invariance == Spec => []Inv
BY InvInit, InvStep, PTL DEF Spec

\* Types, and only loops of this life registered (Boot, Registry::new).
THEOREM DaemonTypeCorrect == Spec => []TypeOK
<1>1. Inv => TypeOK
  BY DEF Inv
<1> QED
  BY <1>1, Invariance, PTL

\* One registered loop per directory, no unregistered thread that was not
\* stopped (Registry::start, remove, restore).
THEOREM EveryLoopOwned == Spec => []LoopsAreOwned
<1>1. Inv => LoopsAreOwned
  BY DEF Inv
<1> QED
  BY <1>1, Invariance, PTL

\* Answers to clients survive failed writes, crashes and restarts (persist
\* before the answer, restore before the first request).
THEOREM AnswersSurvive == Spec => []AcksSurvive
BY InvImplies, Invariance, PTL

\* No dead loop is reported as running (record_error on every way out).
THEOREM StatusIsHonest == Spec => []HonestStatus
BY InvImplies, Invariance, PTL

\* One cycle after a stop at most, none after an error (park_if_done).
THEOREM StoppedLoopsWindDown == Spec => []WindsDown
BY InvImplies, Invariance, PTL

\* A shutdown that is not cut off by its timeout has let every cycle in flight
\* finish when its wait ends (Registry::shutdown).
THEOREM ShutdownCutsNothing == Spec => DrainFinishes
<1>1. Inv /\ [Next]_vars =>
        [Finish => \A i \in registered :
                      loop[i].phase = "cycling" => loop[i].late > 0]_vars
  BY DEF Inv, Drained, Finish, AllIdle
<1> QED
  BY <1>1, Invariance, PTL DEF Spec, DrainFinishes

=============================================================================
