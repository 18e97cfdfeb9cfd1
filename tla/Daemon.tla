------------------------------- MODULE Daemon -------------------------------
(***************************************************************************)
(* peard, the supervisor of a machine's loops: the registry of workspaces  *)
(* and its copy in daemon.json, the requests add, remove and shutdown, the *)
(* restart, and the loop threads with the control each shares with the     *)
(* registry (cli/src/bin/peard.rs, daemon.rs and loops.rs).                *)
(*                                                                         *)
(* A request holds the registry's lock from its first effect to its        *)
(* answer; the loop threads never take that lock, they only read their     *)
(* control.  A thread looks at its control (park_if_done, stopped) in one  *)
(* step and raises its in-cycle mark in the next.  A shutdown gives the    *)
(* lock back before its thread exits the process, so the daemon still      *)
(* serves for a moment with its loops drained.                             *)
(***************************************************************************)
EXTENDS Naturals, FiniteSets

CONSTANTS
    Path,       \* the directories that clients register
    LoopId      \* bound on the loops of one life of the daemon

VARIABLES
    status,     \* of the process
    registered, \* Registry.workers, as the set of its loops
    loop,       \* per loop of this life, its control and its thread
    saved,      \* daemon.json
    todo,       \* registrations restore has still to bring back
    token,      \* PEAR_TOKEN is set, for as long as restore reads it
    request,    \* the request that holds the lock, if any
    polled,     \* controls shutdown has seen idle in the current round
    promise     \* per path, what the last request about it was answered

control == <<registered, loop>>
vars == <<status, control, saved, todo, token, request, polled, promise>>

-----------------------------------------------------------------------------
(***************************************************************************)
(* Registrations, controls and threads.                                    *)
(***************************************************************************)

Kind == {"watch", "converge", "mirror"}

Registration == [path : Path, kind : Kind]

NeedsToken(r) == r.kind # "watch"

\* returned: shutdown has given the lock back, exit(0) is still to come.
Up == {"restoring", "serving", "draining", "returned"}
Ended == {"off", "crashed"}

\* A request about a path, and what its answer will promise when it succeeds.
Request == [path : Path, answer : Kind \cup {"gone"}]

\* unspawned: restored without a token.  starting: init, registration, keys.
\* waiting: between cycles.  entering: has looked at its control.
Live == {"starting", "waiting", "entering", "cycling"}
Phase == Live \cup {"unspawned", "parked", "returned"}

Loop == [reg : Registration, body : Kind, phase : Phase, stop : BOOLEAN,
         error : BOOLEAN, inCycle : BOOLEAN, late : Nat]

\* late counts the cycles that began after stop() (history).
NewLoop(r) ==
    [reg |-> r, body |-> r.kind, phase |-> "starting", stop |-> FALSE,
     error |-> FALSE, inCycle |-> FALSE, late |-> 0]

NoLoops == [i \in {} |-> {}]

Spawn(i, l) == [j \in DOMAIN loop \cup {i} |-> IF j = i THEN l ELSE loop[j]]

\* Mutant: add forgets that the path may have a loop.
TakenNever(p) == FALSE

Taken(p) == \E i \in registered : loop[i].reg.path = p

\* EntryInfo.state.
Reported(i) ==
    IF loop[i].error THEN "error" ELSE IF loop[i].stop THEN "stopped" ELSE "running"

Init ==
    /\ status = "off" /\ registered = {} /\ loop = NoLoops
    /\ saved = {} /\ todo = {} /\ token = FALSE /\ request = {} /\ polled = {}
    /\ promise = [p \in Path |-> "gone"]

-----------------------------------------------------------------------------
(***************************************************************************)
(* The process: start, restore, crash.                                     *)
(***************************************************************************)

\* run: the socket is bound (no other daemon answers) and daemon.json read.
Boot ==
    /\ status \in Ended
    /\ status' = "restoring" /\ registered' = {} /\ loop' = NoLoops
    /\ todo' = saved /\ token' \in BOOLEAN
    /\ UNCHANGED <<saved, request, polled, promise>>

\* Mutant: a relay workspace without a token is left out of the status error.
ResumedSilently(r) ==
    IF NeedsToken(r) /\ ~token
    THEN [NewLoop(r) EXCEPT !.phase = "unspawned"]
    ELSE NewLoop(r)

\* Without a token a relay workspace stays registered, with an error.
Resumed(r) ==
    IF NeedsToken(r) /\ ~token
    THEN [NewLoop(r) EXCEPT !.phase = "unspawned", !.error = TRUE]
    ELSE NewLoop(r)

Restore(r, i) ==
    /\ status = "restoring" /\ r \in todo /\ ~Taken(r.path)
    /\ i \in LoopId \ DOMAIN loop
    /\ loop' = Spawn(i, Resumed(r)) /\ registered' = registered \cup {i}
    /\ todo' = todo \ {r}
    /\ UNCHANGED <<status, saved, token, request, polled, promise>>

Listen ==
    /\ status = "restoring" /\ todo = {}
    /\ status' = "serving" /\ token' = FALSE
    /\ UNCHANGED <<control, saved, todo, request, polled, promise>>

\* The process is gone, and with it its threads and whoever waits or writes.
Ends(how) ==
    /\ status' = how /\ registered' = {} /\ loop' = NoLoops
    /\ request' = {} /\ todo' = {} /\ polled' = {} /\ token' = FALSE
    /\ UNCHANGED <<saved, promise>>

Crash == status \in Up /\ Ends("crashed")

-----------------------------------------------------------------------------
(***************************************************************************)
(* Requests.  Refused ones change nothing.                                 *)
(***************************************************************************)

\* Mutant: requests are served while restore still runs.
UnlockedEarly ==
    status \in {"restoring", "serving", "returned"} /\ request = {}

Unlocked == status \in {"serving", "returned"} /\ request = {}

\* add_watch, add_converge, add_mirror: start spawns the thread and inserts ...
Add(r, i) ==
    /\ Unlocked /\ ~Taken(r.path) /\ i \in LoopId \ DOMAIN loop
    /\ loop' = Spawn(i, NewLoop(r)) /\ registered' = registered \cup {i}
    /\ request' = {[path |-> r.path, answer |-> r.kind]}
    /\ promise' = [promise EXCEPT ![r.path] = "unknown"]
    /\ UNCHANGED <<status, saved, todo, token, polled>>

Remove(i) ==
    /\ Unlocked /\ i \in registered
    /\ registered' = registered \ {i}
    /\ loop' = [loop EXCEPT ![i].stop = TRUE]
    /\ request' = {[path |-> loop[i].reg.path, answer |-> "gone"]}
    /\ promise' = [promise EXCEPT ![loop[i].reg.path] = "unknown"]
    /\ UNCHANGED <<status, saved, todo, token, polled>>

\* Mutant: the answer is ok although daemon.json could not be written.
PersistIgnored ==
    \E q \in request :
        /\ promise' = [promise EXCEPT ![q.path] = q.answer]
        /\ request' = {}
        /\ UNCHANGED <<status, control, saved, todo, token, polled>>

\* ... and persist writes the whole registry beside daemon.json and renames.
Persist ==
    \E q \in request :
        /\ saved' = {loop[i].reg : i \in registered}
        /\ promise' = [promise EXCEPT ![q.path] = q.answer]
        /\ request' = {}
        /\ UNCHANGED <<status, control, todo, token, polled>>

\* The write fails: the client is told so, the registry stays as it is.
PersistFails ==
    /\ request # {}
    /\ request' = {}
    /\ UNCHANGED <<status, control, saved, todo, token, polled, promise>>

-----------------------------------------------------------------------------
(***************************************************************************)
(* shutdown: stop all registered loops, wait for those in a cycle, exit.   *)
(***************************************************************************)

\* A second one, after the first has returned, stops what was added since;
\* what it goes on to wait for ends with the process.
Shutdown ==
    /\ Unlocked
    /\ loop' = [i \in DOMAIN loop |->
                  [loop[i] EXCEPT !.stop = @ \/ i \in registered]]
    /\ status' = IF status = "serving" THEN "draining" ELSE status
    /\ UNCHANGED <<registered, saved, todo, token, request, polled, promise>>

\* One round of all(|c| !c.in_cycle()), a control at a time.
SeeIdle(i) ==
    /\ status = "draining" /\ i \in registered \ polled /\ ~loop[i].inCycle
    /\ polled' = polled \cup {i}
    /\ UNCHANGED <<status, control, saved, todo, token, request, promise>>

\* A busy control ends the round, and another one begins 25 ms later ...
SeeBusy(i) ==
    /\ status = "draining" /\ i \in registered \ polled /\ loop[i].inCycle
    /\ polled' = {}
    /\ UNCHANGED <<status, control, saved, todo, token, request, promise>>

\* Mutant: a loop that parked inside its cycle is waited for without a limit.
ExpireUnparked(i) ==
    /\ status = "draining" /\ i \in registered \ polled /\ loop[i].inCycle
    /\ loop[i].phase # "parked"
    /\ status' = "returned" /\ polled' = {}
    /\ UNCHANGED <<control, saved, todo, token, request, promise>>

\* ... unless SHUTDOWN_DRAIN is over.
Expire(i) ==
    /\ status = "draining" /\ i \in registered \ polled /\ loop[i].inCycle
    /\ status' = "returned" /\ polled' = {}
    /\ UNCHANGED <<control, saved, todo, token, request, promise>>

\* Mutant: the wait ends with the first control that is seen idle.
AnyIdle == polled # {} \/ registered = {}

AllIdle == polled = registered

Finish ==
    /\ status = "draining" /\ AllIdle
    /\ status' = "returned" /\ polled' = {}
    /\ UNCHANGED <<control, saved, todo, token, request, promise>>

\* serve_conn has released the lock with the end of shutdown's statement;
\* println and exit(0) come after, whatever request got in between.
Exit == status = "returned" /\ Ends("off")

-----------------------------------------------------------------------------
(***************************************************************************)
(* A loop thread.                                                          *)
(***************************************************************************)

\* The thread of i goes on from phase p and leaves its control as l.
Step(i, p, l) ==
    /\ status \in Up /\ i \in DOMAIN loop /\ loop[i].phase = p
    /\ loop' = [loop EXCEPT ![i] = l]
    /\ UNCHANGED <<status, registered, saved, todo, token, request, polled, promise>>

\* Whatever comes before the first cycle: init_workspace, the relay-side
\* registration, the .env policy, the key ring.
Started(i) == Step(i, "starting", [loop[i] EXCEPT !.phase = "waiting"])

\* An error there is returned, and spawn_worker's closure records it.
StartFails(i) ==
    Step(i, "starting", [loop[i] EXCEPT !.phase = "returned", !.error = TRUE])

\* A mirror that waits for its key looks at the stop flag.
GivesUpKey(i) ==
    /\ i \in DOMAIN loop /\ loop[i].body = "mirror" /\ loop[i].stop
    /\ Step(i, "starting", [loop[i] EXCEPT !.phase = "returned"])

\* Mutant: park_if_done forgets the stop flag.
DoneUnstopped(l) == l.error

\* park_if_done parks a watch or converge loop, stopped() ends a mirror.
Done(l) == IF l.body = "mirror" THEN l.stop ELSE l.stop \/ l.error

\* A trigger, a hint or a timer wakes the loop (or it is its first cycle).
Retire(i) ==
    /\ i \in DOMAIN loop /\ Done(loop[i])
    /\ Step(i, "waiting",
            [loop[i] EXCEPT !.phase = IF loop[i].body = "mirror"
                                      THEN "returned" ELSE "parked"])

Wake(i) ==
    /\ i \in DOMAIN loop /\ ~Done(loop[i])
    /\ Step(i, "waiting", [loop[i] EXCEPT !.phase = "entering"])

EnterCycle(i) ==
    Step(i, "entering",
         [loop[i] EXCEPT !.phase = "cycling", !.inCycle = TRUE,
                         !.late = IF loop[i].stop THEN @ + 1 ELSE @])

\* The pass is over, well or with an error that is retried.
EndCycle(i) ==
    Step(i, "cycling", [loop[i] EXCEPT !.phase = "waiting", !.inCycle = FALSE])

\* The watch loop finds its source gone, or its watcher dead.
SourceGone(i) ==
    /\ i \in DOMAIN loop /\ loop[i].body # "mirror"
    /\ Step(i, "waiting", [loop[i] EXCEPT !.phase = "returned", !.error = TRUE])

\* A fatal push error: the thread parks inside its cycle, the guard alive.
ParkFatal(i) ==
    /\ i \in DOMAIN loop /\ loop[i].body = "converge"
    /\ Step(i, "cycling", [loop[i] EXCEPT !.phase = "parked", !.error = TRUE])

\* A fatal pull error: the mirror returns, which drops the guard.
ReturnFatal(i) ==
    /\ i \in DOMAIN loop /\ loop[i].body = "mirror"
    /\ Step(i, "cycling", [loop[i] EXCEPT !.phase = "returned", !.error = TRUE,
                                          !.inCycle = FALSE])

\* 403: the thread goes on as a mirror, under the same control.
Demote(i) ==
    /\ i \in DOMAIN loop /\ loop[i].body = "converge"
    /\ Step(i, "cycling", [loop[i] EXCEPT !.phase = "starting", !.body = "mirror",
                                          !.inCycle = FALSE])

ThreadStep(i) ==
    \/ Started(i) \/ StartFails(i) \/ GivesUpKey(i)
    \/ Retire(i) \/ Wake(i) \/ EnterCycle(i) \/ EndCycle(i)
    \/ SourceGone(i) \/ ParkFatal(i) \/ ReturnFatal(i) \/ Demote(i)

Next ==
    \/ Boot \/ Listen \/ Crash
    \/ \E r \in Registration, i \in LoopId : Restore(r, i) \/ Add(r, i)
    \/ \E i \in LoopId : Remove(i) \/ SeeIdle(i) \/ SeeBusy(i) \/ Expire(i) \/ ThreadStep(i)
    \/ Persist \/ PersistFails
    \/ Shutdown \/ Finish \/ Exit

Spec == Init /\ [][Next]_vars

\* The thread that shuts down runs, and its deadline comes.  Loop threads may
\* hang in a cycle for ever.
Fairness ==
    /\ WF_vars(\E i \in LoopId : SeeIdle(i)) /\ WF_vars(Finish) /\ WF_vars(Exit)
    /\ SF_vars(\E i \in LoopId : Expire(i))

FairSpec == Spec /\ Fairness

-----------------------------------------------------------------------------
(***************************************************************************)
(* Properties.                                                             *)
(***************************************************************************)

\* Every variable has its type, and only loops of this life are registered.
TypeOK ==
    /\ status \in Up \cup Ended
    /\ DOMAIN loop \subseteq LoopId /\ loop \in [DOMAIN loop -> Loop]
    /\ registered \subseteq DOMAIN loop /\ polled \subseteq registered
    /\ saved \subseteq Registration /\ todo \subseteq saved
    /\ token \in BOOLEAN
    /\ request = {} \/ \E q \in Request : request = {q}
    /\ promise \in [Path -> Kind \cup {"gone", "unknown"}]

\* start refuses duplicates (peard.rs:156): a directory has one registered
\* loop, and a thread that still syncs without being registered was stopped,
\* whatever requests, failures and restarts came in between.
LoopsAreOwned ==
    /\ \A i, j \in registered : loop[i].reg.path = loop[j].reg.path => i = j
    /\ \A i \in DOMAIN loop :
          loop[i].phase \in Live /\ ~loop[i].stop => i \in registered

\* What a client was told about a path (add is ok, remove is ok) is what
\* daemon.json says until the next request about it, and what the daemon
\* runs with once it has restarted (persist before the answer, restore).
AcksSurvive ==
    \A p \in Path :
        LET durable(S) ==
                IF promise[p] = "gone" THEN \A r \in S : r.path # p
                ELSE [path |-> p, kind |-> promise[p]] \in S
        IN promise[p] # "unknown" =>
              /\ durable(saved)
              /\ status \in {"serving", "draining", "returned"} =>
                    durable({loop[i].reg : i \in registered})

\* A workspace that status shows as running has a thread that still syncs:
\* no thread ends, parks or was never spawned without an error or a stop.
HonestStatus ==
    \A i \in registered : Reported(i) = "running" => loop[i].phase \in Live

\* A stopped loop begins at most one more cycle (the gap between looking at
\* the flag and raising the mark), and a loop with an error none at all, as
\* park_if_done promises: "a daemon worker never syncs again".
WindsDown ==
    \A i \in DOMAIN loop :
        /\ loop[i].late <= 1
        /\ loop[i].error => loop[i].phase \notin Live

\* When shutdown's wait ends before its timeout, no cycle that was in flight
\* when it set the flags is still running, so that the exit cuts none short:
\* a loop may be in a cycle then only if it had passed its last look at the
\* flag and entered one too many.
DrainFinishes ==
    [][Finish => \A i \in registered :
                    loop[i].phase = "cycling" => loop[i].late > 0]_vars

\* A shutdown ends the process, even if a loop hangs in its cycle or has parked
\* inside it with its guard alive (loops.rs:118, peard.rs:35-38).
ShutdownEnds == status = "draining" ~> status \in Ended

=============================================================================
