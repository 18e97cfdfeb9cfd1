------------------------------ MODULE Triggers ------------------------------
(***************************************************************************)
(* What makes a device run a pass: the watch loop (core/src/watch.rs), the *)
(* head feed (core/src/relay.rs, relay/src/lib.rs, routes.rs) and the      *)
(* companion thread that turns hints and polls into kicks                  *)
(* (cli/src/loops.rs), for one device that converges or mirrors.           *)
(*                                                                         *)
(*   other devices -> head -> announcing -> wire -> feed -> companion      *)
(*                                                            | kick       *)
(*   users ---------------- fs event ----------------------> queue -> pass *)
(*                                                                         *)
(* A tree is the number of its edits and a head is its sequence: what a    *)
(* pass does with them is module Converge.  In the queue of triggers equal *)
(* neighbours count as one, as they do for the loop.                       *)
(***************************************************************************)
EXTENDS Naturals, Sequences, Functions

CONSTANTS
    Capacity,     \* HEAD_BROADCAST_CAPACITY
    MaxHead,      \* bound on the head sequence the other devices reach
    MaxEdits,     \* bound on the edits of this device's tree
    MaxDrops,     \* bound on lost connections
    MaxFails,     \* bound on failed passes
    MaxLost       \* bound on commits whose handler dies before the fan-out

ASSUME TriggersAssumption ==
    /\ Capacity \in Nat \ {0}
    /\ MaxHead \in Nat /\ MaxEdits \in Nat
    /\ MaxDrops \in Nat /\ MaxFails \in Nat /\ MaxLost \in Nat

VARIABLES
    mode,         \* "converge", or "mirror" for a reader
    head,         \* relay: the head sequence
    announcing,   \* relay: the commits whose fan-out is still to come
    lost,         \* relay: how many fan-outs never came
    conn,         \* the web socket; "silent": gone, and the client cannot tell
    wire,         \* the hints between the relay and the client
    feed,         \* client: the hints the listener thread has received
    wait,         \* client: the interval of the wait in progress, or "none"
    queue,        \* client: the triggers of the watch loop
    at,           \* client: where the loop is
    wanted,       \* client: does the debounce window call for a pass?
    retry,        \* client: did the last pass fail?
    local,        \* the tree
    scanned,      \* the tree the last scan saw
    synced,       \* the last scan that reached the head
    fetched,      \* the head the pass in progress, or the last one, fetched
    seen,         \* LoopControl.head_seq: the last head converged or pulled
    drops, fails  \* how many connections were lost and passes failed

net == <<announcing, lost, conn, wire, drops>>
companion == <<feed, wait>>
loop == <<queue, at, wanted, retry, fails>>
tree == <<local, scanned, synced, fetched, seen>>
vars == <<mode, head, net, companion, loop, tree>>

InPass == {"fetching", "scanning", "publishing"}

\* One more trigger.
Push(k) ==
    IF queue # <<>> /\ queue[Len(queue)] = k THEN queue ELSE Append(queue, k)

Init ==
    /\ mode \in {"converge", "mirror"}
    /\ head = 0 /\ announcing = {} /\ lost = 0
    /\ conn = "down" /\ wire = <<>> /\ drops = 0
    /\ feed = <<>> /\ wait = "none"
    /\ queue = <<>> /\ wanted = FALSE /\ retry = FALSE /\ fails = 0
    /\ at = IF mode = "converge" THEN "fetching" ELSE "ready"
    /\ local = 0 /\ scanned = 0 /\ synced = 0 /\ fetched = 0 /\ seen = 0

-----------------------------------------------------------------------------
(***************************************************************************)
(* The relay: a commit, then its fan-out.                                  *)
(***************************************************************************)

OtherCommits ==
    /\ head < MaxHead
    /\ head' = head + 1
    /\ announcing' = announcing \cup {head + 1}
    /\ UNCHANGED <<mode, lost, conn, wire, drops, companion, loop, tree>>

Lags == Len(wire) >= Capacity

\* notify_head_changed.  A subscriber that lags is closed, not skipped.
Announce(s) ==
    /\ s \in announcing
    /\ announcing' = announcing \ {s}
    /\ \/ conn # "up" /\ UNCHANGED <<conn, wire>>
       \/ conn = "up" /\ ~Lags
          /\ wire' = Append(wire, s) /\ UNCHANGED conn
       \/ conn = "up" /\ Lags
          /\ wire' = <<>> /\ conn' = "silent"
    /\ UNCHANGED <<mode, head, lost, drops, companion, loop, tree>>

\* The writer's connection closes while put_head awaits its commit: the
\* handler is dropped and the fan-out with it.
HandlerDies(s) ==
    /\ s \in announcing
    /\ lost < MaxLost
    /\ lost' = lost + 1
    /\ announcing' = announcing \ {s}
    /\ UNCHANGED <<mode, head, conn, wire, drops, companion, loop, tree>>

\* A partition, a roaming device, or the relay restarts.
Drop ==
    /\ conn = "up"
    /\ drops < MaxDrops
    /\ drops' = drops + 1
    /\ conn' = "silent"
    /\ wire' = <<>>
    /\ announcing' \in {announcing, {}}
    /\ UNCHANGED <<mode, head, lost, companion, loop, tree>>

(***************************************************************************)
(* The client's listener thread.                                           *)
(***************************************************************************)

\* A Close is read, or the keepalive goes unanswered.
Detect ==
    /\ conn = "silent"
    /\ conn' = "down"
    /\ UNCHANGED <<mode, head, announcing, lost, wire, drops, companion, loop, tree>>

\* Mutant: no head_now.
NoCatchUp == <<>>

\* ws_subscribe, ws_fanout: the subscription comes first, head_now follows.
HeadNow == <<head>>

Reconnect ==
    /\ conn = "down"
    /\ conn' = "up"
    /\ wire' = HeadNow
    /\ UNCHANGED <<mode, head, announcing, lost, drops, companion, loop, tree>>

Deliver ==
    /\ wire # <<>>
    /\ feed' = Append(feed, Head(wire))
    /\ wire' = Tail(wire)
    /\ UNCHANGED <<mode, head, announcing, lost, conn, drops, wait, loop, tree>>

-----------------------------------------------------------------------------
(***************************************************************************)
(* The companion of the converge loop; for a mirror, its own waiting.      *)
(***************************************************************************)

\* An echo of what this device has converged is no news.
News(s) == s > seen

StartWait ==
    /\ wait = "none"
    /\ mode = "mirror" => at = "waiting"
    /\ wait' = IF conn = "down" THEN "short" ELSE "long"
    /\ UNCHANGED <<mode, head, net, feed, loop, tree>>

TakeHint ==
    /\ wait # "none"
    /\ feed # <<>>
    /\ feed' = Tail(feed)
    /\ wait' = "none"
    /\ \/ mode = "converge" /\ News(Head(feed))
          /\ queue' = Push("kick") /\ UNCHANGED at
       \/ mode = "converge" /\ ~News(Head(feed)) /\ UNCHANGED <<queue, at>>
       \/ mode = "mirror" /\ at' = "ready" /\ UNCHANGED queue
    /\ UNCHANGED <<mode, head, net, wanted, retry, fails, tree>>

Poll(interval) ==
    /\ wait = interval
    /\ feed = <<>>
    /\ wait' = "none"
    /\ \/ mode = "converge" /\ queue' = Push("kick") /\ UNCHANGED at
       \/ mode = "mirror" /\ at' = "ready" /\ UNCHANGED queue
    /\ UNCHANGED <<mode, head, net, feed, wanted, retry, fails, tree>>

-----------------------------------------------------------------------------
(***************************************************************************)
(* The watch loop.                                                         *)
(***************************************************************************)

Edit ==
    /\ mode = "converge"
    /\ local < MaxEdits
    /\ local' = local + 1
    /\ queue' = Push("fs")
    /\ UNCHANGED <<mode, head, net, companion, at, wanted, retry, fails,
                   scanned, synced, fetched, seen>>

Wake ==
    /\ mode = "converge" /\ at = "waiting"
    /\ queue # <<>>
    /\ queue' = Tail(queue)
    /\ at' = IF Head(queue) = "kick" THEN "ready" ELSE "coalescing"
    /\ wanted' = (Head(queue) = "fs")
    /\ UNCHANGED <<mode, head, net, companion, retry, fails, tree>>

\* Mutant: a failed pass is tried again only when something else happens.
RetryWhenWoken ==
    /\ mode = "converge" /\ at = "waiting"
    /\ retry /\ queue # <<>>
    /\ at' = "ready"
    /\ UNCHANGED <<mode, head, net, companion, queue, wanted, retry, fails, tree>>

RetryFires ==
    /\ mode = "converge" /\ at = "waiting"
    /\ retry /\ queue = <<>>
    /\ at' = "ready"
    /\ UNCHANGED <<mode, head, net, companion, queue, wanted, retry, fails, tree>>

Coalesce ==
    /\ at = "coalescing"
    /\ queue # <<>>
    /\ wanted' = (wanted \/ Head(queue) # "pear")
    /\ queue' = Tail(queue)
    /\ UNCHANGED <<mode, head, net, companion, at, retry, fails, tree>>

\* The window closes: quiet, or MAX_COALESCE has passed.  The loop's own
\* writes under .pear call for no pass.
WindowCloses ==
    /\ at = "coalescing"
    /\ at' = IF wanted THEN "ready" ELSE "waiting"
    /\ UNCHANGED <<mode, head, net, companion, queue, wanted, retry, fails, tree>>

\* What is queued before a pass is covered by it: the triggers of a converge
\* loop, the hints of a mirror.
Drain ==
    /\ at = "ready"
    /\ at' = "fetching"
    /\ \/ mode = "converge" /\ queue' = <<>> /\ UNCHANGED feed
       \/ mode = "mirror" /\ feed' = <<>> /\ UNCHANGED queue
    /\ UNCHANGED <<mode, head, net, wait, wanted, retry, fails, tree>>

Fetch ==
    /\ at = "fetching"
    /\ fetched' = head
    /\ at' = IF mode = "converge" THEN "scanning" ELSE "publishing"
    /\ UNCHANGED <<mode, head, net, companion, queue, wanted, retry, fails,
                   local, scanned, synced, seen>>

\* Scan and apply: the files the pass writes are events too.
Scan ==
    /\ at = "scanning"
    /\ scanned' = local
    /\ at' = "publishing"
    /\ queue' = IF News(fetched) THEN Push("fs") ELSE queue
    /\ UNCHANGED <<mode, head, net, companion, wanted, retry, fails,
                   local, synced, fetched, seen>>

PassEnds(seq) ==
    /\ seen' = seq
    /\ retry' = FALSE
    /\ at' = "waiting"
    /\ UNCHANGED <<mode, lost, conn, wire, drops, companion, wanted, fails,
                   local, scanned, fetched>>

\* Mutant: what is queued when a pass ends is taken for the pass's doing.
PassForgetsQueue == <<>>

\* The pass has written .pear/manifest.json.
PassWrites == Push("pear")

\* Nothing to publish, or a mirror's pull.
Agree ==
    /\ at = "publishing"
    /\ mode = "converge" => scanned = synced
    /\ queue' = IF mode = "converge" THEN PassWrites ELSE queue
    /\ PassEnds(fetched)
    /\ UNCHANGED <<head, announcing, synced>>

Commits ==
    /\ mode = "converge" /\ at = "publishing"
    /\ scanned # synced /\ head = fetched
    /\ head' = head + 1
    /\ announcing' = announcing \cup {head + 1}
    /\ synced' = scanned
    /\ queue' = PassWrites

Publish == Commits /\ PassEnds(head + 1)

\* The head moved: fetch and merge again.
LoseRace ==
    /\ mode = "converge" /\ at = "publishing"
    /\ scanned # synced /\ head # fetched
    /\ at' = "fetching"
    /\ UNCHANGED <<mode, head, net, companion, queue, wanted, retry, fails, tree>>

PassFails ==
    /\ fails < MaxFails
    /\ fails' = fails + 1
    /\ retry' = TRUE
    /\ at' = "waiting"
    /\ UNCHANGED <<mode, lost, conn, wire, drops, companion, wanted,
                   local, scanned, fetched, seen>>

Fail ==
    /\ at \in InPass
    /\ PassFails
    /\ UNCHANGED <<head, announcing, queue, synced>>

AnswerLost == Commits /\ PassFails

\* 403: this device has no Writer role.  The companion's feed goes with the
\* loop; the mirror opens its own.
Demote ==
    /\ mode = "converge" /\ at = "publishing" /\ scanned # synced
    /\ mode' = "mirror"
    /\ at' = "ready"
    /\ queue' = <<>>
    /\ conn' = "down" /\ wire' = <<>> /\ feed' = <<>> /\ wait' = "none"
    /\ retry' = FALSE
    /\ UNCHANGED <<head, announcing, lost, drops, wanted, fails, tree>>

-----------------------------------------------------------------------------

Relay ==
    OtherCommits \/ Drop \/ \E s \in announcing : Announce(s) \/ HandlerDies(s)

Listener == Detect \/ Reconnect \/ Deliver

Companion == StartWait \/ TakeHint \/ Poll("short") \/ Poll("long")

Loop ==
    \/ Wake  \/ RetryFires \/ Coalesce \/ WindowCloses \/ Drain
    \/ Fetch \/ Scan \/ Agree \/ Publish \/ LoseRace

Next ==
    \/ Relay \/ Listener \/ Companion \/ Edit
    \/ Loop \/ Fail \/ AnswerLost \/ Demote

Spec == Init /\ [][Next]_vars

\* Threads run, timers fire and frames arrive; MAX_COALESCE bounds a window
\* that kicks keep open.  The long poll and the reconnection are left to the
\* property that needs one of them.
Fairness ==
    /\ WF_vars(Loop) /\ WF_vars(WindowCloses)
    /\ WF_vars(StartWait \/ TakeHint \/ Poll("short"))
    /\ WF_vars(Detect) /\ WF_vars(Deliver)
    /\ \A s \in 1 .. MaxHead + MaxEdits : WF_vars(Announce(s))

LiveSpec == Spec /\ Fairness

-----------------------------------------------------------------------------
(***************************************************************************)
(* Properties.                                                             *)
(***************************************************************************)

Stream == Seq(0 .. head)

TypeOK ==
    /\ mode \in {"converge", "mirror"}
    /\ head \in Nat /\ announcing \subseteq 1 .. head /\ lost \in 0 .. MaxLost
    /\ conn \in {"down", "up", "silent"}
    /\ wire \in Stream /\ Len(wire) <= Capacity /\ feed \in Stream
    /\ wait \in {"none", "short", "long"}
    /\ queue \in Seq({"fs", "pear", "kick"})
    /\ at \in InPass \cup {"waiting", "coalescing", "ready"}
    /\ wanted \in BOOLEAN /\ retry \in BOOLEAN
    /\ local \in 0 .. MaxEdits /\ scanned \in 0 .. local /\ synced \in 0 .. scanned
    /\ fetched \in 0 .. head /\ seen \in 0 .. head
    /\ drops \in 0 .. MaxDrops /\ fails \in 0 .. MaxFails

\* A pass is on its way that has yet to fetch.
Stirring ==
    \/ at \in {"ready", "fetching"}
    \/ at = "coalescing" /\ wanted

\* The last pass failed, and no other is running.
RetryDue == retry /\ at \notin InPass

\* watch.rs, "no gap": an edit no scan has seen is still queued or has a pass
\* coming that will scan; one that a scan has seen and that has not reached
\* the head is in the pass, or has the retry timer.
NoLocalGap ==
    mode = "converge" =>
        /\ local # scanned =>
              Stirring \/ at = "scanning" \/ "fs" \in Range(queue) \/ RetryDue
        /\ scanned # synced => at \in InPass \/ retry

\* The head this device has yet to see is announced: on one of the hops of a
\* hint, or by the head_now of the next connection.
Hinted ==
    \/ head \in announcing \cup Range(wire) \cup Range(feed)
    \/ conn # "up"

\* The hint has become a pass.
Underway ==
    \/ Stirring
    \/ {"kick", "fs"} \cap Range(queue) # {}
    \/ at \in InPass /\ fetched = head

\* relay.rs, routes.rs, loops.rs: whatever is dropped on the way (a lagging
\* subscriber, a dead connection, an echo, a drained queue), a head that this
\* device has not seen is hinted or underway, or else its fan-out was lost
\* with its handler or the last pass failed.
NoRemoteGap == head # seen => Hinted \/ Underway \/ lost > 0 \/ RetryDue

\* Either hints arrive whole, and connections come back, or the long poll
\* fires: in both cases the device ends with the head, and a converging one
\* with all its edits published.
Hints ==
    /\ WF_vars(Reconnect)
    /\ [](lost = 0)
    /\ [](mode = "mirror" => ~retry)

Polls == WF_vars(Poll("long"))

UpToDate == seen = head /\ (mode = "converge" => synced = local)

CaughtUp == Hints \/ Polls => <>[]UpToDate
=============================================================================
