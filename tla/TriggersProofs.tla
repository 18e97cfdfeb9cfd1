--------------------------- MODULE TriggersProofs ---------------------------
(***************************************************************************)
(* No gap: proofs about module Triggers, for any capacity of the hint      *)
(* channel and any number of commits, edits, lost connections, failed      *)
(* passes and lost fan-outs.                                               *)
(*                                                                         *)
(* With the types, NoLocalGap and NoRemoteGap are inductive: each step     *)
(* that consumes a witness of news (an event, a hint, a kick, a retry)     *)
(* leaves the next one in its place.                                       *)
(***************************************************************************)
EXTENDS Triggers, TLAPS, SequenceTheorems

Kind == {"fs", "pear", "kick"}

-----------------------------------------------------------------------------
(***************************************************************************)
(* The queues.                                                             *)
(***************************************************************************)

\* A queue may be read as one of larger sequence numbers.
LEMMA StreamGrows ==
    ASSUME NEW a \in Nat, NEW b \in Nat, a <= b, NEW s \in Seq(0 .. a)
    PROVE  s \in Seq(0 .. b)
<1>1. 0 .. a \subseteq 0 .. b
  OBVIOUS
<1> QED
  BY <1>1, SeqMonotonic

\* mpsc send: what was queued stays queued, and the new element is.
LEMMA AppendRange ==
    ASSUME NEW S, NEW s \in Seq(S), NEW e \in S
    PROVE  /\ Append(s, e) \in Seq(S)
           /\ Range(Append(s, e)) = Range(s) \cup {e}
<1>1. /\ Append(s, e) \in Seq(S)
      /\ Len(Append(s, e)) = Len(s) + 1
      /\ \A i \in 1 .. Len(s) : Append(s, e)[i] = s[i]
      /\ Append(s, e)[Len(s) + 1] = e
  BY AppendProperties
<1>2. /\ DOMAIN Append(s, e) = 1 .. Len(Append(s, e))
      /\ DOMAIN s = 1 .. Len(s) /\ Len(s) \in Nat
  BY <1>1, LenProperties
<1>3. DOMAIN Append(s, e) = DOMAIN s \cup {Len(s) + 1}
  BY <1>1, <1>2
<1> QED
  BY <1>1, <1>2, <1>3, Zenon DEF Range

\* mpsc recv: the element received is the only one that leaves the queue.
LEMMA TailRange ==
    ASSUME NEW S, NEW s \in Seq(S), s # <<>>
    PROVE  /\ Head(s) \in S /\ Tail(s) \in Seq(S)
           /\ Range(s) = Range(Tail(s)) \cup {Head(s)}
<1>1. /\ Head(s) \in S /\ Tail(s) \in Seq(S)
      /\ Len(Tail(s)) = Len(s) - 1
      /\ \A i \in 1 .. Len(Tail(s)) : Tail(s)[i] = s[i + 1]
  BY HeadTailProperties
<1>2. Len(s) \in Nat \ {0} /\ Head(s) = s[1]
  BY EmptySeq
<1>3. Range(s) = {s[i] : i \in 1 .. Len(s)}
  BY RangeEquality
<1>4. Range(Tail(s)) = {Tail(s)[i] : i \in 1 .. Len(Tail(s))}
  BY <1>1, RangeEquality
<1>5. Range(Tail(s)) = {s[i + 1] : i \in 1 .. Len(s) - 1}
  BY <1>1, <1>2, <1>4
<1>6. \A i \in 1 .. Len(s) : i = 1 \/ \E j \in 1 .. Len(s) - 1 : i = j + 1
  <2>1. \A i \in 1 .. Len(s) : i = 1 \/ (i - 1 \in 1 .. Len(s) - 1 /\ i = (i - 1) + 1)
    BY <1>2
  <2> QED
    BY <2>1
<1>7. ASSUME NEW i \in 1 .. Len(s)
      PROVE  s[i] \in Range(Tail(s)) \cup {Head(s)}
  BY <1>2, <1>5, <1>6
<1>8. ASSUME NEW j \in 1 .. Len(s) - 1
      PROVE  s[j + 1] \in Range(s)
  <2>1. j + 1 \in 1 .. Len(s)
    BY <1>2
  <2> QED
    BY <2>1, <1>3
<1>9. s[1] \in Range(s)
  BY <1>2, <1>3
<1> QED
  BY <1>1, <1>2, <1>3, <1>5, <1>7, <1>8, <1>9

\* Equal neighbours count as one: a trigger pushed is in the queue.
LEMMA PushRange ==
    ASSUME queue \in Seq(Kind), NEW k \in Kind
    PROVE  /\ Push(k) \in Seq(Kind)
           /\ Range(Push(k)) = Range(queue) \cup {k}
<1>1. CASE queue # <<>> /\ queue[Len(queue)] = k
  <2>1. Len(queue) \in DOMAIN queue
    BY <1>1, EmptySeq, LenProperties
  <2>2. k \in Range(queue)
    BY <1>1, <2>1 DEF Range
  <2> QED
    BY <1>1, <2>2 DEF Push
<1>2. CASE ~(queue # <<>> /\ queue[Len(queue)] = k)
  BY <1>2, AppendRange DEF Push
<1> QED
  BY <1>1, <1>2

-----------------------------------------------------------------------------
(***************************************************************************)
(* Types.                                                                  *)
(***************************************************************************)

\* Every hint on the way stays one of a published head when the head moves.
LEMMA StreamStep ==
    ASSUME TypeOK, head' \in Nat, head <= head'
    PROVE  /\ \A s \in Stream : s \in Stream'
           /\ 0 .. head \subseteq 0 .. head' /\ 1 .. head \subseteq 1 .. head'
<1>1. head \in Nat
  BY DEF TypeOK
<1>2. ASSUME NEW s \in Seq(0 .. head) PROVE s \in Seq(0 .. head')
  BY <1>1, <1>2, StreamGrows
<1> QED
  BY <1>1, <1>2 DEF Stream

\* No hint at all.
LEMMA NoHints == \A n : <<>> \in Seq(0 .. n) /\ Len(<<>>) = 0
  BY EmptySeq

\* The queue of triggers after one more, after one less and after none.
LEMMA QueueType ==
    ASSUME TypeOK
    PROVE  /\ \A k \in Kind : Push(k) \in Seq(Kind)
           /\ queue # <<>> => Tail(queue) \in Seq(Kind)
           /\ <<>> \in Seq(Kind)
<1>1. queue \in Seq(Kind)
  BY DEF TypeOK, Kind
<1> QED
  BY <1>1, PushRange, TailRange, EmptySeq

\* What the relay does keeps the types.
LEMMA RelayType == ASSUME TypeOK, Relay PROVE TypeOK'
<1>1. CASE OtherCommits
  <2>1. head' \in Nat /\ head <= head'
    BY <1>1 DEF OtherCommits, TypeOK
  <2> QED
    BY <1>1, <2>1, StreamStep DEF OtherCommits, TypeOK, companion, loop, tree
<1>2. CASE Drop
  BY <1>2, NoHints, TriggersAssumption
  DEF Drop, TypeOK, Stream, companion, loop, tree
<1>3. ASSUME NEW s \in announcing, Announce(s) PROVE TypeOK'
  <2>1. s \in 0 .. head /\ wire \in Seq(0 .. head)
    BY DEF TypeOK, Stream
  <2>2. /\ Append(wire, s) \in Seq(0 .. head)
        /\ Len(Append(wire, s)) = Len(wire) + 1 /\ Len(wire) \in Nat
    BY <2>1, AppendProperties, LenProperties
  <2>3. wire' \in Seq(0 .. head) /\ Len(wire') <= Capacity
    <3>1. CASE wire' = <<>>
      BY <3>1, EmptySeq, TriggersAssumption
    <3>2. CASE wire' = Append(wire, s) /\ ~Lags
      BY <3>2, <2>2, TriggersAssumption DEF Lags
    <3>3. CASE wire' = wire
      BY <3>3 DEF TypeOK, Stream
    <3> QED
      BY <1>3, <3>1, <3>2, <3>3 DEF Announce
  <2> QED
    BY <1>3, <2>3 DEF Announce, TypeOK, Stream, companion, loop, tree
<1>4. ASSUME NEW s \in announcing, HandlerDies(s) PROVE TypeOK'
  BY <1>4, TriggersAssumption DEF HandlerDies, TypeOK, Stream, companion, loop, tree
<1> QED
  BY <1>1, <1>2, <1>3, <1>4 DEF Relay

\* What the listener and the companion do keeps the types.
LEMMA ClientType == ASSUME TypeOK, Listener \/ Companion PROVE TypeOK'
<1>1. CASE Detect
  BY <1>1 DEF Detect, TypeOK, Stream, companion, loop, tree
<1>2. CASE Reconnect
  <2>1. <<head>> \in Seq(0 .. head) /\ Len(<<head>>) = 1
    BY DEF TypeOK
  <2> QED
    BY <1>2, <2>1, TriggersAssumption
    DEF Reconnect, HeadNow, TypeOK, Stream, companion, loop, tree
<1>3. CASE Deliver
  <2>1. wire \in Seq(0 .. head) /\ feed \in Seq(0 .. head) /\ wire # <<>>
    BY <1>3 DEF Deliver, TypeOK, Stream
  <2>2. /\ Head(wire) \in 0 .. head /\ Tail(wire) \in Seq(0 .. head)
        /\ Len(Tail(wire)) = Len(wire) - 1 /\ Len(wire) \in Nat
    BY <2>1, HeadTailProperties, LenProperties
  <2>3. Append(feed, Head(wire)) \in Seq(0 .. head)
    BY <2>1, <2>2, AppendProperties
  <2>4. Len(wire') <= Capacity
    BY <1>3, <2>2, TriggersAssumption DEF Deliver, TypeOK
  <2> QED
    BY <1>3, <2>2, <2>3, <2>4 DEF Deliver, TypeOK, Stream, loop, tree
<1>4. CASE StartWait
  BY <1>4 DEF StartWait, TypeOK, Stream, net, loop, tree
<1>5. CASE TakeHint
  <2>1. Tail(feed) \in Seq(0 .. head)
    BY <1>5, HeadTailProperties DEF TakeHint, TypeOK, Stream
  <2>2. queue' \in Seq(Kind) /\ at' \in {at, "ready"}
    BY <1>5, QueueType DEF TakeHint, Kind, TypeOK
  <2> QED
    BY <1>5, <2>1, <2>2 DEF TakeHint, TypeOK, Stream, net, tree, Kind
<1>6. ASSUME NEW interval \in {"short", "long"}, Poll(interval) PROVE TypeOK'
  <2>1. queue' \in Seq(Kind) /\ at' \in {at, "ready"}
    BY <1>6, QueueType DEF Poll, Kind, TypeOK
  <2> QED
    BY <1>6, <2>1 DEF Poll, TypeOK, Stream, net, tree, Kind
<1> QED
  BY <1>1, <1>2, <1>3, <1>4, <1>5, <1>6 DEF Listener, Companion

\* What the watch loop does keeps the types.
LEMMA LoopType ==
    ASSUME TypeOK, Edit \/ Loop \/ Fail \/ AnswerLost \/ Demote PROVE TypeOK'
<1> USE TriggersAssumption, QueueType
<1>1. CASE Edit
  BY <1>1 DEF Edit, TypeOK, Stream, net, companion, Kind
<1>2. CASE Wake
  BY <1>2 DEF Wake, TypeOK, Stream, net, companion, tree, Kind
<1>3. CASE RetryFires
  BY <1>3 DEF RetryFires, TypeOK, Stream, net, companion, tree, Kind
<1>4. CASE Coalesce
  BY <1>4 DEF Coalesce, TypeOK, Stream, net, companion, tree, Kind
<1>5. CASE WindowCloses
  BY <1>5 DEF WindowCloses, TypeOK, Stream, net, companion, tree, Kind
<1>6. CASE Drain
  BY <1>6, NoHints DEF Drain, TypeOK, Stream, InPass, net, tree, Kind
<1>7. CASE Fetch
  BY <1>7 DEF Fetch, TypeOK, Stream, InPass, net, companion, Kind
<1>8. CASE Scan
  BY <1>8 DEF Scan, TypeOK, Stream, InPass, net, companion, Kind
<1>9. CASE Agree
  BY <1>9 DEF Agree, PassEnds, PassWrites, TypeOK, Stream, companion, Kind
<1>10. ASSUME Commits PROVE head' \in Nat /\ head <= head'
  BY <1>10 DEF Commits, TypeOK
<1>11. CASE Publish
  <2>1. head' = head + 1 /\ head \in Nat
    BY <1>11 DEF Publish, Commits, TypeOK
  <2>2. head + 1 \in 1 .. head' /\ head + 1 \in 0 .. head'
    BY <2>1
  <2>3. announcing' \subseteq 1 .. head'
    BY <1>11, <2>1, <2>2 DEF Publish, Commits, TypeOK
  <2>4. wire' \in Stream' /\ feed' \in Stream' /\ fetched' \in 0 .. head'
    BY <1>11, <2>1, StreamStep DEF Publish, PassEnds, TypeOK, companion
  <2>5. seen' \in 0 .. head' /\ synced' \in 0 .. scanned' /\ scanned' \in 0 .. local'
    BY <1>11, <2>1, <2>2 DEF Publish, Commits, PassEnds, TypeOK
  <2>6. queue' \in Seq(Kind) /\ at' = "waiting" /\ retry' = FALSE
    BY <1>11 DEF Publish, Commits, PassEnds, PassWrites, Kind
  <2>7. UNCHANGED <<mode, lost, conn, wire, drops, wait, wanted, fails, local>>
    BY <1>11 DEF Publish, PassEnds, companion
  <2>8. /\ wanted' \in BOOLEAN /\ retry' \in BOOLEAN
        /\ at' \in InPass \cup {"waiting", "coalescing", "ready"}
        /\ mode' \in {"converge", "mirror"} /\ conn' \in {"down", "up", "silent"}
        /\ wait' \in {"none", "short", "long"}
    BY <2>6, <2>7 DEF TypeOK
  <2>9. /\ local' \in 0 .. MaxEdits /\ lost' \in 0 .. MaxLost
        /\ drops' \in 0 .. MaxDrops /\ fails' \in 0 .. MaxFails
        /\ Len(wire') <= Capacity
    BY <2>7 DEF TypeOK
  <2>10. head' \in Nat
    BY <2>1
  <2> QED
    BY <2>3, <2>4, <2>5, <2>6, <2>8, <2>9, <2>10, Zenon DEF TypeOK, Kind, InPass
<1>12. CASE LoseRace
  BY <1>12 DEF LoseRace, TypeOK, Stream, InPass, net, companion, tree, Kind
<1>13. CASE Fail
  BY <1>13 DEF Fail, PassFails, TypeOK, Stream, companion, Kind
<1>14. CASE AnswerLost
  BY <1>10, <1>14, StreamStep
  DEF AnswerLost, Commits, PassFails, PassWrites, TypeOK, companion, Kind
<1>15. CASE Demote
  <2>1. wire' \in Stream' /\ feed' \in Stream' /\ Len(wire') <= Capacity
    BY <1>15, NoHints DEF Demote, Stream
  <2> QED
    BY <1>15, <2>1 DEF Demote, TypeOK, Stream, tree, Kind
<1> QED
  BY <1>1, <1>2, <1>3, <1>4, <1>5, <1>6, <1>7, <1>8, <1>9, <1>11, <1>12,
     <1>13, <1>14, <1>15 DEF Loop

\* Types, in the first state and after every step.
LEMMA TypeInit == Init => TypeOK
<1>1. <<>> \in Seq({"fs", "pear", "kick"})
  BY EmptySeq
<1>2. Init => wire \in Stream /\ feed \in Stream /\ Len(wire) <= Capacity
  BY NoHints, TriggersAssumption DEF Init, Stream
<1>3. Init => at \in InPass \cup {"waiting", "coalescing", "ready"}
  BY DEF Init, InPass
<1>4. Init => /\ head \in Nat /\ announcing \subseteq 1 .. head
              /\ local \in 0 .. MaxEdits /\ scanned \in 0 .. local
              /\ synced \in 0 .. scanned
              /\ fetched \in 0 .. head /\ seen \in 0 .. head
              /\ lost \in 0 .. MaxLost /\ drops \in 0 .. MaxDrops
              /\ fails \in 0 .. MaxFails
  BY TriggersAssumption DEF Init
<1>5. Init => /\ mode \in {"converge", "mirror"}
              /\ conn \in {"down", "up", "silent"}
              /\ wait \in {"none", "short", "long"}
              /\ wanted \in BOOLEAN /\ retry \in BOOLEAN
              /\ queue \in Seq({"fs", "pear", "kick"})
  BY <1>1 DEF Init
<1> QED
  BY <1>2, <1>3, <1>4, <1>5 DEF TypeOK

\* Every step of the relay, the socket, the companion and the loop keeps the types.
LEMMA TypeStep == TypeOK /\ [Next]_vars => TypeOK'
<1>1. ASSUME TypeOK, UNCHANGED vars PROVE TypeOK'
  BY <1>1 DEF TypeOK, Stream, vars, net, companion, loop, tree
<1> QED
  BY <1>1, RelayType, ClientType, LoopType DEF Next

\* The queues hold triggers and hints of published heads, and the wire never
\* more than the channel's capacity.
THEOREM TriggersTypeCorrect == Spec => []TypeOK
  BY TypeInit, TypeStep, PTL DEF Spec

-----------------------------------------------------------------------------
(***************************************************************************)
(* No local gap.                                                           *)
(***************************************************************************)

\* What is in the queue of triggers after a push, and after the first one is
\* taken.
LEMMA QueueRange ==
    ASSUME TypeOK
    PROVE  /\ \A k \in Kind : Range(Push(k)) = Range(queue) \cup {k}
           /\ queue # <<>> => /\ Head(queue) \in Kind
                              /\ Range(queue) = Range(Tail(queue)) \cup {Head(queue)}
<1>1. queue \in Seq(Kind)
  BY DEF TypeOK, Kind
<1> QED
  BY <1>1, PushRange, TailRange

\* Steps of other threads leave the loop and the tree alone, but for a kick.
LEMMA LocalElsewhere ==
    ASSUME TypeOK, NoLocalGap, Relay \/ Listener \/ Companion
    PROVE  NoLocalGap'
<1> DEFINE Kept ==
    /\ UNCHANGED <<mode, wanted, retry, local, scanned, synced>>
    /\ mode = "converge" => at' = at /\ Range(queue) \subseteq Range(queue')
<1>1. Relay => Kept
  BY DEF Relay, OtherCommits, Drop, Announce, HandlerDies, loop, tree
<1>2. Listener \/ StartWait => Kept
  BY DEF Listener, Detect, Reconnect, Deliver, StartWait, loop, tree
<1>3. ASSUME TakeHint \/ Poll("short") \/ Poll("long") PROVE Kept
  <2>1. Range(queue) \subseteq Range(Push("kick"))
    BY QueueRange DEF Kind
  <2> QED
    BY <1>3, <2>1 DEF TakeHint, Poll, tree
<1>4. Kept
  BY <1>1, <1>2, <1>3 DEF Companion
<1> QED
  BY <1>4 DEF NoLocalGap, Stirring, RetryDue

\* An edit is an event; an event that is taken opens a window that wants a
\* pass; a pass that is wanted scans; one that fails is tried again.
LEMMA LocalLoop ==
    ASSUME TypeOK, NoLocalGap,
           Edit \/ Loop \/ Fail \/ AnswerLost \/ Demote
    PROVE  NoLocalGap'
<1> USE DEF NoLocalGap, Stirring, RetryDue, InPass
<1>1. CASE Edit
  <2>1. "fs" \in Range(queue')
    BY <1>1, QueueRange DEF Edit, Kind
  <2> QED
    BY <1>1, <2>1 DEF Edit
<1>2. CASE Wake
  BY <1>2, QueueRange DEF Wake, tree, Kind
<1>3. CASE RetryFires
  BY <1>3 DEF RetryFires, tree
<1>4. CASE Coalesce
  <2>1. /\ Range(queue) = Range(queue') \cup {Head(queue)}
        /\ wanted' = (wanted \/ Head(queue) # "pear")
    BY <1>4, QueueRange DEF Coalesce
  <2>2. "fs" \in Range(queue) => "fs" \in Range(queue') \/ wanted' = TRUE
    BY <2>1
  <2>3. wanted => wanted' = TRUE
    BY <2>1
  <2> QED
    BY <1>4, <2>2, <2>3 DEF Coalesce, tree
<1>5. CASE WindowCloses
  BY <1>5 DEF WindowCloses, tree
<1>6. CASE Drain
  BY <1>6 DEF Drain, tree
<1>7. CASE Fetch
  BY <1>7 DEF Fetch
<1>8. CASE Scan
  BY <1>8 DEF Scan
<1>9. CASE Agree
  <2>1. mode = "converge" => Range(queue) \subseteq Range(queue')
    BY <1>9, QueueRange DEF Agree, PassWrites, Kind
  <2> QED
    BY <1>9, <2>1 DEF Agree, PassEnds
<1>10. CASE Publish
  <2>1. Range(queue) \subseteq Range(queue')
    BY <1>10, QueueRange DEF Publish, Commits, PassWrites, Kind
  <2> QED
    BY <1>10, <2>1 DEF Publish, Commits, PassEnds
<1>11. CASE LoseRace
  BY <1>11 DEF LoseRace, tree
<1>12. CASE Fail
  BY <1>12 DEF Fail, PassFails
<1>13. CASE AnswerLost
  BY <1>13 DEF AnswerLost, Commits, PassFails
<1>14. CASE Demote
  BY <1>14 DEF Demote
<1> QED
  BY <1>1, <1>2, <1>3, <1>4, <1>5, <1>6, <1>7, <1>8, <1>9, <1>10, <1>11,
     <1>12, <1>13, <1>14 DEF Loop

\* watch.rs, the "no-gap guarantee" of the loop, for edits of the tree.
THEOREM NoEditForgotten == Spec => []NoLocalGap
<1>1. Init => NoLocalGap
  BY DEF Init, NoLocalGap
<1>2. TypeOK /\ NoLocalGap /\ [Next]_vars => NoLocalGap'
  <2>1. ASSUME NoLocalGap, UNCHANGED vars PROVE NoLocalGap'
    BY <2>1
    DEF NoLocalGap, Stirring, RetryDue, vars, net, companion, loop, tree
  <2> QED
    BY <2>1, LocalElsewhere, LocalLoop DEF Next
<1> QED
  BY <1>1, <1>2, TriggersTypeCorrect, PTL DEF Spec

-----------------------------------------------------------------------------
(***************************************************************************)
(* No remote gap.                                                          *)
(***************************************************************************)

\* What a pass has fetched is no older than what this device has seen.
FetchesForward == at \in {"scanning", "publishing"} => seen <= fetched

\* Heads only grow and passes are one after the other: no pass can end with a
\* head older than the one the pass before it ended with.
THEOREM NeverFetchesBack == Spec => []FetchesForward
<1>1. Init => FetchesForward
  BY DEF Init, FetchesForward
<1>2. TypeOK /\ FetchesForward /\ [Next]_vars => FetchesForward'
  <2> SUFFICES ASSUME TypeOK, FetchesForward, [Next]_vars
               PROVE  FetchesForward'
    OBVIOUS
  <2> USE DEF FetchesForward
  <2>1. CASE Relay \/ Listener \/ StartWait \/ Edit \/ UNCHANGED vars
    BY <2>1
    DEF Relay, OtherCommits, Drop, Announce, HandlerDies, Listener, Detect,
        Reconnect, Deliver, StartWait, Edit, vars, loop, tree
  <2>2. CASE TakeHint \/ Poll("short") \/ Poll("long")
    BY <2>2 DEF TakeHint, Poll, tree
  <2>3. CASE Wake \/ RetryFires \/ Coalesce \/ WindowCloses \/ Drain \/ LoseRace
    BY <2>3 DEF Wake, RetryFires, Coalesce, WindowCloses, Drain, LoseRace, tree
  <2>4. CASE Fetch
    BY <2>4 DEF Fetch, TypeOK
  <2>5. CASE Scan
    BY <2>5 DEF Scan
  <2>6. CASE Agree \/ Publish \/ Fail \/ AnswerLost \/ Demote
    BY <2>6 DEF Agree, Publish, Fail, AnswerLost, Demote, PassEnds, PassFails
  <2> QED
    BY <2>1, <2>2, <2>3, <2>4, <2>5, <2>6 DEF Next, Companion, Loop
<1> QED
  BY <1>1, <1>2, TriggersTypeCorrect, PTL DEF Spec

\* What the wire and the feed hold after one hint more and one less.
LEMMA HintRange ==
    ASSUME TypeOK
    PROVE  /\ \A s \in 0 .. head : Range(Append(wire, s)) = Range(wire) \cup {s}
           /\ Range(<<head>>) = {head}
           /\ wire # <<>> =>
                 /\ Range(Append(feed, Head(wire))) = Range(feed) \cup {Head(wire)}
                 /\ Range(wire) = Range(Tail(wire)) \cup {Head(wire)}
           /\ feed # <<>> =>
                 /\ Head(feed) \in 0 .. head
                 /\ Range(feed) = Range(Tail(feed)) \cup {Head(feed)}
<1> DEFINE S == 0 .. head
<1>1. wire \in Seq(S) /\ feed \in Seq(S)
  BY DEF TypeOK, Stream
<1> HIDE DEF S
<1>2. Range(<<head>>) = {head}
  BY DEF Range
<1>3. \A s \in S : Range(Append(wire, s)) = Range(wire) \cup {s}
  BY <1>1, AppendRange
<1>4. ASSUME wire # <<>>
      PROVE  /\ Head(wire) \in S
             /\ Range(wire) = Range(Tail(wire)) \cup {Head(wire)}
             /\ Range(Append(feed, Head(wire))) = Range(feed) \cup {Head(wire)}
  <2>1. /\ Head(wire) \in S
        /\ Range(wire) = Range(Tail(wire)) \cup {Head(wire)}
    BY <1>1, <1>4, TailRange
  <2> QED
    BY <1>1, <2>1, AppendRange
<1>5. ASSUME feed # <<>>
      PROVE  /\ Head(feed) \in S
             /\ Range(feed) = Range(Tail(feed)) \cup {Head(feed)}
  BY <1>1, <1>5, TailRange
<1> QED
  BY <1>2, <1>3, <1>4, <1>5 DEF S

\* A commit is announced, and an announcement reaches the wire or else the
\* connection ends, which the next one makes up for.
LEMMA RemoteRelay ==
    ASSUME TypeOK, NoRemoteGap, Relay
    PROVE  NoRemoteGap'
<1> USE DEF NoRemoteGap, Hinted, Underway, Stirring, RetryDue, InPass
<1>1. CASE OtherCommits
  BY <1>1 DEF OtherCommits
<1>2. CASE Drop
  BY <1>2 DEF Drop
<1>3. ASSUME NEW s \in announcing, Announce(s) PROVE NoRemoteGap'
  <2>1. s \in 0 .. head
    BY DEF TypeOK
  <2>2. \/ conn' # "up"
        \/ announcing \cup Range(wire) \subseteq announcing' \cup Range(wire')
    <3>1. CASE wire' = Append(wire, s)
      BY <1>3, <2>1, <3>1, HintRange DEF Announce
    <3> QED
      BY <1>3, <3>1 DEF Announce
  <2> QED
    BY <1>3, <2>2 DEF Announce, companion, loop, tree
<1>4. ASSUME NEW s \in announcing, HandlerDies(s) PROVE NoRemoteGap'
  <2>1. lost' > 0
    BY <1>4 DEF HandlerDies, TypeOK
  <2> QED
    BY <2>1
<1> QED
  BY <1>1, <1>2, <1>3, <1>4 DEF Relay

\* A connection starts with the head; a hint that arrives is an echo, or it
\* becomes a kick, or the mirror's next pull.
LEMMA RemoteClient ==
    ASSUME TypeOK, NoRemoteGap, Listener \/ Companion
    PROVE  NoRemoteGap'
<1> USE DEF NoRemoteGap, Hinted, Underway, Stirring, RetryDue, InPass
<1>1. CASE Detect
  BY <1>1 DEF Detect
<1>2. CASE Reconnect
  <2>1. head \in Range(wire')
    BY <1>2, HintRange DEF Reconnect, HeadNow
  <2> QED
    BY <1>2, <2>1 DEF Reconnect
<1>3. CASE Deliver
  <2>1. Range(wire) \cup Range(feed) \subseteq Range(wire') \cup Range(feed')
    BY <1>3, HintRange DEF Deliver
  <2> QED
    BY <1>3, <2>1 DEF Deliver, loop, tree
<1>4. CASE StartWait
  BY <1>4 DEF StartWait, net, loop, tree
<1>5. CASE TakeHint
  <2>1. Range(feed) = Range(feed') \cup {Head(feed)} /\ Head(feed) \in 0 .. head
    BY <1>5, HintRange DEF TakeHint
  <2>2. CASE mode = "mirror"
    BY <1>5, <2>2 DEF TakeHint
  <2>3. CASE mode = "converge" /\ News(Head(feed))
    BY <1>5, <2>3, QueueRange DEF TakeHint, Kind
  <2>4. CASE mode = "converge" /\ ~News(Head(feed))
    <3>1. head # seen => Head(feed) # head
      BY <2>1, <2>4 DEF News, TypeOK
    <3> QED
      BY <1>5, <2>1, <2>4, <3>1 DEF TakeHint, net, tree
  <2> QED
    BY <1>5, <2>2, <2>3, <2>4 DEF TakeHint
<1>6. ASSUME NEW interval \in {"short", "long"}, Poll(interval) PROVE NoRemoteGap'
  <2>1. "kick" \in Range(queue') \/ at' = "ready"
    BY <1>6, QueueRange DEF Poll, Kind
  <2> QED
    BY <2>1
<1> QED
  BY <1>1, <1>2, <1>3, <1>4, <1>5, <1>6 DEF Listener, Companion

\* A kick becomes a pass, a pass that has fetched the head ends with it, one
\* that has not is followed by the hint of what it missed.
LEMMA RemoteLoop ==
    ASSUME TypeOK, FetchesForward, NoRemoteGap,
           Edit \/ Loop \/ Fail \/ AnswerLost \/ Demote
    PROVE  NoRemoteGap'
<1> USE DEF NoRemoteGap, Hinted, Underway, Stirring, RetryDue, InPass
<1>1. CASE Edit
  <2>1. Range(queue) \subseteq Range(queue')
    BY <1>1, QueueRange DEF Edit, Kind
  <2> QED
    BY <1>1, <2>1 DEF Edit, net, companion
<1>2. CASE Wake
  BY <1>2, QueueRange DEF Wake, net, companion, tree, Kind
<1>3. CASE RetryFires
  BY <1>3 DEF RetryFires
<1>4. CASE Coalesce
  <2>1. /\ Range(queue) = Range(queue') \cup {Head(queue)}
        /\ wanted' = (wanted \/ Head(queue) # "pear")
    BY <1>4, QueueRange DEF Coalesce
  <2>2. {"kick", "fs"} \cap Range(queue) # {} =>
           {"kick", "fs"} \cap Range(queue') # {} \/ wanted' = TRUE
    BY <2>1
  <2>3. wanted => wanted' = TRUE
    BY <2>1
  <2> QED
    BY <1>4, <2>2, <2>3 DEF Coalesce, net, companion, tree
<1>5. CASE WindowCloses
  BY <1>5 DEF WindowCloses, net, companion, tree
<1>6. CASE Drain
  BY <1>6 DEF Drain
<1>7. CASE Fetch
  BY <1>7 DEF Fetch
<1>8. CASE Scan
  <2>1. Range(queue) \subseteq Range(queue')
    BY <1>8, QueueRange DEF Scan, Kind
  <2> QED
    BY <1>8, <2>1 DEF Scan, net, companion
<1>9. CASE Agree
  <2>1. Range(queue) \subseteq Range(queue')
    BY <1>9, QueueRange DEF Agree, PassWrites, Kind
  <2>2. head = seen => head = fetched
    BY <1>9 DEF Agree, TypeOK, FetchesForward
  <2> QED
    BY <1>9, <2>1, <2>2 DEF Agree, PassEnds, companion
<1>10. CASE Publish
  BY <1>10 DEF Publish, Commits, PassEnds
<1>11. CASE LoseRace
  BY <1>11 DEF LoseRace
<1>12. CASE Fail
  BY <1>12 DEF Fail, PassFails
<1>13. CASE AnswerLost
  BY <1>13 DEF AnswerLost, Commits, PassFails
<1>14. CASE Demote
  BY <1>14 DEF Demote
<1> QED
  BY <1>1, <1>2, <1>3, <1>4, <1>5, <1>6, <1>7, <1>8, <1>9, <1>10, <1>11,
     <1>12, <1>13, <1>14 DEF Loop

\* DESIGN.md section 21: a head this device has not seen never goes unnoticed,
\* unless its fan-out was lost or the last pass failed.
THEOREM NoHeadForgotten == Spec => []NoRemoteGap
<1>1. Init => NoRemoteGap
  BY DEF Init, NoRemoteGap
<1>2. TypeOK /\ FetchesForward /\ NoRemoteGap /\ [Next]_vars => NoRemoteGap'
  <2>1. ASSUME NoRemoteGap, UNCHANGED vars PROVE NoRemoteGap'
    BY <2>1 DEF NoRemoteGap, Hinted, Underway, Stirring, RetryDue, vars, net,
                companion, loop, tree
  <2> QED
    BY <2>1, RemoteRelay, RemoteClient, RemoteLoop DEF Next
<1> QED
  BY <1>1, <1>2, TriggersTypeCorrect, NeverFetchesBack, PTL DEF Spec
=============================================================================
