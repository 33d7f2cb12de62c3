--------------------------- MODULE EventBusProofs ----------------------------
(***************************************************************************)
(* Proofs about EventBus, for any number of workers, streams and topics,   *)
(* any queue size and any bound on the number of events.                   *)
(***************************************************************************)
EXTENDS EventBus, SequenceTheorems, TLAPS

(* Type correctness. *)

LEMMA EventType ==
  ASSUME NEW w \in Workers, NEW t \in Topics, NEW n \in Nat
  PROVE  [at |-> w, topic |-> t, n |-> n] \in Event
BY DEF Event

LEMMA InitType == Init => TypeOK
BY BusAssumption, EmptySeq DEF Init, TypeOK, Topics, Event

LEMMA PublishType ==
  ASSUME TypeOK, NEW w \in Workers, NEW t \in Topics, Publish(w, t)
  PROVE  TypeOK'
<1> USE BusAssumption DEF TypeOK
<1> DEFINE e == [at |-> w, topic |-> t, n |-> published[w][t] + 1]
<1>1. e \in Event
  BY DEF Event
<1>2. /\ published' = [published EXCEPT ![w][t] = @ + 1]
      /\ queue' = [s \in Streams |-> IF s \in Delivered(w, t)
                                     THEN Enqueued(s, e) ELSE queue[s]]
      /\ subscribers' = [subscribers EXCEPT ![t] = @ \ Full(w, t)]
      /\ UNCHANGED <<frame, phase, gone, topics, since, received>>
  BY DEF Publish, AfterPublish
<1> HIDE DEF e
<1>3. ASSUME NEW s \in Streams
      PROVE  queue'[s] \in Seq(Event) /\ Len(queue'[s]) <= QueueMax
  <2>1. CASE s \in Delivered(w, t)
    <3>1. Len(queue[s]) < QueueMax
      BY <2>1, LenProperties DEF Delivered, Full
    <3>2. queue'[s] = Append(queue[s], e)
      BY <1>2, <2>1 DEF Enqueued
    <3> QED BY <1>1, <3>1, <3>2, AppendProperties, LenProperties
  <2>2. CASE s \notin Delivered(w, t)
    BY <1>2, <2>2
  <2> QED BY <2>1, <2>2
<1>4. queue' \in [Streams -> Seq(Event)]
  BY <1>2, <1>3
<1>5. published' \in [Workers -> [Topics -> Nat]]
  BY <1>2
<1>6. subscribers' \in [Topics -> SUBSET Streams]
  BY <1>2
<1> QED BY <1>2, <1>3, <1>4, <1>5, <1>6

LEMMA ConnectType ==
  ASSUME TypeOK, NEW s \in Streams, NEW T \in EndpointTopics, Connect(s, T)
  PROVE  TypeOK'
<1>1. T \subseteq Topics
  BY DEF EndpointTopics, Topics
<1> QED BY <1>1, BusAssumption DEF TypeOK, Connect, Subscribed

\* Taking the head of a queue keeps the types of queue, frame and phase.
LEMMA TakeHeadType ==
  ASSUME TypeOK, NEW s \in Streams, queue[s] # <<>>, TakeHead(s)
  PROVE  /\ queue' \in [Streams -> Seq(Event)]
         /\ \A q \in Streams : Len(queue'[q]) <= QueueMax
         /\ frame' \in [Streams -> Seq(Event)]
         /\ \A q \in Streams : Len(frame'[q]) <= 1
         /\ phase' \in [Streams -> {"new", "waiting", "sending", "closed"}]
<1> USE BusAssumption DEF TypeOK
<1>1. /\ Head(queue[s]) \in Event
      /\ Tail(queue[s]) \in Seq(Event)
      /\ Len(Tail(queue[s])) <= QueueMax
  BY HeadTailProperties, LenProperties
<1>2. <<Head(queue[s])>> \in Seq(Event) /\ Len(<<Head(queue[s])>>) = 1
  BY <1>1
<1>3. /\ frame' = [frame EXCEPT ![s] = <<Head(queue[s])>>]
      /\ queue' = [queue EXCEPT ![s] = Tail(queue[s])]
      /\ phase' = [phase EXCEPT ![s] = "sending"]
  BY DEF TakeHead
<1>4. queue' \in [Streams -> Seq(Event)]
  BY <1>1, <1>3
<1>5. frame' \in [Streams -> Seq(Event)]
  BY <1>2, <1>3
<1> QED BY <1>1, <1>2, <1>3, <1>4, <1>5

LEMMA WakeType ==
  ASSUME TypeOK, NEW s \in Streams, Wake(s) PROVE TypeOK'
<1>1. queue[s] # <<>> /\ TakeHead(s)
  BY DEF Wake
<1> QED BY <1>1, TakeHeadType DEF TypeOK, Wake

LEMMA HeartbeatType ==
  ASSUME TypeOK, NEW s \in Streams, Heartbeat(s) PROVE TypeOK'
BY EmptySeq, BusAssumption DEF TypeOK, Heartbeat, QueueAfterTimeout

LEMMA SentType ==
  ASSUME TypeOK, NEW s \in Streams, Sent(s) PROVE TypeOK'
<1> USE BusAssumption DEF TypeOK
<1>1. received' \in [Streams -> Seq(Event)]
  <2>1. received[s] \o frame[s] \in Seq(Event)
    BY ConcatProperties
  <2> QED BY <2>1 DEF Sent
<1>2. UNCHANGED <<published, subscribers, gone, topics, since>>
  BY DEF Sent
<1>3. CASE queue[s] # <<>>
  <2>1. TakeHead(s)
    BY <1>3 DEF Sent
  <2> QED BY <1>1, <1>2, <1>3, <2>1, TakeHeadType
<1>4. CASE queue[s] = <<>>
  <2>1. /\ phase' = [phase EXCEPT ![s] = "waiting"]
        /\ frame' = [frame EXCEPT ![s] = <<>>]
        /\ UNCHANGED queue
    BY <1>4 DEF Sent
  <2>2. <<>> \in Seq(Event) /\ Len(<<>>) = 0
    BY EmptySeq
  <2> QED BY <1>1, <1>2, <2>1, <2>2
<1> QED BY <1>3, <1>4

LEMMA DisconnectType ==
  ASSUME TypeOK, NEW s \in Streams, Disconnect(s) PROVE TypeOK'
BY DEF TypeOK, Disconnect

LEMMA CleanupType ==
  ASSUME TypeOK, NEW s \in Streams, Cleanup(s) PROVE TypeOK'
BY EmptySeq, BusAssumption DEF TypeOK, Cleanup, Without

LEMMA CrashType ==
  ASSUME TypeOK, NEW w \in Workers, Crash(w) PROVE TypeOK'
BY EmptySeq, BusAssumption DEF TypeOK, Crash

LEMMA NextType == TypeOK /\ [Next]_busVars => TypeOK'
<1> SUFFICES ASSUME TypeOK, [Next]_busVars PROVE TypeOK'
  OBVIOUS
<1>1. CASE UNCHANGED busVars
  BY <1>1 DEF busVars, TypeOK
<1>2. ASSUME NEW w \in Workers, NEW t \in Topics, Publish(w, t) PROVE TypeOK'
  BY <1>2, PublishType
<1>3. ASSUME NEW s \in Streams, StreamNext(s) PROVE TypeOK'
  BY <1>3, ConnectType, WakeType, HeartbeatType, SentType, DisconnectType,
     CleanupType DEF StreamNext
<1>4. ASSUME NEW w \in Workers, Crash(w) PROVE TypeOK'
  BY <1>4, CrashType
<1> QED BY <1>1, <1>2, <1>3, <1>4 DEF Next

\* Every variable keeps its type, and no queue outgrows its maxsize.
THEOREM TypeCorrect == Spec => []TypeOK
<1>1. TypeOK /\ [Next]_busVars => TypeOK'
  BY NextType
<1> QED BY InitType, <1>1, PTL DEF Spec

-----------------------------------------------------------------------------
(* Subscriptions. *)

LEMMA NextSubscribed ==
  TypeOK /\ NoZombieSubscriber /\ [Next]_busVars => NoZombieSubscriber'
<1> SUFFICES ASSUME TypeOK, NoZombieSubscriber, [Next]_busVars
             PROVE  NoZombieSubscriber'
  OBVIOUS
<1> USE DEF NoZombieSubscriber, Open
<1>1. CASE UNCHANGED busVars
  BY <1>1 DEF busVars
<1>2. ASSUME NEW w \in Workers, NEW t \in Topics, Publish(w, t)
      PROVE  NoZombieSubscriber'
  <2>1. \A u \in Topics : subscribers'[u] \subseteq subscribers[u]
    BY <1>2 DEF Publish, AfterPublish, TypeOK
  <2> QED BY <1>2, <2>1 DEF Publish
<1>3. ASSUME NEW s \in Streams, NEW T \in EndpointTopics, Connect(s, T)
      PROVE  NoZombieSubscriber'
  BY <1>3 DEF Connect, Subscribed, TypeOK
<1>4. ASSUME NEW s \in Streams, Wake(s) PROVE NoZombieSubscriber'
  BY <1>4 DEF Wake, TakeHead, TypeOK
<1>5. ASSUME NEW s \in Streams, Heartbeat(s) PROVE NoZombieSubscriber'
  BY <1>5 DEF Heartbeat, TypeOK
<1>6. ASSUME NEW s \in Streams, Sent(s) PROVE NoZombieSubscriber'
  BY <1>6 DEF Sent, TakeHead, TypeOK
<1>7. ASSUME NEW s \in Streams, Disconnect(s) PROVE NoZombieSubscriber'
  BY <1>7 DEF Disconnect, TypeOK
<1>8. ASSUME NEW s \in Streams, Cleanup(s) PROVE NoZombieSubscriber'
  BY <1>8 DEF Cleanup, Without, TypeOK
<1>9. ASSUME NEW w \in Workers, Crash(w) PROVE NoZombieSubscriber'
  BY <1>9 DEF Crash, TypeOK
<1> QED BY <1>1, <1>2, <1>3, <1>4, <1>5, <1>6, <1>7, <1>8, <1>9
        DEF Next, StreamNext

\* No generator ends without taking its queue off the bus, and none receives
\* a topic it did not ask for.
THEOREM NoZombieSubscriberAlways == Spec => []NoZombieSubscriber
<1>1. Init => NoZombieSubscriber
  BY DEF Init, NoZombieSubscriber
<1>2. /\ TypeOK /\ NoZombieSubscriber /\ [Next]_busVars
      => NoZombieSubscriber'
  BY NextSubscribed
<1> QED BY TypeCorrect, <1>1, <1>2, PTL DEF Spec

-----------------------------------------------------------------------------
(* What a stream has been handed.  Every step but a publish leaves the     *)
(* trail of a live stream as it is, and shortens it when its client goes.  *)

\* What the generator holds in each phase.
StreamInv ==
  \A s \in Streams :
    /\ phase[s] = "waiting" => frame[s] = <<>>
    /\ ~Open(s) => queue[s] = <<>> /\ frame[s] = <<>>
    /\ phase[s] = "new" => s \notin gone /\ received[s] = <<>>
    /\ phase[s] = "closed" => s \in gone

LEMMA InitStream == Init => StreamInv
BY DEF Init, StreamInv, Open

LEMMA NextStream ==
  TypeOK /\ NoZombieSubscriber /\ StreamInv /\ [Next]_busVars => StreamInv'
<1> SUFFICES ASSUME TypeOK, NoZombieSubscriber, StreamInv, [Next]_busVars
             PROVE  StreamInv'
  OBVIOUS
<1> USE DEF StreamInv, Open
<1>1. CASE UNCHANGED busVars
  BY <1>1 DEF busVars
<1>2. ASSUME NEW w \in Workers, NEW t \in Topics, Publish(w, t)
      PROVE  StreamInv'
  <2>1. \A s \in Streams : ~Open(s) => s \notin Delivered(w, t)
    BY DEF Delivered, Targets, NoZombieSubscriber
  <2>2. \A s \in Streams : ~Open(s) => queue'[s] = queue[s]
    BY <1>2, <2>1 DEF Publish
  <2> QED BY <1>2, <2>2 DEF Publish
<1>3. ASSUME NEW s \in Streams, NEW T \in EndpointTopics, Connect(s, T)
      PROVE  StreamInv'
  BY <1>3 DEF Connect, Subscribed, TypeOK
<1>4. ASSUME NEW s \in Streams, Wake(s) PROVE StreamInv'
  BY <1>4 DEF Wake, TakeHead, TypeOK
<1>5. ASSUME NEW s \in Streams, Heartbeat(s) PROVE StreamInv'
  BY <1>5 DEF Heartbeat, QueueAfterTimeout, TypeOK
<1>6. ASSUME NEW s \in Streams, Sent(s) PROVE StreamInv'
  BY <1>6 DEF Sent, TakeHead, TypeOK
<1>7. ASSUME NEW s \in Streams, Disconnect(s) PROVE StreamInv'
  BY <1>7 DEF Disconnect, TypeOK
<1>8. ASSUME NEW s \in Streams, Cleanup(s) PROVE StreamInv'
  BY <1>8 DEF Cleanup, TypeOK
<1>9. ASSUME NEW w \in Workers, Crash(w) PROVE StreamInv'
  BY <1>9 DEF Crash, TypeOK
<1> QED BY <1>1, <1>2, <1>3, <1>4, <1>5, <1>6, <1>7, <1>8, <1>9
        DEF Next, StreamNext

LEMMA TrailType ==
  ASSUME TypeOK, NEW s \in Streams PROVE Trail(s) \in Seq(Event)
<1>1. received[s] \o frame[s] \in Seq(Event)
  BY ConcatProperties DEF TypeOK
<1>2. (received[s] \o frame[s]) \o queue[s] \in Seq(Event)
  BY <1>1, ConcatProperties DEF TypeOK
<1> QED BY <1>2 DEF Trail, TypeOK

\* A sequence is its head followed by its tail.
LEMMA HeadThenTail ==
  ASSUME NEW S, NEW q \in Seq(S), q # <<>>
  PROVE  <<Head(q)>> \o Tail(q) = q
<1>1. /\ Head(q) \in S /\ Tail(q) \in Seq(S)
      /\ Len(q) \in Nat \ {0} /\ Len(Tail(q)) = Len(q) - 1
      /\ \A i \in 1 .. Len(Tail(q)) : Tail(q)[i] = q[i + 1]
  BY HeadTailProperties, EmptySeq
<1>2. <<Head(q)>> \in Seq(S) /\ Len(<<Head(q)>>) = 1
  BY <1>1
<1> DEFINE u == <<Head(q)>> \o Tail(q)
<1>3. /\ u \in Seq(S) /\ Len(u) = Len(q)
      /\ \A i \in 1 .. Len(q) :
           u[i] = IF i <= 1 THEN <<Head(q)>>[i] ELSE Tail(q)[i - 1]
  BY <1>1, <1>2, ConcatProperties
<1>4. Head(q) = q[1]
  BY <1>1
<1>5. \A i \in 1 .. Len(q) : u[i] = q[i]
  BY <1>1, <1>3, <1>4
<1> QED BY <1>3, <1>5, SeqEqual

LEMMA OneElement ==
  ASSUME NEW S, NEW q \in Seq(S), Len(q) = 1
  PROVE  q = <<Head(q)>>
<1>1. q # <<>>
  BY EmptySeq
<1>2. Head(q) \in S /\ Tail(q) \in Seq(S) /\ Len(Tail(q)) = 0
  BY <1>1, HeadTailProperties
<1>3. Tail(q) = <<>>
  BY <1>2, EmptySeq
<1>4. <<Head(q)>> \in Seq(S)
  BY <1>2
<1>5. <<Head(q)>> \o <<>> = <<Head(q)>>
  BY <1>4, ConcatEmptySeq
<1> QED BY <1>1, <1>3, <1>5, HeadThenTail

\* The laws of concatenation that trails need.
LEMMA Concat ==
  \A a, b \in Seq(Event) :
    /\ a \o b \in Seq(Event)
    /\ Len(a) \in Nat /\ Len(b) \in Nat
    /\ Len(a \o b) = Len(a) + Len(b)
    /\ \A i \in 1 .. Len(a) : (a \o b)[i] = a[i]
    /\ a \o <<>> = a
<1> SUFFICES ASSUME NEW a \in Seq(Event), NEW b \in Seq(Event)
             PROVE  /\ a \o b \in Seq(Event)
                    /\ Len(a) \in Nat /\ Len(b) \in Nat
                    /\ Len(a \o b) = Len(a) + Len(b)
                    /\ \A i \in 1 .. Len(a) : (a \o b)[i] = a[i]
                    /\ a \o <<>> = a
  OBVIOUS
<1>1. Len(a) \in Nat /\ Len(b) \in Nat
  BY LenProperties
<1>2. /\ a \o b \in Seq(Event)
      /\ Len(a \o b) = Len(a) + Len(b)
      /\ \A i \in 1 .. Len(a) + Len(b) : (a \o b)[i] =
           IF i <= Len(a) THEN a[i] ELSE b[i - Len(a)]
  BY ConcatProperties
<1>3. a \o <<>> = a
  BY ConcatEmptySeq
<1> QED BY <1>1, <1>2, <1>3

LEMMA MoveHead ==
  \A a, q \in Seq(Event) :
    q # <<>> => (a \o <<Head(q)>>) \o Tail(q) = a \o q
<1> SUFFICES ASSUME NEW a \in Seq(Event), NEW q \in Seq(Event), q # <<>>
             PROVE  (a \o <<Head(q)>>) \o Tail(q) = a \o q
  OBVIOUS
<1> DEFINE h == <<Head(q)>>
           t == Tail(q)
<1>1. h \in Seq(Event) /\ t \in Seq(Event)
  BY HeadTailProperties
<1>2. h \o t = q
  BY HeadThenTail
<1> HIDE DEF h, t
<1>3. (a \o h) \o t = a \o (h \o t)
  BY <1>1, ConcatAssociative
<1> QED BY <1>2, <1>3 DEF h, t

\* The trail of s is what it was, or what its client had read when it left.
Cut(s) ==
  /\ Len(Trail(s)') <= Len(Trail(s))
  /\ \A i \in 1 .. Len(Trail(s)') : Trail(s)'[i] = Trail(s)[i]
  /\ s \notin gone' => Trail(s)' = Trail(s)

LEMMA SameIsCut ==
  ASSUME TypeOK, NEW s \in Streams, Trail(s)' = Trail(s) PROVE Cut(s)
BY TrailType, LenProperties DEF Cut

LEMMA LeavingIsCut ==
  ASSUME TypeOK, NEW s \in Streams, s \in gone', received'[s] = received[s]
  PROVE  Cut(s)
<1>1. Trail(s)' = received[s]
  BY DEF Trail
<1>2. CASE s \in gone
  BY <1>1, <1>2, SameIsCut DEF Trail
<1>3. CASE s \notin gone
  <2>1. Trail(s) = (received[s] \o frame[s]) \o queue[s]
    BY <1>3 DEF Trail
  <2>2. /\ received[s] \in Seq(Event)
        /\ frame[s] \in Seq(Event)
        /\ queue[s] \in Seq(Event)
    BY DEF TypeOK
  <2> DEFINE f == received[s] \o frame[s]
  <2>3. /\ f \in Seq(Event)
        /\ Len(received[s]) <= Len(f)
        /\ \A i \in 1 .. Len(received[s]) : f[i] = received[s][i]
    <3> DEFINE a == received[s]
               b == frame[s]
    <3>1. a \in Seq(Event) /\ b \in Seq(Event)
      BY <2>2
    <3> HIDE DEF a, b
    <3>2. /\ a \o b \in Seq(Event)
          /\ Len(a) <= Len(a \o b)
          /\ \A i \in 1 .. Len(a) : (a \o b)[i] = a[i]
      BY <3>1, Concat
    <3> QED BY <3>2 DEF a, b
  <2>4. Trail(s) = f \o queue[s]
    BY <2>1
  <2> HIDE DEF f
  <2>5. /\ Len(f) <= Len(Trail(s))
        /\ \A i \in 1 .. Len(f) : Trail(s)[i] = f[i]
    BY <2>2, <2>3, <2>4, Concat
  <2>6. /\ Len(received[s]) \in Nat
        /\ Len(f) \in Nat
        /\ Len(Trail(s)) \in Nat
    BY <2>2, <2>3, TrailType, LenProperties
  <2>7. /\ Len(received[s]) <= Len(Trail(s))
        /\ \A i \in 1 .. Len(received[s]) : received[s][i] = Trail(s)[i]
    BY <2>3, <2>5, <2>6
  <2> QED BY <1>1, <2>7 DEF Cut
<1> QED BY <1>2, <1>3

LEMMA WakeTrail ==
  ASSUME TypeOK, StreamInv, NEW s \in Streams, Wake(s)
  PROVE  Trail(s)' = Trail(s)
<1>1. /\ frame[s] = <<>> /\ queue[s] # <<>>
      /\ frame'[s] = <<Head(queue[s])>> /\ queue'[s] = Tail(queue[s])
      /\ received' = received /\ gone' = gone
  BY DEF Wake, TakeHead, StreamInv, TypeOK
<1>2. received[s] \in Seq(Event) /\ queue[s] \in Seq(Event)
  BY DEF TypeOK
<1>3. (received[s] \o <<Head(queue[s])>>) \o Tail(queue[s])
        = received[s] \o queue[s]
  BY <1>1, <1>2, MoveHead
<1>4. received[s] \o <<>> = received[s]
  BY <1>2, ConcatEmptySeq
<1> QED BY <1>1, <1>3, <1>4 DEF Trail

LEMMA SentTrail ==
  ASSUME TypeOK, StreamInv, NEW s \in Streams, Sent(s)
  PROVE  Trail(s)' = Trail(s)
<1>1. CASE s \in gone
  BY <1>1 DEF Sent, Trail
<1>2. CASE s \notin gone
  <2> DEFINE f == received[s] \o frame[s]
  <2>1. received'[s] = f /\ gone' = gone
    BY <1>2 DEF Sent, TypeOK
  <2>2. f \in Seq(Event) /\ queue[s] \in Seq(Event)
    BY ConcatProperties DEF TypeOK
  <2>3. Trail(s) = f \o queue[s]
    BY <1>2 DEF Trail
  <2>4. Trail(s)' = (f \o frame'[s]) \o queue'[s]
    BY <1>2, <2>1 DEF Trail
  <2> HIDE DEF f
  <2>5. CASE queue[s] # <<>>
    <3>1. frame'[s] = <<Head(queue[s])>> /\ queue'[s] = Tail(queue[s])
      BY <2>5 DEF Sent, TakeHead, TypeOK
    <3>2. (f \o <<Head(queue[s])>>) \o Tail(queue[s]) = f \o queue[s]
      BY <2>2, <2>5, MoveHead
    <3> QED BY <2>3, <2>4, <3>1, <3>2
  <2>6. CASE queue[s] = <<>>
    <3>1. frame'[s] = <<>> /\ queue'[s] = queue[s]
      BY <2>6 DEF Sent, TypeOK
    <3>2. f \o <<>> = f
      BY <2>2, ConcatEmptySeq
    <3> QED BY <2>3, <2>4, <3>1, <3>2
  <2> QED BY <2>5, <2>6
<1> QED BY <1>1, <1>2

\* A step that publishes nothing and subscribes nobody.
QuietStep ==
  /\ \A s \in Streams : Cut(s)
  /\ UNCHANGED <<published, topics, since>>
  /\ gone \subseteq gone'
  /\ \A t \in Topics : subscribers'[t] \subseteq subscribers[t]

\* A step of stream s that leaves the other streams alone.
Elsewhere(s) ==
  \A q \in Streams \ {s} : /\ queue'[q] = queue[q]
                           /\ frame'[q] = frame[q]
                           /\ received'[q] = received[q]
                           /\ q \in gone' <=> q \in gone

LEMMA ElsewhereIsCut ==
  ASSUME TypeOK, NEW s \in Streams, Elsewhere(s), Cut(s)
  PROVE  \A q \in Streams : Cut(q)
<1>1. ASSUME NEW q \in Streams \ {s} PROVE Trail(q)' = Trail(q)
  BY DEF Elsewhere, Trail
<1> QED BY <1>1, SameIsCut

LEMMA StreamQuiet ==
  ASSUME TypeOK, StreamInv, NEW s \in Streams,
         Wake(s) \/ Heartbeat(s) \/ Sent(s) \/ Disconnect(s) \/ Cleanup(s)
  PROVE  QuietStep
<1>1. CASE Wake(s)
  <2>1. Elsewhere(s)
    BY <1>1 DEF Wake, TakeHead, Elsewhere, TypeOK
  <2>2. Cut(s)
    BY <1>1, WakeTrail, SameIsCut
  <2> QED BY <1>1, <2>1, <2>2, ElsewhereIsCut DEF QuietStep, Wake
<1>2. CASE Heartbeat(s)
  <2>1. Elsewhere(s)
    BY <1>2 DEF Heartbeat, QueueAfterTimeout, Elsewhere, TypeOK
  <2>2. Trail(s)' = Trail(s)
    BY <1>2 DEF Heartbeat, QueueAfterTimeout, StreamInv, Trail, TypeOK
  <2> QED BY <1>2, <2>1, <2>2, SameIsCut, ElsewhereIsCut
          DEF QuietStep, Heartbeat
<1>3. CASE Sent(s)
  <2>1. Elsewhere(s)
    BY <1>3 DEF Sent, TakeHead, Elsewhere, TypeOK
  <2>2. Cut(s)
    BY <1>3, SentTrail, SameIsCut
  <2> QED BY <1>3, <2>1, <2>2, ElsewhereIsCut DEF QuietStep, Sent
<1>4. CASE Disconnect(s)
  <2>1. Elsewhere(s)
    BY <1>4 DEF Disconnect, Elsewhere
  <2>2. Cut(s)
    BY <1>4, LeavingIsCut DEF Disconnect
  <2> QED BY <1>4, <2>1, <2>2, ElsewhereIsCut DEF QuietStep, Disconnect
<1>5. CASE Cleanup(s)
  <2>1. Elsewhere(s)
    BY <1>5 DEF Cleanup, Elsewhere, TypeOK
  <2>2. Cut(s)
    BY <1>5, LeavingIsCut DEF Cleanup
  <2>3. \A t \in Topics : subscribers'[t] \subseteq subscribers[t]
    BY <1>5 DEF Cleanup, Without
  <2> QED BY <1>5, <2>1, <2>2, <2>3, ElsewhereIsCut DEF QuietStep, Cleanup
<1> QED BY <1>1, <1>2, <1>3, <1>4, <1>5

LEMMA CrashQuiet ==
  ASSUME TypeOK, NEW w \in Workers, Crash(w) PROVE QuietStep
<1> DEFINE lost == {s \in Streams : Open(s) /\ Home[s] = w}
<1>1. /\ gone' = gone \cup lost
      /\ \A s \in Streams \ lost : queue'[s] = queue[s] /\ frame'[s] = frame[s]
      /\ UNCHANGED <<published, topics, since, received>>
      /\ \A t \in Topics : subscribers'[t] \subseteq subscribers[t]
  BY DEF Crash
<1> HIDE DEF lost
<1>2. ASSUME NEW s \in Streams PROVE Cut(s)
  <2>1. CASE s \in lost
    BY <1>1, <2>1, LeavingIsCut
  <2>2. CASE s \notin lost
    <3>1. Trail(s)' = Trail(s)
      BY <1>1, <2>2 DEF Trail
    <3> QED BY <3>1, SameIsCut
  <2> QED BY <2>1, <2>2
<1> QED BY <1>1, <1>2 DEF QuietStep

-----------------------------------------------------------------------------
(* Delivery. *)

\* A stream is handed the events of its own worker only, and none that was
\* not published.
SourceInv ==
  \A s \in Streams : \A i \in DOMAIN Trail(s) :
    /\ Trail(s)[i].at = Home[s]
    /\ Trail(s)[i].n <= published[Home[s]][Trail(s)[i].topic]

\* It is handed only events of the topics it asked for, and only those that
\* were published after it subscribed.
AskedInv ==
  \A s \in Streams :
    /\ \A w \in Workers, t \in Topics : since[s][w][t] <= published[w][t]
    /\ \A i \in DOMAIN Trail(s) :
         /\ Trail(s)[i].topic \in topics[s]
         /\ since[s][Home[s]][Trail(s)[i].topic] < Trail(s)[i].n

DeliveryInv == SourceInv /\ AskedInv /\ InOrder /\ NoGap /\ NothingMissed

\* The inductive invariant of the bus.  NoGap alone is not inductive: that
\* the next event leaves no gap is NothingMissed, that it is in order needs
\* SourceInv, and both speak of queue and frame through StreamInv.
BusInv == TypeOK /\ NoZombieSubscriber /\ StreamInv /\ DeliveryInv

LEMMA TrailDomain ==
  ASSUME TypeOK, NEW s \in Streams
  PROVE  /\ DOMAIN Trail(s) = 1 .. Len(Trail(s))
         /\ Len(Trail(s)) \in Nat
         /\ \A i \in 1 .. Len(Trail(s)) :
              /\ Trail(s)[i] \in Event
              /\ Trail(s)[i].n \in Nat
              /\ Trail(s)[i].topic \in Topics
<1>1. /\ DOMAIN Trail(s) = 1 .. Len(Trail(s))
      /\ Len(Trail(s)) \in Nat
  BY TrailType, LenProperties
<1>2. \A i \in 1 .. Len(Trail(s)) : Trail(s)[i] \in Event
  BY TrailType, ElementOfSeq
<1>3. \A e \in Event : e.n \in Nat /\ e.topic \in Topics
  BY DEF Event
<1> QED BY <1>1, <1>2, <1>3

LEMMA TrailDomainNext ==
  ASSUME TypeOK', NEW s \in Streams
  PROVE  DOMAIN Trail(s)' = 1 .. Len(Trail(s)') /\ Len(Trail(s)') \in Nat
<1>1. (received[s] \o frame[s])' \in Seq(Event)
  BY ConcatProperties DEF TypeOK
<1>2. ((received[s] \o frame[s]) \o queue[s])' \in Seq(Event)
  BY <1>1, ConcatProperties DEF TypeOK
<1>3. Trail(s)' \in Seq(Event)
  BY <1>2 DEF Trail, TypeOK
<1> QED BY <1>3, LenProperties

LEMMA QuietDelivery ==
  ASSUME TypeOK, TypeOK', DeliveryInv, QuietStep PROVE DeliveryInv'
<1> USE DEF DeliveryInv
<1>1. ASSUME NEW s \in Streams
      PROVE  /\ DOMAIN Trail(s) = 1 .. Len(Trail(s))
             /\ DOMAIN Trail(s)' = 1 .. Len(Trail(s)')
             /\ Len(Trail(s)) \in Nat /\ Len(Trail(s)') \in Nat
             /\ Len(Trail(s)') <= Len(Trail(s))
             /\ \A i \in 1 .. Len(Trail(s)') : Trail(s)'[i] = Trail(s)[i]
             /\ s \notin gone' => Trail(s)' = Trail(s)
  BY TrailDomain, TrailDomainNext DEF QuietStep, Cut
<1>2. UNCHANGED <<published, topics, since>>
  BY DEF QuietStep
<1>3. SourceInv' /\ AskedInv'
  BY <1>1, <1>2 DEF SourceInv, AskedInv
<1>4. InOrder'
  BY <1>1 DEF InOrder
<1>5. NoGap'
  <2> SUFFICES ASSUME NEW s \in Streams, NEW i \in DOMAIN Trail(s)',
                      NEW k \in ((since[s][Trail(s)[i].at][Trail(s)[i].topic]
                                  + 1) .. Trail(s)[i].n)'
               PROVE  \E j \in 1 .. i :
                        Trail(s)'[j] = [Trail(s)'[i] EXCEPT !.n = k]
    BY DEF NoGap
  <2>1. i \in DOMAIN Trail(s) /\ Trail(s)'[i] = Trail(s)[i] /\ i \in Nat
    BY <1>1
  <2>2. PICK j \in 1 .. i : Trail(s)[j] = [Trail(s)[i] EXCEPT !.n = k]
    BY <1>2, <2>1 DEF NoGap
  <2>3. Trail(s)'[j] = Trail(s)[j]
    BY <1>1, <2>1
  <2> QED BY <2>1, <2>2, <2>3
<1>6. NothingMissed'
  <2> SUFFICES ASSUME NEW t \in Topics, NEW s \in (subscribers[t] \ gone)'
               PROVE  HasAll(s, Home[s], t)'
    BY DEF NothingMissed
  <2>1. s \in Streams /\ s \in subscribers[t] \ gone
    BY DEF QuietStep, TypeOK
  <2>2. HasAll(s, Home[s], t)
    BY <2>1 DEF NothingMissed
  <2>3. Trail(s)' = Trail(s)
    BY <1>1, <2>1
  <2> QED BY <1>2, <2>2, <2>3 DEF HasAll
<1> QED BY <1>3, <1>4, <1>5, <1>6

LEMMA ConnectDelivery ==
  ASSUME TypeOK, NoZombieSubscriber, StreamInv, DeliveryInv,
         NEW s \in Streams, NEW T \in EndpointTopics, Connect(s, T)
  PROVE  DeliveryInv'
<1> USE DEF DeliveryInv
<1>1. /\ phase[s] = "new"
      /\ UNCHANGED <<published, queue, frame, gone, received>>
      /\ since' = [since EXCEPT ![s] = published]
      /\ \A t \in Topics : subscribers'[t] \subseteq subscribers[t] \cup {s}
  BY DEF Connect, Subscribed
<1>2. \A q \in Streams : Trail(q)' = Trail(q)
  BY <1>1 DEF Trail
<1>3. Trail(s) = <<>>
  <2>1. /\ s \notin gone /\ received[s] = <<>>
        /\ frame[s] = <<>> /\ queue[s] = <<>>
    BY <1>1 DEF StreamInv, Open
  <2>2. <<>> \o <<>> = <<>>
    BY EmptySeq, ConcatEmptySeq
  <2> QED BY <2>1, <2>2 DEF Trail
<1>4. SourceInv' /\ InOrder'
  BY <1>1, <1>2 DEF SourceInv, InOrder
<1>5. NoGap'
  <2> SUFFICES ASSUME NEW q \in Streams, NEW i \in DOMAIN Trail(q)'
               PROVE  (\A k \in (since[q][Trail(q)[i].at][Trail(q)[i].topic] + 1)
                                .. Trail(q)[i].n :
                         \E j \in 1 .. i :
                           Trail(q)[j] = [Trail(q)[i] EXCEPT !.n = k])'
    BY DEF NoGap
  <2>1. q # s
    BY <1>2, <1>3
  <2>2. since'[q] = since[q]
    BY <1>1, <2>1 DEF TypeOK
  <2> QED BY <1>2, <2>2 DEF NoGap
<1>6. NothingMissed'
  <2> SUFFICES ASSUME NEW t \in Topics, NEW q \in (subscribers[t] \ gone)'
               PROVE  HasAll(q, Home[q], t)'
    BY DEF NothingMissed
  <2>1. q \in Streams /\ Home[q] \in Workers
    BY <1>1, BusAssumption DEF TypeOK
  <2>2. CASE q = s
    <3>1. since'[q][Home[q]][t] = published'[Home[q]][t]
      BY <1>1, <2>1, <2>2 DEF TypeOK
    <3>2. published'[Home[q]][t] \in Nat
      BY <1>1, <2>1 DEF TypeOK
    <3> QED BY <3>1, <3>2 DEF HasAll
  <2>3. CASE q # s
    <3>1. since'[q] = since[q]
      BY <1>1, <2>1, <2>3 DEF TypeOK
    <3>2. q \in subscribers[t] \ gone
      BY <1>1, <2>3
    <3>3. HasAll(q, Home[q], t)
      BY <3>2 DEF NothingMissed
    <3> QED BY <1>1, <1>2, <2>1, <3>1, <3>3 DEF HasAll
  <2> QED BY <2>2, <2>3
<1>7. AskedInv'
  <2>1. \A q \in Streams \ {s} : since'[q] = since[q] /\ topics'[q] = topics[q]
    BY DEF Connect, TypeOK
  <2>2. /\ since'[s] = published /\ published' = published
        /\ DOMAIN Trail(s)' = {}
        /\ \A w \in Workers, t \in Topics : published[w][t] \in Nat
    BY <1>1, <1>2, <1>3 DEF TypeOK
  <2> QED BY <1>2, <2>1, <2>2 DEF AskedInv
<1> QED BY <1>4, <1>5, <1>6, <1>7

\* A publish appends its event to the trails of the live streams it reaches.
LEMMA PublishTrail ==
  ASSUME TypeOK, NEW w \in Workers, NEW t \in Topics, Publish(w, t),
         NEW s \in Streams,
         NEW e, e = [at |-> w, topic |-> t, n |-> published[w][t] + 1]
  PROVE  Trail(s)' = IF s \in Delivered(w, t) \ gone
                     THEN Append(Trail(s), e) ELSE Trail(s)
<1>1. /\ queue'[s] = IF s \in Delivered(w, t)
                     THEN Append(queue[s], e) ELSE queue[s]
      /\ UNCHANGED <<frame, gone, received>>
  BY DEF Publish, Enqueued
<1>2. CASE s \in gone \/ s \notin Delivered(w, t)
  BY <1>1, <1>2 DEF Trail
<1>3. CASE s \in Delivered(w, t) \ gone
  <2> DEFINE f == received[s] \o frame[s]
             q == queue[s]
  <2>1. f \in Seq(Event) /\ q \in Seq(Event) /\ e \in Event
    <3>1. published[w][t] + 1 \in Nat
      BY DEF TypeOK
    <3>2. f \in Seq(Event) /\ q \in Seq(Event)
      BY ConcatProperties DEF TypeOK
    <3> QED BY <3>1, <3>2, EventType
  <2>2. Trail(s) = f \o q /\ Trail(s)' = f \o Append(q, e)
    BY <1>1, <1>3 DEF Trail
  <2> HIDE DEF f, q
  <2>3. <<e>> \in Seq(Event) /\ f \o q \in Seq(Event)
    BY <2>1, ConcatProperties
  <2>4. Append(q, e) = q \o <<e>> /\ Append(f \o q, e) = (f \o q) \o <<e>>
    BY <2>1, <2>3, AppendIsConcat
  <2>5. (f \o q) \o <<e>> = f \o (q \o <<e>>)
    BY <2>1, <2>3, ConcatAssociative
  <2> QED BY <1>3, <2>2, <2>4, <2>5
<1> QED BY <1>2, <1>3

LEMMA PublishDelivery ==
  ASSUME TypeOK, TypeOK', NoZombieSubscriber, DeliveryInv,
         NEW w \in Workers, NEW t \in Topics, Publish(w, t)
  PROVE  DeliveryInv'
<1> USE DEF DeliveryInv
<1> DEFINE e == [at |-> w, topic |-> t, n |-> published[w][t] + 1]
           Reached == Delivered(w, t) \ gone
<1>1. /\ published' = [published EXCEPT ![w][t] = @ + 1]
      /\ subscribers' = [subscribers EXCEPT ![t] = @ \ Full(w, t)]
      /\ UNCHANGED <<topics, since, gone>>
  BY DEF Publish, AfterPublish
<1>2. /\ e \in Event
      /\ e.at = w /\ e.topic = t /\ e.n = published[w][t] + 1
      /\ published[w][t] \in Nat
      /\ \A v \in Workers, u \in Topics :
           /\ published[v][u] \in Nat
           /\ published'[v][u] = IF v = w /\ u = t THEN published[v][u] + 1
                                                 ELSE published[v][u]
  BY <1>1, EventType DEF TypeOK
<1>3. \A s \in Streams : Trail(s)' = IF s \in Reached THEN Append(Trail(s), e)
                                                    ELSE Trail(s)
  BY PublishTrail
<1>4. ASSUME NEW s \in Reached
      PROVE  /\ s \in Streams /\ Home[s] = w
             /\ s \in subscribers[t] \ gone /\ HasAll(s, w, t)
  BY DEF Delivered, Targets, TypeOK, NothingMissed
<1> HIDE DEF e, Reached
<1>5. ASSUME NEW s \in Streams
      PROVE  /\ DOMAIN Trail(s) = 1 .. Len(Trail(s))
             /\ Len(Trail(s)) \in Nat
             /\ \A i \in 1 .. Len(Trail(s)) : /\ Trail(s)[i].n \in Nat
                                            /\ Trail(s)[i].topic \in Topics
             /\ \A i \in 1 .. Len(Trail(s)) : Trail(s)'[i] = Trail(s)[i]
             /\ s \notin Reached => Trail(s)' = Trail(s)
             /\ s \in Reached =>
                  /\ DOMAIN Trail(s)' = 1 .. (Len(Trail(s)) + 1)
                  /\ Trail(s)'[Len(Trail(s)) + 1] = e
  <2>1. Trail(s) \in Seq(Event)
    BY TrailType
  <2>2. /\ Append(Trail(s), e) \in Seq(Event)
        /\ Len(Append(Trail(s), e)) = Len(Trail(s)) + 1
        /\ \A i \in 1 .. Len(Trail(s)) : Append(Trail(s), e)[i] = Trail(s)[i]
        /\ Append(Trail(s), e)[Len(Trail(s)) + 1] = e
    BY <1>2, <2>1, AppendProperties
  <2>3. DOMAIN Append(Trail(s), e) = 1 .. (Len(Trail(s)) + 1)
    BY <2>2, LenProperties
  <2> QED BY <1>3, <2>2, <2>3, TrailDomain
<1>6. ASSUME NEW s \in Streams, NEW i \in DOMAIN Trail(s)'
      PROVE  \/ i \in DOMAIN Trail(s) /\ Trail(s)'[i] = Trail(s)[i]
             \/ s \in Reached /\ i = Len(Trail(s)) + 1 /\ Trail(s)'[i] = e
  BY <1>5
<1>7. SourceInv'
  <2> SUFFICES ASSUME NEW s \in Streams, NEW i \in DOMAIN Trail(s)'
               PROVE  /\ Trail(s)'[i].at = Home[s]
                      /\ Trail(s)'[i].n
                           <= published'[Home[s]][Trail(s)'[i].topic]
    BY DEF SourceInv
  <2>1. CASE i \in DOMAIN Trail(s) /\ Trail(s)'[i] = Trail(s)[i]
    <3>1. /\ Home[s] \in Workers
          /\ Trail(s)[i].topic \in Topics /\ Trail(s)[i].n \in Nat
      BY <1>5, <2>1, BusAssumption
    <3>2. /\ Trail(s)[i].at = Home[s]
          /\ Trail(s)[i].n <= published[Home[s]][Trail(s)[i].topic]
      BY <2>1 DEF SourceInv
    <3> QED BY <1>2, <2>1, <3>1, <3>2
  <2>2. CASE s \in Reached /\ Trail(s)'[i] = e
    BY <1>2, <1>4, <2>2
  <2> QED BY <1>6, <2>1, <2>2
<1>8. InOrder'
  <2> SUFFICES ASSUME NEW s \in Streams,
                      NEW i \in DOMAIN Trail(s)', NEW j \in DOMAIN Trail(s)',
                      i < j, Trail(s)'[i].topic = Trail(s)'[j].topic
               PROVE  Trail(s)'[i].n < Trail(s)'[j].n
    BY DEF InOrder
  <2>1. CASE j \in DOMAIN Trail(s)
    <3>1. i \in DOMAIN Trail(s)
      BY <1>5, <2>1
    <3> QED BY <1>5, <2>1, <3>1 DEF InOrder
  <2>2. CASE j \notin DOMAIN Trail(s)
    <3>1. s \in Reached /\ j = Len(Trail(s)) + 1 /\ Trail(s)'[j] = e
      BY <1>6, <2>2
    <3>2. i \in DOMAIN Trail(s) /\ Trail(s)'[i] = Trail(s)[i]
      BY <1>5, <3>1
    <3>3. Trail(s)[i].n <= published[w][t] /\ Trail(s)[i].n \in Nat
      BY <1>2, <1>4, <1>5, <3>1, <3>2 DEF SourceInv
    <3> QED BY <1>2, <3>1, <3>2, <3>3
  <2> QED BY <2>1, <2>2
<1>9. NoGap'
  <2> SUFFICES ASSUME NEW s \in Streams, NEW i \in DOMAIN Trail(s)',
                      NEW k \in (since[s][Trail(s)'[i].at][Trail(s)'[i].topic]
                                  + 1) .. Trail(s)'[i].n
               PROVE  \E j \in 1 .. i :
                        Trail(s)'[j] = [Trail(s)'[i] EXCEPT !.n = k]
    BY <1>1 DEF NoGap
  <2>1. CASE i \in DOMAIN Trail(s) /\ Trail(s)'[i] = Trail(s)[i]
    <3>1. PICK j \in 1 .. i : Trail(s)[j] = [Trail(s)[i] EXCEPT !.n = k]
      BY <2>1 DEF NoGap
    <3>2. Trail(s)'[j] = Trail(s)[j]
      BY <1>5, <2>1
    <3> QED BY <2>1, <3>1, <3>2
  <2>2. CASE s \in Reached /\ i = Len(Trail(s)) + 1 /\ Trail(s)'[i] = e
    <3>1. CASE k = published[w][t] + 1
      <4>1. [e EXCEPT !.n = k] = e
        BY <3>1 DEF e
      <4> QED BY <1>5, <2>2, <4>1
    <3>2. CASE k # published[w][t] + 1
      <4>1. k \in (since[s][w][t] + 1) .. published[w][t]
        <5>1. since[s][w][t] \in Nat
          BY DEF TypeOK
        <5> QED BY <1>2, <2>2, <3>2, <5>1
      <4>2. PICK j \in DOMAIN Trail(s) :
              Trail(s)[j] = [at |-> w, topic |-> t, n |-> k]
        BY <1>4, <2>2, <4>1 DEF HasAll
      <4>3. j \in 1 .. i /\ Trail(s)'[j] = Trail(s)[j]
        BY <1>5, <2>2
      <4>4. [e EXCEPT !.n = k] = [at |-> w, topic |-> t, n |-> k]
        BY DEF e
      <4> QED BY <2>2, <4>2, <4>3, <4>4
    <3> QED BY <3>1, <3>2
  <2> QED BY <1>6, <2>1, <2>2
<1>10. NothingMissed'
  <2> SUFFICES ASSUME NEW u \in Topics, NEW s \in (subscribers[u] \ gone)',
                      NEW k \in (since[s][Home[s]][u] + 1)
                                 .. published'[Home[s]][u]
               PROVE  \E j \in DOMAIN Trail(s)' :
                        Trail(s)'[j] = [at |-> Home[s], topic |-> u, n |-> k]
    BY <1>1 DEF NothingMissed, HasAll
  <2>1. /\ s \in Streams /\ Home[s] \in Workers
        /\ s \in subscribers[u] \ gone
    BY <1>1, BusAssumption DEF TypeOK
  <2>2. ASSUME k <= published[Home[s]][u]
        PROVE  \E j \in DOMAIN Trail(s)' :
                 Trail(s)'[j] = [at |-> Home[s], topic |-> u, n |-> k]
    <3>1. HasAll(s, Home[s], u)
      BY <2>1 DEF NothingMissed
    <3>2. k \in (since[s][Home[s]][u] + 1) .. published[Home[s]][u]
      BY <1>2, <2>1, <2>2 DEF TypeOK
    <3>3. PICK j \in DOMAIN Trail(s) :
            Trail(s)[j] = [at |-> Home[s], topic |-> u, n |-> k]
      BY <3>1, <3>2 DEF HasAll
    <3>4. j \in DOMAIN Trail(s)' /\ Trail(s)'[j] = Trail(s)[j]
      BY <1>5, <2>1
    <3> QED BY <3>3, <3>4
  <2>3. ASSUME ~(k <= published[Home[s]][u])
        PROVE  \E j \in DOMAIN Trail(s)' :
                 Trail(s)'[j] = [at |-> Home[s], topic |-> u, n |-> k]
    <3>1. /\ Home[s] = w /\ u = t /\ k = published[w][t] + 1
      <4>1. since[s][Home[s]][u] \in Nat
        BY <2>1 DEF TypeOK
      <4> QED BY <1>2, <2>1, <2>3, <4>1
    <3>2. s \in Reached
      BY <1>1, <2>1, <3>1 DEF Reached, Delivered, Targets, TypeOK
    <3>3. e = [at |-> Home[s], topic |-> u, n |-> k]
      BY <3>1 DEF e
    <3> QED BY <1>5, <2>1, <3>2, <3>3
  <2> QED BY <2>2, <2>3
<1>11. AskedInv'
  <2>1. ASSUME NEW s \in Streams, NEW v \in Workers, NEW u \in Topics
        PROVE  since'[s][v][u] <= published'[v][u]
    <3>1. since[s][v][u] \in Nat /\ since[s][v][u] <= published[v][u]
      BY DEF AskedInv, TypeOK
    <3> QED BY <1>1, <1>2, <3>1
  <2>2. ASSUME NEW s \in Streams, NEW i \in DOMAIN Trail(s)'
        PROVE  /\ Trail(s)'[i].topic \in topics'[s]
               /\ since'[s][Home[s]][Trail(s)'[i].topic] < Trail(s)'[i].n
    <3>1. CASE i \in DOMAIN Trail(s) /\ Trail(s)'[i] = Trail(s)[i]
      BY <1>1, <3>1 DEF AskedInv
    <3>2. CASE s \in Reached /\ Trail(s)'[i] = e
      <4>1. t \in topics[s] /\ Home[s] = w
        BY <1>4, <3>2 DEF NoZombieSubscriber
      <4>2. since[s][w][t] \in Nat /\ since[s][w][t] <= published[w][t]
        BY DEF AskedInv, TypeOK
      <4> QED BY <1>1, <1>2, <3>2, <4>1, <4>2
    <3> QED BY <1>6, <3>1, <3>2
  <2> QED BY <2>1, <2>2 DEF AskedInv
<1> QED BY <1>7, <1>8, <1>9, <1>10, <1>11

LEMMA InitBus == Init => BusInv
<1> SUFFICES ASSUME Init PROVE BusInv
  OBVIOUS
<1>1. TypeOK /\ StreamInv
  BY InitType, InitStream
<1>2. \A s \in Streams : Trail(s) = <<>>
  <2>1. <<>> \o <<>> = <<>>
    BY EmptySeq, ConcatEmptySeq
  <2> QED BY <2>1 DEF Init, Trail
<1>3. \A t \in Topics : subscribers[t] = {}
  BY DEF Init
<1>4. AskedInv
  BY <1>2 DEF Init, AskedInv
<1> QED BY <1>1, <1>2, <1>3, <1>4
        DEF BusInv, DeliveryInv, NoZombieSubscriber, SourceInv, InOrder, NoGap,
            NothingMissed

LEMMA NextBus == BusInv /\ [Next]_busVars => BusInv'
<1> SUFFICES ASSUME BusInv, [Next]_busVars PROVE BusInv'
  OBVIOUS
<1> USE DEF BusInv
<1>1. TypeOK' /\ NoZombieSubscriber' /\ StreamInv'
  BY NextType, NextSubscribed, NextStream
<1>2. CASE UNCHANGED busVars
  <2>1. \A s \in Streams : Trail(s)' = Trail(s)
    BY <1>2 DEF busVars, Trail
  <2>2. UNCHANGED <<published, topics, since, gone, subscribers>>
    BY <1>2 DEF busVars
  <2>3. QuietStep
    BY <2>1, <2>2, SameIsCut DEF QuietStep
  <2> QED BY <1>1, <2>3, QuietDelivery
<1>3. ASSUME NEW w \in Workers, NEW t \in Topics, Publish(w, t)
      PROVE  DeliveryInv'
  BY <1>1, <1>3, PublishDelivery
<1>4. ASSUME NEW s \in Streams, StreamNext(s) PROVE DeliveryInv'
  <2>1. ASSUME NEW T \in EndpointTopics, Connect(s, T) PROVE DeliveryInv'
    BY <2>1, ConnectDelivery
  <2>2. ASSUME Wake(s) \/ Heartbeat(s) \/ Sent(s) \/ Disconnect(s) \/ Cleanup(s)
        PROVE  DeliveryInv'
    BY <1>1, <2>2, StreamQuiet, QuietDelivery
  <2> QED BY <1>4, <2>1, <2>2 DEF StreamNext
<1>5. ASSUME NEW w \in Workers, Crash(w) PROVE DeliveryInv'
  BY <1>1, <1>5, CrashQuiet, QuietDelivery
<1> QED BY <1>1, <1>2, <1>3, <1>4, <1>5 DEF Next

\* The inductive invariant holds of every behaviour of the bus.
THEOREM BusInvariance == Spec => []BusInv
<1>1. BusInv /\ [Next]_busVars => BusInv'
  BY NextBus
<1> QED BY InitBus, <1>1, PTL DEF Spec

LEMMA BusInvImplies == BusInv => InOrder /\ NoGap /\ NothingMissed
BY DEF BusInv, DeliveryInv

\* A client reads the events of a topic in the order they were published, and
\* none twice.
THEOREM InOrderAlways == Spec => []InOrder
BY BusInvariance, BusInvImplies, PTL

\* What a client reads of a topic has no hole: a slow consumer is cut off, it
\* never skips an event.
THEOREM NoGapAlways == Spec => []NoGap
BY BusInvariance, BusInvImplies, PTL

\* While a live client is on the subscriber list, it is handed everything its
\* worker publishes there.
THEOREM NothingMissedAlways == Spec => []NothingMissed
BY BusInvariance, BusInvImplies, PTL

-----------------------------------------------------------------------------
(* The bus implements a subscription: a frame that is read off the socket   *)
(* is the next event of its topic, and no other step shows.                 *)

LEMMA InitSubscription == Init => Sub!Init
BY DEF Init, Sub!Init

\* What is read next is the first event of the trail that was not read.
LEMMA FrameIsNext ==
  ASSUME BusInv, NEW s \in Streams \ gone, NEW e, frame[s] = <<e>>
  PROVE  LET i == Len(received[s]) + 1
         IN  /\ received[s] \in Seq(Event) /\ e \in Event
             /\ received[s] \o frame[s] = Append(received[s], e)
             /\ i \in DOMAIN Trail(s) /\ Trail(s)[i] = e
             /\ \A j \in 1 .. Len(received[s]) :
                  j \in DOMAIN Trail(s) /\ Trail(s)[j] = received[s][j]
<1> DEFINE a == received[s]
           b == frame[s]
           q == queue[s]
<1>1. a \in Seq(Event) /\ b \in Seq(Event) /\ q \in Seq(Event)
  BY DEF BusInv, TypeOK
<1>2. Len(b) = 1 /\ b[1] = e
  OBVIOUS
<1>3. Trail(s) = (a \o b) \o q
  BY DEF Trail
<1>4. b = <<e>>
  OBVIOUS
<1> HIDE DEF a, b, q
<1>5. e \in Event
  <2>1. \A j \in 1 .. Len(b) : b[j] \in Event
    BY <1>1, ElementOfSeq
  <2> QED BY <1>2, <2>1
<1>6. a \o b = Append(a, e)
  BY <1>1, <1>4, <1>5, AppendIsConcat
<1>7. /\ a \o b \in Seq(Event) /\ Len(a \o b) = Len(a) + 1
      /\ Len(a) \in Nat
      /\ \A j \in 1 .. Len(a) : (a \o b)[j] = a[j]
      /\ (a \o b)[Len(a) + 1] = e
  BY <1>1, <1>5, <1>6, AppendProperties, LenProperties
<1>8. /\ Len(Trail(s)) = Len(a \o b) + Len(q) /\ Len(q) \in Nat
      /\ \A j \in 1 .. Len(a \o b) : Trail(s)[j] = (a \o b)[j]
  BY <1>1, <1>3, <1>7, Concat
<1>9. DOMAIN Trail(s) = 1 .. Len(Trail(s))
  BY TrailDomain DEF BusInv
<1>10. /\ Len(a) + 1 \in DOMAIN Trail(s) /\ Trail(s)[Len(a) + 1] = e
       /\ \A j \in 1 .. Len(a) : j \in DOMAIN Trail(s) /\ Trail(s)[j] = a[j]
  BY <1>7, <1>8, <1>9
<1> QED BY <1>1, <1>5, <1>6, <1>10 DEF a, b

\* What the client has read of the topic of its next event is everything since
\* it subscribed: InOrder and AskedInv bound it, NoGap fills it.
LEMMA HeardSoFar ==
  ASSUME BusInv, NEW s \in Streams \ gone, NEW e, frame[s] = <<e>>
  PROVE  /\ e \in Event /\ e.at = Home[s] /\ e.topic \in topics[s]
         /\ since[s][Home[s]][e.topic] < e.n
         /\ e.n <= published[Home[s]][e.topic]
         /\ Sub!Heard(s, e.topic) = (since[s][Home[s]][e.topic] + 1) .. (e.n - 1)
<1> DEFINE i == Len(received[s]) + 1
           from == since[s][Home[s]][e.topic]
<1>1. /\ e \in Event /\ i \in DOMAIN Trail(s) /\ Trail(s)[i] = e
      /\ Len(received[s]) \in Nat
      /\ DOMAIN received[s] = 1 .. Len(received[s])
      /\ \A j \in 1 .. Len(received[s]) :
           j \in DOMAIN Trail(s) /\ Trail(s)[j] = received[s][j]
  BY FrameIsNext, LenProperties
<1>2. /\ e.at = Home[s] /\ e.topic \in topics[s]
      /\ from < e.n /\ e.n <= published[Home[s]][e.topic]
  BY <1>1 DEF BusInv, DeliveryInv, SourceInv, AskedInv
<1>3. /\ e.n \in Nat /\ e.topic \in Topics /\ from \in Nat
  BY <1>1, BusAssumption DEF BusInv, TypeOK, Event
<1>4. ASSUME NEW j \in DOMAIN received[s], received[s][j].topic = e.topic
      PROVE  received[s][j].n \in (from + 1) .. (e.n - 1)
  <2>1. /\ j \in DOMAIN Trail(s) /\ Trail(s)[j] = received[s][j] /\ j < i
    BY <1>1
  <2>2. Trail(s)[j].n \in Nat
    BY <2>1, TrailDomain DEF BusInv
  <2>3. Trail(s)[j].n < e.n
    BY <1>1, <1>4, <2>1 DEF BusInv, DeliveryInv, InOrder
  <2>4. from < Trail(s)[j].n
    BY <1>4, <2>1 DEF BusInv, DeliveryInv, AskedInv
  <2> QED BY <1>3, <2>1, <2>2, <2>3, <2>4
<1>5. ASSUME NEW k \in (from + 1) .. (e.n - 1)
      PROVE  \E j \in DOMAIN received[s] :
               received[s][j].topic = e.topic /\ received[s][j].n = k
  <2>1. k \in (since[s][e.at][e.topic] + 1) .. e.n /\ k # e.n
    BY <1>2, <1>3
  <2>2. PICK j \in 1 .. i : Trail(s)[j] = [e EXCEPT !.n = k]
    BY <1>1, <2>1 DEF BusInv, DeliveryInv, NoGap
  <2>3. [e EXCEPT !.n = k].n = k /\ [e EXCEPT !.n = k].topic = e.topic
    BY <1>1 DEF Event
  <2>4. j # i
    BY <1>1, <2>1, <2>2, <2>3
  <2>5. j \in 1 .. Len(received[s])
    BY <1>1, <2>4
  <2> QED BY <1>1, <2>2, <2>3, <2>5
<1>6. Sub!Heard(s, e.topic) = (from + 1) .. (e.n - 1)
  BY <1>4, <1>5 DEF Sub!Heard
<1> QED BY <1>1, <1>2, <1>6

LEMMA SentRefines ==
  ASSUME BusInv, NEW s \in Streams, Sent(s)
  PROVE  [Sub!Next]_(Sub!subVars)
<1>1. /\ {q \in Streams : phase'[q] # "new"} = {q \in Streams : phase[q] # "new"}
      /\ s \in {q \in Streams : phase[q] # "new"}
      /\ UNCHANGED <<published, topics, since, gone>>
  BY DEF Sent, TakeHead, BusInv, TypeOK
<1>2. CASE s \in gone \/ frame[s] = <<>>
  <2>1. received' = received
    <3>1. received \in [Streams -> Seq(Event)] /\ received[s] \o <<>> = received[s]
      BY ConcatEmptySeq DEF BusInv, TypeOK
    <3> QED BY <1>2, <3>1 DEF Sent
  <2> QED BY <1>1, <2>1 DEF Sub!subVars
<1>3. CASE s \notin gone /\ frame[s] # <<>>
  <2>1. PICK e : frame[s] = <<e>>
    <3>1. frame[s] \in Seq(Event) /\ Len(frame[s]) = 1
      <4>1. frame[s] \in Seq(Event) /\ Len(frame[s]) <= 1
        BY DEF BusInv, TypeOK
      <4>2. Len(frame[s]) \in Nat /\ Len(frame[s]) # 0
        BY <1>3, <4>1, EmptySeq, LenProperties
      <4>3. \A k \in Nat : k <= 1 /\ k # 0 => k = 1
        OBVIOUS
      <4> QED BY <4>1, <4>2, <4>3, Zenon
    <3>2. \A q \in Seq(Event) : Len(q) = 1 => q = <<Head(q)>>
      BY OneElement
    <3>3. frame[s] = <<Head(frame[s])>>
      BY <3>1, <3>2
    <3> QED BY <3>3
  <2>2. /\ e \in Event /\ e.at = Home[s] /\ e.topic \in topics[s]
        /\ since[s][Home[s]][e.topic] < e.n
        /\ e.n <= published[Home[s]][e.topic]
        /\ Sub!Heard(s, e.topic) = (since[s][Home[s]][e.topic] + 1) .. (e.n - 1)
    BY <1>3, <2>1, HeardSoFar
  <2>3. e = [at |-> Home[s], topic |-> e.topic, n |-> e.n]
    BY <2>2 DEF Event
  <2>4. received' = [received EXCEPT ![s] = Append(@, e)]
    <3>1. received[s] \o frame[s] = Append(received[s], e)
      BY <1>3, <2>1, FrameIsNext
    <3> QED BY <1>3, <3>1 DEF Sent
  <2>5. Sub!Deliver(s, e.topic, e.n)
    BY <1>1, <1>3, <2>2, <2>3, <2>4 DEF Sub!Deliver
  <2>6. e.n \in 1 .. published[Home[s]][e.topic]
    BY <2>2, BusAssumption DEF BusInv, TypeOK, Event
  <2> QED BY <2>2, <2>5, <2>6 DEF Sub!Next
<1> QED BY <1>2, <1>3

LEMMA NextSubscription ==
  BusInv /\ [Next]_busVars => [Sub!Next]_(Sub!subVars)
<1> SUFFICES ASSUME BusInv, [Next]_busVars PROVE [Sub!Next]_(Sub!subVars)
  OBVIOUS
<1> DEFINE Joined == {q \in Streams : phase[q] # "new"}
<1>0. phase \in [Streams -> {"new", "waiting", "sending", "closed"}]
  BY DEF BusInv, TypeOK
<1>1. CASE UNCHANGED busVars
  BY <1>1 DEF busVars, Sub!subVars
<1>2. ASSUME NEW w \in Workers, NEW t \in Topics, Publish(w, t)
      PROVE  [Sub!Next]_(Sub!subVars)
  <2>1. Sub!Publish(w, t)
    BY <1>2 DEF Publish, Sub!Publish
  <2> QED BY <2>1 DEF Sub!Next
<1>3. ASSUME NEW s \in Streams, NEW T \in EndpointTopics, Connect(s, T)
      PROVE  [Sub!Next]_(Sub!subVars)
  <2>1. Joined' = Joined \cup {s} /\ s \notin Joined
    BY <1>0, <1>3 DEF Connect
  <2>2. Sub!Join(s, T)
    BY <1>3, <2>1 DEF Connect, Sub!Join
  <2>3. T \in SUBSET Topics
    BY DEF EndpointTopics, Topics
  <2> QED BY <2>2, <2>3 DEF Sub!Next
<1>4. ASSUME NEW s \in Streams, Wake(s) \/ Heartbeat(s)
      PROVE  UNCHANGED Sub!subVars
  <2>1. Joined' = Joined
    BY <1>0, <1>4 DEF Wake, TakeHead, Heartbeat
  <2> QED BY <1>4, <2>1 DEF Wake, Heartbeat, Sub!subVars
<1>5. ASSUME NEW s \in Streams, Disconnect(s)
      PROVE  [Sub!Next]_(Sub!subVars)
  <2>1. Joined' = Joined /\ {s} \subseteq Joined
    BY <1>5 DEF Disconnect, Open
  <2>2. Sub!Leave({s})
    BY <1>5, <2>1 DEF Disconnect, Sub!Leave
  <2> QED BY <2>2 DEF Sub!Next
<1>6. ASSUME NEW s \in Streams, Cleanup(s) PROVE UNCHANGED Sub!subVars
  <2>1. Joined' = Joined
    BY <1>0, <1>6 DEF Cleanup, Open
  <2> QED BY <1>6, <2>1 DEF Cleanup, Sub!subVars
<1>7. ASSUME NEW w \in Workers, Crash(w) PROVE [Sub!Next]_(Sub!subVars)
  <2> DEFINE lost == {s \in Streams : Open(s) /\ Home[s] = w}
  <2>1. Joined' = Joined /\ lost \subseteq Joined
    BY <1>0, <1>7 DEF Crash, Open
  <2>2. Sub!Leave(lost)
    BY <1>7, <2>1 DEF Crash, Sub!Leave
  <2> QED BY <2>2 DEF Sub!Next
<1> QED BY <1>1, <1>2, <1>3, <1>4, <1>5, <1>6, <1>7, SentRefines
        DEF Next, StreamNext

\* The queues, generators and crashes of the bus implement a subscription.
THEOREM ImplementsSubscriptionAlways == Spec => ImplementsSubscription
<1>1. Init => Sub!Init
  BY InitSubscription
<1>2. BusInv /\ [Next]_busVars => [Sub!Next]_(Sub!subVars)
  BY NextSubscription
<1> QED BY BusInvariance, <1>1, <1>2, PTL
        DEF Spec, ImplementsSubscription, Sub!Spec

=============================================================================
