------------------------------ MODULE EventBus ------------------------------
(***************************************************************************)
(* The in-process pub/sub of app/event_bus.py and the SSE generator of      *)
(* app/services/realtime.py that drains it, for the worker processes of    *)
(* one instance.                                                           *)
(*                                                                         *)
(* A worker is one asyncio event loop.  The critical sections guarded by   *)
(* event_bus._lock contain no await, so the lock is always free when it is *)
(* asked for, asyncio.Lock.acquire never suspends, and subscribe,          *)
(* unsubscribe and publish each run without giving up the loop: each is    *)
(* one action.  The generator suspends in two places only, waiting for     *)
(* queue.get() and having yielded a frame that is being written out.       *)
(*                                                                         *)
(* An event is identified by where it was published, its topic, and its    *)
(* number among the events published there; its payload is abstracted.     *)
(***************************************************************************)
EXTENDS Naturals, Sequences, FiniteSets

CONSTANTS
  Workers,        \* uvicorn worker processes, each with a bus of its own
  Streams,        \* SSE connections; one asyncio.Queue each, never reused
  Home,           \* the worker that accepted each connection
  AgentTopics,    \* the topics "agent:<uuid>"
  ChannelTopics,  \* the topics "channel:<uuid>"
  QueueMax,       \* asyncio.Queue(maxsize=256)
  MaxPublished    \* bound: events published per worker and topic

ASSUME BusAssumption ==
  /\ Home \in [Streams -> Workers]
  /\ QueueMax \in Nat \ {0}
  /\ MaxPublished \in Nat

VARIABLES
  published,    \* published[w][t]: number of events published so far
  subscribers,  \* _subscribers of all workers: topic -> set of queues
  queue,        \* the asyncio.Queue of each stream
  frame,        \* the event in the frame being written, <<>> for a heartbeat
  phase,        \* where the generator of each stream is suspended
  gone,         \* streams whose client has disconnected
  topics,       \* the topics each stream asked for
  since,        \* history: published, when the stream subscribed
  received      \* history: the events each client has read, in order

busVars == <<published, subscribers, queue, frame, phase, gone, topics,
             since, received>>

\* What agent_topic and channel_topic make of an id.
Topics == AgentTopics \cup ChannelTopics

Event == [at : Workers, topic : Topics, n : Nat]

\* stream.py: the agent's own topic, plus any listed channels.
EndpointTopics ==
  {{a} \cup C : a \in AgentTopics, C \in SUBSET ChannelTopics}

Open(s) == phase[s] \in {"waiting", "sending"}

-----------------------------------------------------------------------------

Init ==
  /\ published = [w \in Workers |-> [t \in Topics |-> 0]]
  /\ subscribers = [t \in Topics |-> {}]
  /\ queue = [s \in Streams |-> <<>>]
  /\ frame = [s \in Streams |-> <<>>]
  /\ phase = [s \in Streams |-> "new"]
  /\ gone = {}
  /\ topics = [s \in Streams |-> {}]
  /\ since = [s \in Streams |-> published]
  /\ received = [s \in Streams |-> <<>>]

-----------------------------------------------------------------------------
(* The bus.                                                                *)

\* A subscriber set from which unsubscribe forgets the channels of s.
Without_AgentTopicOnly(s) ==
  [t \in Topics |-> IF t \in AgentTopics THEN subscribers[t] \ {s}
                                         ELSE subscribers[t]]

\* unsubscribe: take the stream's queue out of every topic.
Without(s) == [t \in Topics |-> subscribers[t] \ {s}]

\* The queues a publish on topic t at worker w finds.
Targets(w, t) == {s \in subscribers[t] : Home[s] = w}

\* A queue that lets in one event too many.
Full_OffByOne(w, t) == {s \in Targets(w, t) : Len(queue[s]) > QueueMax}

\* The queues on which put_nowait raises QueueFull.
Full(w, t) == {s \in Targets(w, t) : Len(queue[s]) >= QueueMax}

\* What publish returns is the number of these.
Delivered(w, t) == Targets(w, t) \ Full(w, t)

\* A full queue loses the event but stays subscribed.
AfterPublish_KeepsSlow(w, t) == subscribers

\* A queue found full leaves this topic (and no other).
AfterPublish(w, t) == [subscribers EXCEPT ![t] = @ \ Full(w, t)]

Enqueued(s, e) == Append(queue[s], e)

Publish(w, t) ==
  LET e == [at |-> w, topic |-> t, n |-> published[w][t] + 1]
  IN  /\ published[w][t] < MaxPublished
      /\ published' = [published EXCEPT ![w][t] = @ + 1]
      /\ queue' = [s \in Streams |-> IF s \in Delivered(w, t)
                                     THEN Enqueued(s, e) ELSE queue[s]]
      /\ subscribers' = AfterPublish(w, t)
      /\ UNCHANGED <<frame, phase, gone, topics, since, received>>

-----------------------------------------------------------------------------
(* The stream.                                                             *)

\* subscribe: put the stream's queue into each of the given topics.
Subscribed(s, T) ==
  [t \in Topics |-> IF t \in T THEN subscribers[t] \cup {s} ELSE subscribers[t]]

\* GET /stream: the generator subscribes, then waits on an empty queue.
Connect(s, T) ==
  /\ phase[s] = "new"
  /\ T \in EndpointTopics
  /\ topics' = [topics EXCEPT ![s] = T]
  /\ subscribers' = Subscribed(s, T)
  /\ since' = [since EXCEPT ![s] = published]
  /\ phase' = [phase EXCEPT ![s] = "waiting"]
  /\ UNCHANGED <<published, queue, frame, gone, received>>

\* The head is read, and stays in the queue.
TakeHead_Peek(s) ==
  /\ frame' = [frame EXCEPT ![s] = <<Head(queue[s])>>]
  /\ phase' = [phase EXCEPT ![s] = "sending"]
  /\ UNCHANGED queue

\* The generator is resumed with the head of its queue and yields the frame.
TakeHead(s) ==
  /\ frame' = [frame EXCEPT ![s] = <<Head(queue[s])>>]
  /\ queue' = [queue EXCEPT ![s] = Tail(@)]
  /\ phase' = [phase EXCEPT ![s] = "sending"]

\* A wakeup that is lost while the queue holds a single event.
Wake_Lost(s) ==
  /\ phase[s] = "waiting" /\ Len(queue[s]) > 1
  /\ TakeHead(s)
  /\ UNCHANGED <<published, subscribers, gone, topics, since, received>>

Wake(s) ==
  /\ phase[s] = "waiting" /\ queue[s] # <<>>
  /\ TakeHead(s)
  /\ UNCHANGED <<published, subscribers, gone, topics, since, received>>

\* The event that arrived while queue.get() was being cancelled is dropped.
QueueAfterTimeout_Loses(s) ==
  IF queue[s] = <<>> THEN queue ELSE [queue EXCEPT ![s] = Tail(@)]

\* A cancelled queue.get() leaves the queue as it was.
QueueAfterTimeout(s) == queue

\* wait_for times out and a heartbeat comment is yielded.  An event may have
\* arrived in the same turn of the loop; it stays queued.
Heartbeat(s) ==
  /\ phase[s] = "waiting"
  /\ queue' = QueueAfterTimeout(s)
  /\ frame' = [frame EXCEPT ![s] = <<>>]
  /\ phase' = [phase EXCEPT ![s] = "sending"]
  /\ UNCHANGED <<published, subscribers, gone, topics, since, received>>

\* The frame has been written out (into the void once the client is gone) and
\* the loop goes round: queue.get() returns at once on a non-empty queue.
Sent(s) ==
  /\ phase[s] = "sending"
  /\ received' = IF s \in gone THEN received
                 ELSE [received EXCEPT ![s] = @ \o frame[s]]
  /\ IF queue[s] # <<>>
     THEN TakeHead(s)
     ELSE /\ phase' = [phase EXCEPT ![s] = "waiting"]
          /\ frame' = [frame EXCEPT ![s] = <<>>]
          /\ UNCHANGED queue
  /\ UNCHANGED <<published, subscribers, gone, topics, since>>

\* The client goes away; the server has not noticed yet.
Disconnect(s) ==
  /\ Open(s) /\ s \notin gone
  /\ gone' = gone \cup {s}
  /\ UNCHANGED <<published, subscribers, queue, frame, phase, topics, since,
                 received>>

\* The generator is cancelled or finalised: its finally clause unsubscribes.
Cleanup(s) ==
  /\ Open(s) /\ s \in gone
  /\ subscribers' = Without(s)
  /\ phase' = [phase EXCEPT ![s] = "closed"]
  /\ queue' = [queue EXCEPT ![s] = <<>>]
  /\ frame' = [frame EXCEPT ![s] = <<>>]
  /\ UNCHANGED <<published, gone, topics, since, received>>

\* A worker process dies; its supervisor starts a new one with an empty bus.
Crash(w) ==
  LET lost == {s \in Streams : Open(s) /\ Home[s] = w}
  IN  /\ gone' = gone \cup lost
      /\ subscribers' = [t \in Topics |-> subscribers[t] \ lost]
      /\ phase' = [s \in Streams |-> IF s \in lost THEN "closed" ELSE phase[s]]
      /\ queue' = [s \in Streams |-> IF s \in lost THEN <<>> ELSE queue[s]]
      /\ frame' = [s \in Streams |-> IF s \in lost THEN <<>> ELSE frame[s]]
      /\ UNCHANGED <<published, topics, since, received>>

-----------------------------------------------------------------------------

StreamNext(s) ==
  \/ \E T \in EndpointTopics : Connect(s, T)
  \/ Wake(s)
  \/ Heartbeat(s)
  \/ Sent(s)
  \/ Disconnect(s)
  \/ Cleanup(s)

Next ==
  \/ \E w \in Workers, t \in Topics : Publish(w, t)
  \/ \E s \in Streams : StreamNext(s)
  \/ \E w \in Workers : Crash(w)

\* The loop resumes every generator it has woken or cancelled, and a client
\* that is connected keeps reading its socket.  Nobody is obliged to publish,
\* to connect, to disconnect or to crash.
Fairness ==
  \A s \in Streams : /\ WF_busVars(Wake(s))
                     /\ WF_busVars(Sent(s))
                     /\ WF_busVars(Cleanup(s))

Spec == Init /\ [][Next]_busVars /\ Fairness

-----------------------------------------------------------------------------
(* Properties.                                                             *)

\* Every variable has its type, and no queue is longer than its maxsize.
TypeOK ==
  /\ published \in [Workers -> [Topics -> Nat]]
  /\ subscribers \in [Topics -> SUBSET Streams]
  /\ queue \in [Streams -> Seq(Event)]
  /\ \A s \in Streams : Len(queue[s]) <= QueueMax
  /\ frame \in [Streams -> Seq(Event)]
  /\ \A s \in Streams : Len(frame[s]) <= 1
  /\ phase \in [Streams -> {"new", "waiting", "sending", "closed"}]
  /\ gone \subseteq Streams
  /\ topics \in [Streams -> SUBSET Topics]
  /\ since \in [Streams -> [Workers -> [Topics -> Nat]]]
  /\ received \in [Streams -> Seq(Event)]

\* Only an open stream is subscribed, and only to topics it asked for: a
\* generator that ended, however it ended, left no queue behind on the bus.
NoZombieSubscriber ==
  \A t \in Topics : \A s \in subscribers[t] : Open(s) /\ t \in topics[s]

\* All that has been handed to the stream s, oldest first.
Trail(s) == IF s \in gone THEN received[s]
            ELSE received[s] \o frame[s] \o queue[s]

\* A client never reads the events of one topic out of order, or twice.
InOrder ==
  \A s \in Streams : \A i, j \in DOMAIN Trail(s) :
    /\ i < j
    /\ Trail(s)[i].topic = Trail(s)[j].topic
    => Trail(s)[i].n < Trail(s)[j].n

\* What a client has read of a topic has no hole in it: an event is preceded
\* by every earlier event of its topic since the stream subscribed.  Dropping
\* a slow consumer cuts the topic off, it never skips an event.
NoGap ==
  \A s \in Streams : \A i \in DOMAIN Trail(s) :
    LET e == Trail(s)[i]
    IN  \A k \in (since[s][e.at][e.topic] + 1) .. e.n :
          \E j \in 1 .. i : Trail(s)[j] = [e EXCEPT !.n = k]

\* Stream s has been handed every event published at w on t since it came.
HasAll(s, w, t) ==
  \A k \in (since[s][w][t] + 1) .. published[w][t] :
    \E j \in DOMAIN Trail(s) : Trail(s)[j] = [at |-> w, topic |-> t, n |-> k]

\* As long as a live client is on a topic's subscriber list it misses nothing
\* that its own worker publishes there, whatever timeouts and heartbeats
\* interleave with the publishes.
NothingMissed ==
  \A t \in Topics : \A s \in subscribers[t] \ gone : HasAll(s, Home[s], t)

\* The bus and its generators implement the subscription a client counts on:
\* what it reads of a topic it asked for is the next event there, every time,
\* whatever the queues, heartbeats and crashes do in between.
Sub == INSTANCE Subscription WITH joined <- {s \in Streams : phase[s] # "new"}
ImplementsSubscription == Sub!Spec

\* An event queued for a client is read by that client, or the client leaves.
QueuedIsDelivered ==
  \A s \in Streams, w \in Workers, t \in Topics, n \in 1 .. MaxPublished :
    LET e == [at |-> w, topic |-> t, n |-> n]
    IN  (\E i \in DOMAIN queue[s] : queue[s][i] = e) ~>
          (s \in gone \/ \E i \in DOMAIN received[s] : received[s][i] = e)

\* The queue of a client that left is eventually taken off the bus.
GoneIsReaped ==
  \A s \in Streams : (s \in gone) ~> (\A t \in Topics : s \notin subscribers[t])

\* wiki/DECISIONS.md, ADR-004: when a write lands, subscribers on the same
\* instance receive it, whichever of the instance's workers took the write.
InstanceFanout ==
  \A t \in Topics : \A s \in subscribers[t] \ gone :
    \A w \in Workers : HasAll(s, w, t)

\* app/event_bus.py, publish: a slow consumer that is dropped must reconnect,
\* as bridges do on disconnect; so its stream has to be ended.
DroppedMustReconnect ==
  \A s \in Streams :
    (Open(s) /\ \E t \in topics[s] : s \notin subscribers[t])
      ~> (phase[s] = "closed")

=============================================================================
