--------------------------- MODULE ToolCallProofs ----------------------------
(***************************************************************************)
(* Proofs about ToolCall, for any number of calls, results, workers and    *)
(* streams.  The invariant of the bus carries over, because every step of  *)
(* the composition is a step of the bus or leaves the bus alone.           *)
(***************************************************************************)
EXTENDS ToolCall, EventBusProofs

LEMMA StepOfBus == [CallsNext]_vars => [Next]_busVars
<1>1. ASSUME NEW c \in Calls, CallNext(c) PROVE [Next]_busVars
  BY <1>1 DEF CallNext, Invoke, TimerFires, Resume, PostResult, Next, Topics
<1>2. ASSUME NEW s \in Streams, StreamNext(s) PROVE [Next]_busVars
  BY <1>2 DEF Next
<1>3. ASSUME NEW w \in Workers, CrashWorker(w) PROVE [Next]_busVars
  BY <1>3 DEF CrashWorker, Next
<1>4. ASSUME UNCHANGED vars PROVE [Next]_busVars
  BY <1>4 DEF vars
<1> QED BY <1>1, <1>2, <1>3, <1>4 DEF CallsNext

\* What a future, its dictionary entry and its timer say about each other.
FutureInv ==
  \A c \in Calls :
    /\ fut[c] = "set" => /\ \E r \in Results : value[c] = <<r>>
                         /\ accepted[c] = value[c]
                         /\ c \notin pending
    /\ fut[c] # "set" => value[c] = <<>> /\ accepted[c] = <<>>
    /\ fut[c] = "cancelled" => expired[c]
    /\ c \in pending => call[c] = "waiting"
    /\ call[c] = "waiting" /\ fut[c] = "pending" => c \in pending /\ ~expired[c]
    /\ call[c] = "result" => fut[c] = "set"
    /\ call[c] = "idle" => fut[c] = "pending" /\ ~expired[c]

\* The inductive invariant of the rendezvous.
CallInv == CallTypeOK /\ FutureInv

LEMMA InitCall == CallInit => CallInv
BY CallAssumption, EmptySeq DEF CallInit, CallInv, CallTypeOK, FutureInv

LEMMA InvokeCall ==
  ASSUME TypeOK, CallInv, NEW c \in Calls, NEW w \in Workers,
         NEW t \in AgentTopics, Invoke(c, w, t)
  PROVE  CallInv'
<1> USE DEF CallInv, CallTypeOK
<1> DEFINE e == [at |-> w, topic |-> t, n |-> published[w][t] + 1]
<1>1. e \in [at : Workers, topic : AgentTopics, n : 1 .. MaxPublished]
  <2>1. published[w][t] \in Nat /\ published[w][t] < MaxPublished
    BY DEF TypeOK, Topics, Invoke, Publish
  <2> QED BY <2>1, BusAssumption
<1>2. /\ call[c] = "idle"
      /\ invocation' = [invocation EXCEPT ![c] = <<e>>]
      /\ UNCHANGED <<fut, value, expired, accepted, posts>>
  BY DEF Invoke
<1> HIDE DEF e
<1>3. \/ /\ call' = [call EXCEPT ![c] = "waiting"]
         /\ pending' = pending \cup {c}
      \/ /\ call' = [call EXCEPT ![c] = "not_connected"]
         /\ pending' = pending
  BY DEF Invoke
<1>4. CallTypeOK'
  <2>1. call' \in [Calls -> {"idle", "waiting"} \cup Answers]
    BY <1>3 DEF Answers
  <2>2. ASSUME NEW d \in Calls, call'[d] # "idle"
        PROVE  \E x \in [at : Workers, topic : AgentTopics, n : 1 .. MaxPublished] :
                 invocation'[d] = <<x>>
    <3>1. CASE d = c
      BY <1>1, <1>2, <3>1
    <3>2. CASE d # c
      BY <1>2, <1>3, <2>2, <3>2
    <3> QED BY <3>1, <3>2
  <2>3. DOMAIN invocation' = Calls /\ pending' \subseteq Calls
    BY <1>2, <1>3
  <2> QED BY <1>2, <2>1, <2>2, <2>3
<1>5. FutureInv'
  <2> USE DEF FutureInv
  <2>1. /\ fut[c] = "pending" /\ ~expired[c] /\ c \notin pending
        /\ value[c] = <<>> /\ accepted[c] = <<>>
    BY <1>2
  <2>2. CASE call' = [call EXCEPT ![c] = "waiting"] /\ pending' = pending \cup {c}
    BY <1>2, <2>1, <2>2
  <2>3. CASE call' = [call EXCEPT ![c] = "not_connected"] /\ pending' = pending
    BY <1>2, <2>1, <2>3
  <2> QED BY <1>3, <2>2, <2>3
<1> QED BY <1>4, <1>5

LEMMA TimerCall ==
  ASSUME CallInv, NEW c \in Calls, TimerFires(c)
  PROVE  CallInv'
BY DEF CallInv, CallTypeOK, FutureInv, TimerFires, FutAfterTimer

LEMMA ResumeCall ==
  ASSUME CallInv, NEW c \in Calls, Resume(c)
  PROVE  CallInv'
<1> USE DEF CallInv, CallTypeOK, FutureInv, Resume, Outcome, PendingAfter
<1>1. CASE expired[c]
  BY <1>1 DEF Answers
<1>2. CASE ~expired[c]
  BY <1>2 DEF Answers
<1> QED BY <1>1, <1>2

LEMMA PostCall ==
  ASSUME CallInv, NEW c \in Calls, NEW w \in Workers, NEW r \in Results,
         PostResult(c, w, r)
  PROVE  CallInv'
<1> USE DEF CallInv, CallTypeOK, FutureInv
<1>1. posts' \in [Calls -> 0 .. MaxPosts]
  BY CallAssumption DEF PostResult
<1>2. CASE Accepts(c, w)
  <2>1. /\ fut[c] = "pending" /\ c \in pending
        /\ pending' = pending \ {c}
        /\ fut' = [fut EXCEPT ![c] = "set"]
        /\ value' = [value EXCEPT ![c] = <<r>>]
        /\ accepted' = [accepted EXCEPT ![c] = Append(@, r)]
        /\ UNCHANGED <<call, invocation, expired>>
    BY <1>2 DEF PostResult, Accepts, Finds
  <2>2. accepted[c] = <<>>
    BY <2>1
  <2>3. Append(accepted[c], r) = <<r>> /\ <<r>> \in Seq(Results)
    BY <2>2
  <2>4. accepted' = [accepted EXCEPT ![c] = <<r>>]
    BY <2>1, <2>3
  <2>5. CallTypeOK'
    BY <1>1, <2>1, <2>3, <2>4
  <2>6. FutureInv'
    BY <2>1, <2>4
  <2> QED BY <2>5, <2>6
<1>3. CASE ~Accepts(c, w)
  <2>1. /\ UNCHANGED <<call, invocation, expired, fut, value, accepted>>
        /\ \/ pending' = pending
           \/ /\ fut[c] # "pending"
              /\ pending' = pending \ {c}
    BY <1>3 DEF PostResult, Accepts
  <2> QED BY <1>1, <2>1
<1> QED BY <1>2, <1>3

LEMMA CrashCall ==
  ASSUME CallInv, NEW w \in Workers, CrashWorker(w)
  PROVE  CallInv'
<1> DEFINE lost == {c \in Calls : call[c] = "waiting" /\ invocation[c][1].at = w}
<1>1. /\ call' = [c \in Calls |-> IF c \in lost THEN "aborted" ELSE call[c]]
      /\ pending' = pending \ lost
      /\ UNCHANGED <<invocation, fut, value, expired, accepted, posts>>
  BY DEF CrashWorker
<1>2. \A c \in lost : c \in Calls /\ call[c] = "waiting"
  OBVIOUS
<1> HIDE DEF lost
<1> QED BY <1>1, <1>2 DEF CallInv, CallTypeOK, FutureInv, Answers

\* No step of a stream touches the rendezvous.
LEMMA NextCall == TypeOK /\ CallInv /\ [CallsNext]_vars => CallInv'
<1> SUFFICES ASSUME TypeOK, CallInv, [CallsNext]_vars PROVE CallInv'
  OBVIOUS
<1>1. ASSUME NEW c \in Calls, CallNext(c) PROVE CallInv'
  BY <1>1, InvokeCall, TimerCall, ResumeCall, PostCall DEF CallNext
<1>2. CASE UNCHANGED callVars
  BY <1>2 DEF callVars, CallInv, CallTypeOK, FutureInv
<1>3. ASSUME NEW w \in Workers, CrashWorker(w) PROVE CallInv'
  BY <1>3, CrashCall
<1> QED BY <1>1, <1>2, <1>3 DEF CallsNext, vars

-----------------------------------------------------------------------------

\* The bus keeps its invariant under the composition, and the rendezvous has
\* one of its own.
THEOREM CallInvariance == CallSpec => [](BusInv /\ CallInv)
<1>1. CallInit => BusInv /\ CallInv
  BY InitBus, InitCall DEF CallInit
<1>2. BusInv /\ CallInv /\ [CallsNext]_vars => (BusInv /\ CallInv)'
  <2>1. BusInv => TypeOK
    BY DEF BusInv
  <2>2. BusInv /\ [CallsNext]_vars => BusInv'
    BY StepOfBus, NextBus
  <2> QED BY <2>1, <2>2, NextCall
<1> QED BY <1>1, <1>2, PTL DEF CallSpec

\* The composition implements the subscription too: tool calls are events like
\* any other to the streams that carry them.
THEOREM CallSubscription == CallSpec => ImplementsSubscription
<1>1. CallInit => Sub!Init
  BY InitSubscription DEF CallInit
<1>2. BusInv /\ [CallsNext]_vars => [Sub!Next]_(Sub!subVars)
  BY StepOfBus, NextSubscription
<1> QED BY CallInvariance, <1>1, <1>2, PTL
        DEF CallSpec, ImplementsSubscription, Sub!Spec

\* The variables of the rendezvous keep their types.
THEOREM CallTypeCorrect == CallSpec => []CallTypeOK
BY CallInvariance, PTL DEF CallInv

\* The dictionary of pending calls holds waiting calls only, and every waiting
\* handler whose future is open: no entry leaks and none is missing.
THEOREM PendingMatchesWaitersAlways == CallSpec => []PendingMatchesWaiters
<1>1. CallInv => PendingMatchesWaiters
  BY DEF CallInv, FutureInv, PendingMatchesWaiters
<1> QED BY CallInvariance, <1>1, PTL

\* A bridge that was told OK has its result in the future of the call.
THEOREM AcceptedIsKeptAlways == CallSpec => []AcceptedIsKept
<1>1. CallInv => AcceptedIsKept
  BY DEF CallInv, CallTypeOK, FutureInv, AcceptedIsKept
<1> QED BY CallInvariance, <1>1, PTL

\* A result handed to a caller is the one result that was accepted.
THEOREM AnswerIsGenuineAlways == CallSpec => []AnswerIsGenuine
<1>1. CallInv => AnswerIsGenuine
  <2>1. \A r : Len(<<r>>) = 1
    OBVIOUS
  <2> QED BY <2>1 DEF CallInv, FutureInv, AnswerIsGenuine
<1> QED BY CallInvariance, <1>1, PTL

-----------------------------------------------------------------------------
(* Who has the invocation of a call.  An invocation is numbered among the  *)
(* events its worker published, so a later publish is another event; and a *)
(* live stream keeps what it was handed.                                   *)

Reached == {"waiting", "timeout", "result"}

NumberedInv ==
  \A c \in Calls : call[c] # "idle" =>
    invocation[c][1].n <= published[invocation[c][1].at][invocation[c][1].topic]

ReachInv == NumberedInv /\ RefusedNeverRuns /\ WaitsForSomebody

\* What a step that publishes nothing does to the streams.
StillStep ==
  /\ \A s \in Streams : Cut(s)
  /\ gone \subseteq gone'
  /\ UNCHANGED published
  /\ \A s \in Streams : phase[s] # "new" => topics'[s] = topics[s]

LEMMA StreamStill ==
  ASSUME BusInv, NEW s \in Streams, StreamNext(s) PROVE StillStep
<1> USE DEF BusInv
<1>1. ASSUME NEW T \in EndpointTopics, Connect(s, T) PROVE StillStep
  <2>1. \A q \in Streams : Trail(q)' = Trail(q)
    BY <1>1 DEF Connect, Subscribed, Trail
  <2>2. \A q \in Streams : phase[q] # "new" => topics'[q] = topics[q]
    BY <1>1 DEF Connect, Subscribed, TypeOK
  <2> QED BY <1>1, <2>1, <2>2, SameIsCut DEF StillStep, Connect
<1>2. ASSUME Wake(s) \/ Heartbeat(s) \/ Sent(s) \/ Disconnect(s) \/ Cleanup(s)
      PROVE  StillStep
  <2>1. QuietStep
    BY <1>2, StreamQuiet
  <2>2. UNCHANGED topics
    BY <1>2 DEF Wake, Heartbeat, Sent, Disconnect, Cleanup
  <2> QED BY <2>1, <2>2 DEF QuietStep, StillStep
<1> QED BY <1>1, <1>2 DEF StreamNext

LEMMA CrashStill ==
  ASSUME BusInv, NEW w \in Workers, Crash(w) PROVE StillStep
<1>1. QuietStep
  BY CrashQuiet DEF BusInv
<1> QED BY <1>1 DEF QuietStep, StillStep, Crash

LEMMA SameStill ==
  ASSUME BusInv, UNCHANGED busVars PROVE StillStep
<1>1. \A s \in Streams : Trail(s)' = Trail(s)
  BY DEF busVars, Trail
<1> QED BY <1>1, SameIsCut DEF StillStep, busVars, BusInv

LEMMA NewTrail ==
  ASSUME BusInv, NEW s \in Streams, phase[s] = "new"
  PROVE  Trail(s) = <<>> /\ s \notin gone
<1>1. /\ s \notin gone /\ received[s] = <<>>
      /\ frame[s] = <<>> /\ queue[s] = <<>>
  BY DEF BusInv, StreamInv, Open
<1>2. <<>> \o <<>> = <<>>
  BY EmptySeq, ConcatEmptySeq
<1> QED BY <1>1, <1>2 DEF Trail

\* A still step keeps the invariant, if it refuses nobody and adds nobody to
\* those who were made to wait.
LEMMA StillReach ==
  ASSUME BusInv, BusInv', CallInv, ReachInv, StillStep, UNCHANGED invocation,
         \A c \in Calls : /\ call'[c] # "idle" => call[c] # "idle"
                          /\ call'[c] = "not_connected"
                               => call[c] = "not_connected"
                          /\ call'[c] \in Reached => call[c] \in Reached
  PROVE  ReachInv'
<1>1. ASSUME NEW s \in Streams
      PROVE  /\ DOMAIN Trail(s) = 1 .. Len(Trail(s))
             /\ DOMAIN Trail(s)' = 1 .. Len(Trail(s)')
             /\ Len(Trail(s)) \in Nat /\ Len(Trail(s)') \in Nat
             /\ Len(Trail(s)') <= Len(Trail(s))
             /\ \A i \in 1 .. Len(Trail(s)') : Trail(s)'[i] = Trail(s)[i]
             /\ s \notin gone' => Trail(s)' = Trail(s)
  BY TrailDomain, TrailDomainNext DEF StillStep, Cut, BusInv
<1>2. NumberedInv'
  BY DEF ReachInv, NumberedInv, StillStep
<1>3. ASSUME NEW s \in Streams, NEW c \in Calls, Holds(s, c)'
      PROVE  Holds(s, c)
  BY <1>1, <1>3 DEF Holds
<1>4. RefusedNeverRuns'
  BY <1>3 DEF ReachInv, RefusedNeverRuns
<1>5. WaitsForSomebody'
  <2> SUFFICES ASSUME NEW c \in Calls, call'[c] \in Reached
               PROVE  \E s \in Streams :
                        /\ invocation'[c][1].topic \in topics'[s]
                        /\ s \in gone' \/ Holds(s, c)'
    BY DEF WaitsForSomebody, Reached
  <2>1. PICK s \in Streams : /\ invocation[c][1].topic \in topics[s]
                             /\ s \in gone \/ Holds(s, c)
    BY DEF ReachInv, WaitsForSomebody, Reached
  <2>2. phase[s] # "new"
    <3>1. CASE s \in gone
      BY <3>1, NewTrail
    <3>2. CASE Holds(s, c)
      BY <3>2, <1>1, NewTrail, EmptySeq DEF Holds
    <3> QED BY <2>1, <3>1, <3>2
  <2>3. topics'[s] = topics[s]
    BY <2>2 DEF StillStep
  <2>4. s \in gone' \/ Holds(s, c)'
    BY <1>1, <2>1 DEF Holds, StillStep
  <2> QED BY <2>1, <2>3, <2>4
<1> QED BY <1>2, <1>4, <1>5 DEF ReachInv

LEMMA InvokeReach ==
  ASSUME BusInv, BusInv', CallInv, CallInv', ReachInv, NEW c \in Calls,
         NEW w \in Workers, NEW t \in AgentTopics, Invoke(c, w, t)
  PROVE  ReachInv'
<1> DEFINE e == [at |-> w, topic |-> t, n |-> published[w][t] + 1]
<1>1. /\ call[c] = "idle" /\ Publish(w, t) /\ t \in Topics
      /\ invocation' = [invocation EXCEPT ![c] = <<e>>]
      /\ \A d \in Calls \ {c} : call'[d] = call[d]
  BY DEF Invoke, Topics, CallInv, CallTypeOK
<1>2. call'[c] = IF Delivered(w, t) # {} THEN "waiting" ELSE "not_connected"
  BY DEF Invoke, Connected, CallInv, CallTypeOK
<1>3. /\ e.at = w /\ e.topic = t /\ e.n = published[w][t] + 1
      /\ published[w][t] \in Nat
      /\ \A v \in Workers, u \in Topics :
           /\ published[v][u] \in Nat
           /\ published'[v][u] = IF v = w /\ u = t THEN published[v][u] + 1
                                                 ELSE published[v][u]
  BY <1>1 DEF BusInv, TypeOK, Publish
<1>4. invocation'[c][1] = e
      /\ \A d \in Calls \ {c} : invocation'[d] = invocation[d]
  BY <1>1 DEF CallInv, CallTypeOK
<1>5. ASSUME NEW d \in Calls \ {c}, call[d] # "idle"
      PROVE  /\ invocation[d][1].at \in Workers
             /\ invocation[d][1].topic \in Topics
             /\ invocation[d][1].n \in Nat
             /\ invocation[d][1].n
                  <= published[invocation[d][1].at][invocation[d][1].topic]
  <2>1. PICK x \in [at : Workers, topic : AgentTopics, n : 1 .. MaxPublished] :
          invocation[d] = <<x>>
    BY <1>5 DEF CallInv, CallTypeOK
  <2>2. /\ x.at \in Workers /\ x.topic \in Topics /\ x.n \in Nat
        /\ invocation[d][1] = x
    BY <2>1, BusAssumption DEF Topics
  <2> QED BY <1>5, <2>2 DEF ReachInv, NumberedInv
<1>6. \A s \in Streams : Trail(s)' = IF s \in Delivered(w, t) \ gone
                                     THEN Append(Trail(s), e) ELSE Trail(s)
  BY <1>1, PublishTrail DEF BusInv
<1>7. UNCHANGED <<gone, topics>>
  BY <1>1 DEF Publish
<1> HIDE DEF e
<1>8. ASSUME NEW s \in Streams
      PROVE  /\ DOMAIN Trail(s) = 1 .. Len(Trail(s))
             /\ Len(Trail(s)) \in Nat
             /\ \A i \in 1 .. Len(Trail(s)) : Trail(s)'[i] = Trail(s)[i]
             /\ IF s \in Delivered(w, t) \ gone
                THEN /\ DOMAIN Trail(s)' = 1 .. (Len(Trail(s)) + 1)
                     /\ Trail(s)'[Len(Trail(s)) + 1] = e
                ELSE Trail(s)' = Trail(s)
  <2>1. Trail(s) \in Seq(Event) /\ e \in Event
    BY <1>1, <1>3, TrailType, EventType DEF BusInv, e
  <2>2. /\ Append(Trail(s), e) \in Seq(Event)
        /\ Len(Append(Trail(s), e)) = Len(Trail(s)) + 1
        /\ \A i \in 1 .. Len(Trail(s)) : Append(Trail(s), e)[i] = Trail(s)[i]
        /\ Append(Trail(s), e)[Len(Trail(s)) + 1] = e
    BY <2>1, AppendProperties
  <2>3. DOMAIN Append(Trail(s), e) = 1 .. (Len(Trail(s)) + 1)
    BY <2>2, LenProperties
  <2> QED BY <1>6, <2>2, <2>3, TrailDomain DEF BusInv
\* Nobody had the event before it was published.
<1>9. ASSUME NEW s \in Streams, NEW i \in DOMAIN Trail(s) PROVE Trail(s)[i] # e
  <2>1. /\ Trail(s)[i].at = Home[s]
        /\ Trail(s)[i].n <= published[Home[s]][Trail(s)[i].topic]
    BY DEF BusInv, DeliveryInv, SourceInv
  <2> QED BY <1>1, <1>3, <2>1
<1>10. NumberedInv'
  <2> SUFFICES ASSUME NEW d \in Calls, call'[d] # "idle"
               PROVE  invocation'[d][1].n
                        <= published'[invocation'[d][1].at][invocation'[d][1].topic]
    BY DEF NumberedInv
  <2>1. CASE d = c
    BY <1>1, <1>3, <1>4, <2>1
  <2>2. CASE d # c
    BY <1>1, <1>3, <1>4, <1>5, <2>2
  <2> QED BY <2>1, <2>2
<1>11. RefusedNeverRuns'
  <2> SUFFICES ASSUME NEW d \in Calls, call'[d] = "not_connected",
                      NEW s \in Streams, NEW i \in DOMAIN Trail(s)',
                      Trail(s)'[i] = invocation'[d][1]
               PROVE  FALSE
    BY DEF RefusedNeverRuns, Holds
  <2>1. CASE d = c
    <3>1. Trail(s)' = Trail(s)
      BY <1>2, <1>8, <2>1
    <3> QED BY <1>4, <1>9, <2>1, <3>1
  <2>2. CASE d # c
    <3>1. call[d] = "not_connected" /\ invocation'[d] = invocation[d]
      BY <1>1, <1>4, <2>2
    <3>2. invocation[d][1] # e
      BY <1>1, <1>3, <1>5, <2>2, <3>1
    <3>3. i \in DOMAIN Trail(s) /\ Trail(s)[i] = invocation[d][1]
      BY <1>8, <3>1, <3>2
    <3> QED BY <3>1, <3>3 DEF ReachInv, RefusedNeverRuns, Holds
  <2> QED BY <2>1, <2>2
<1>12. WaitsForSomebody'
  <2> SUFFICES ASSUME NEW d \in Calls, call'[d] \in Reached
               PROVE  \E s \in Streams :
                        /\ invocation'[d][1].topic \in topics'[s]
                        /\ s \in gone' \/ Holds(s, d)'
    BY DEF WaitsForSomebody, Reached
  <2>1. CASE d = c
    <3>1. PICK s : s \in Delivered(w, t)
      BY <1>2, <2>1 DEF Reached
    <3>2. s \in Streams /\ t \in topics[s]
      BY <1>1, <3>1
         DEF Delivered, Targets, BusInv, NoZombieSubscriber, TypeOK
    <3>3. s \in gone \/ Holds(s, c)'
      BY <1>4, <1>8, <3>1, <3>2 DEF Holds
    <3> QED BY <1>3, <1>4, <1>7, <2>1, <3>2, <3>3
  <2>2. CASE d # c
    <3>1. call[d] \in Reached /\ invocation'[d] = invocation[d]
      BY <1>1, <1>4, <2>2
    <3>2. PICK s \in Streams : /\ invocation[d][1].topic \in topics[s]
                               /\ s \in gone \/ Holds(s, d)
      BY <3>1 DEF ReachInv, WaitsForSomebody, Reached
    <3>3. Holds(s, d) => Holds(s, d)'
      BY <1>8, <3>1 DEF Holds
    <3> QED BY <1>7, <3>1, <3>2, <3>3
  <2> QED BY <2>1, <2>2
<1> QED BY <1>10, <1>11, <1>12 DEF ReachInv

LEMMA NextReach ==
  BusInv /\ CallInv /\ ReachInv /\ [CallsNext]_vars => ReachInv'
<1> SUFFICES ASSUME BusInv, CallInv, ReachInv, [CallsNext]_vars PROVE ReachInv'
  OBVIOUS
<1>1. BusInv' /\ CallInv'
  BY StepOfBus, NextBus, NextCall DEF BusInv
<1>2. ASSUME NEW c \in Calls, CallNext(c) PROVE ReachInv'
  <2>1. ASSUME NEW w \in Workers, NEW t \in AgentTopics, Invoke(c, w, t)
        PROVE  ReachInv'
    BY <1>1, <2>1, InvokeReach
  <2>2. ASSUME \/ TimerFires(c)
               \/ \E w \in Workers, r \in Results : PostResult(c, w, r)
        PROVE  ReachInv'
    <3>1. UNCHANGED busVars /\ UNCHANGED <<call, invocation>>
      BY <2>2 DEF TimerFires, PostResult
    <3>2. StillStep
      BY <3>1, SameStill
    <3> QED BY <1>1, <3>1, <3>2, StillReach
  <2>3. ASSUME Resume(c) PROVE ReachInv'
    <3>1. UNCHANGED busVars /\ UNCHANGED invocation
      BY <2>3 DEF Resume
    <3>2. /\ call[c] = "waiting"
          /\ \/ call' = [call EXCEPT ![c] = "timeout"]
             \/ call' = [call EXCEPT ![c] = "result"]
      BY <2>3 DEF Resume, Outcome
    <3>3. \A d \in Calls : \/ call'[d] = call[d]
                           \/ call[d] = "waiting" /\ call'[d] \in {"timeout", "result"}
      BY <3>2 DEF CallInv, CallTypeOK
    <3>4. StillStep
      BY <3>1, SameStill
    <3> QED BY <1>1, <3>1, <3>3, <3>4, StillReach DEF Reached
  <2> QED BY <1>2, <2>1, <2>2, <2>3 DEF CallNext
<1>3. ASSUME NEW s \in Streams, StreamNext(s), UNCHANGED callVars PROVE ReachInv'
  BY <1>1, <1>3, StreamStill, StillReach DEF callVars
<1>4. ASSUME NEW w \in Workers, CrashWorker(w) PROVE ReachInv'
  <2>1. Crash(w) /\ UNCHANGED invocation
    BY <1>4 DEF CrashWorker
  <2>2. \A d \in Calls : \/ call'[d] = call[d]
                         \/ call[d] = "waiting" /\ call'[d] = "aborted"
    BY <1>4 DEF CrashWorker
  <2> QED BY <1>1, <2>1, <2>2, CrashStill, StillReach DEF Reached
<1>5. CASE UNCHANGED vars
  <2>1. UNCHANGED busVars /\ UNCHANGED <<call, invocation>>
    BY <1>5 DEF vars, callVars
  <2> QED BY <1>1, <2>1, SameStill, StillReach
<1> QED BY <1>2, <1>3, <1>4, <1>5 DEF CallsNext

LEMMA ReachInvariance == CallSpec => []ReachInv
<1>1. CallInit => ReachInv
  BY DEF CallInit, ReachInv, NumberedInv, RefusedNeverRuns, WaitsForSomebody
<1>2. BusInv /\ CallInv /\ ReachInv /\ [CallsNext]_vars => ReachInv'
  BY NextReach
<1> QED BY CallInvariance, <1>1, <1>2, PTL DEF CallSpec

\* "Not connected" is never said of an invocation that a bridge has.
THEOREM RefusedNeverRunsAlways == CallSpec => []RefusedNeverRuns
BY ReachInvariance, PTL DEF ReachInv

\* A caller waits only if some bridge had its invocation.
THEOREM WaitsForSomebodyAlways == CallSpec => []WaitsForSomebody
BY ReachInvariance, PTL DEF ReachInv

-----------------------------------------------------------------------------
(* The rendezvous implements the contract, up to fairness.                 *)

\* A step that changes what is seen of call c only.
LEMMA OneReply ==
  ASSUME NEW c \in Calls, NEW a,
         \A d \in Calls : Reply(d)' = IF d = c THEN a ELSE Reply(d)
  PROVE  [d \in Calls |-> Reply(d)]'
           = [[d \in Calls |-> Reply(d)] EXCEPT ![c] = a]
OBVIOUS

LEMMA OfferedIs ==
  ASSUME CallInv, NEW c \in Calls
  PROVE  /\ accepted[c] = <<>> => Offered(c) = {}
         /\ \A r : accepted[c] = <<r>> => Offered(c) = {r}
BY DEF Offered

LEMMA InitContract == CallInit => Contract!Init
<1> SUFFICES ASSUME CallInit PROVE Contract!Init
  OBVIOUS
<1>1. \A c \in Calls : Reply(c) = "none"
  BY DEF CallInit, Reply
<1>2. \A c \in Calls : Offered(c) = {}
  BY DEF CallInit, Offered
<1> QED BY <1>1, <1>2 DEF Contract!Init

LEMMA InvokeRefines ==
  ASSUME CallInv, NEW c \in Calls, NEW w \in Workers, NEW t \in AgentTopics,
         Invoke(c, w, t)
  PROVE  Contract!Ask(c)
<1>1. PICK a \in {"waiting", "not_connected"} : call' = [call EXCEPT ![c] = a]
  BY DEF Invoke
<1>2. call[c] = "idle" /\ UNCHANGED <<value, accepted>>
  BY DEF Invoke
<1>3. PICK b \in {"asked", "not_connected"} :
        \A d \in Calls : Reply(d)' = IF d = c THEN b ELSE Reply(d)
  BY <1>1, <1>2 DEF Reply, CallInv, CallTypeOK
<1>4. Reply(c) = "none"
  BY <1>2 DEF Reply
<1>5. \A d \in Calls : Offered(d)' = Offered(d)
  BY <1>2 DEF Offered
<1> QED BY <1>3, <1>4, <1>5, OneReply DEF Contract!Ask

LEMMA ResumeRefines ==
  ASSUME CallInv, NEW c \in Calls, Resume(c)
  PROVE  Contract!Settle(c)
<1>1. /\ call[c] = "waiting" /\ fut[c] # "pending"
      /\ call' = [call EXCEPT ![c] = Outcome(c)]
      /\ UNCHANGED <<value, accepted>>
  BY DEF Resume
<1>2. Reply(c) = "asked"
  BY <1>1 DEF Reply
<1>3. \A d \in Calls : Offered(d)' = Offered(d)
  BY <1>1 DEF Offered
<1>4. CASE expired[c]
  <2>1. \A d \in Calls : Reply(d)' = IF d = c THEN "timeout" ELSE Reply(d)
    BY <1>1, <1>4 DEF Outcome, Reply, CallInv, CallTypeOK
  <2> QED BY <1>2, <1>3, <2>1, OneReply DEF Contract!Settle
<1>5. CASE ~expired[c]
  <2>1. \A d \in Calls : Reply(d)' = IF d = c THEN value[c][1] ELSE Reply(d)
    BY <1>1, <1>5 DEF Outcome, Reply, CallInv, CallTypeOK
  <2>2. fut[c] = "set"
    BY <1>1, <1>5 DEF CallInv, CallTypeOK, FutureInv
  <2>3. PICK r \in Results : value[c] = <<r>> /\ accepted[c] = <<r>>
    BY <2>2 DEF CallInv, FutureInv
  <2>4. value[c][1] \in Offered(c)
    BY <2>3, OfferedIs
  <2> QED BY <1>2, <1>3, <2>1, <2>4, OneReply DEF Contract!Settle
<1> QED BY <1>4, <1>5

LEMMA PostRefines ==
  ASSUME CallInv, CallInv', NEW c \in Calls, NEW w \in Workers,
         NEW r \in Results, PostResult(c, w, r)
  PROVE  Contract!Offer(c, r) \/ UNCHANGED Contract!contractVars
<1>1. UNCHANGED call
  BY DEF PostResult
<1>2. CASE Accepts(c, w)
  <2>1. /\ fut[c] = "pending" /\ c \in pending
        /\ value' = [value EXCEPT ![c] = <<r>>]
        /\ accepted' = [accepted EXCEPT ![c] = Append(@, r)]
    BY <1>2 DEF PostResult, Accepts, Finds
  <2>2. call[c] = "waiting" /\ accepted[c] = <<>>
    BY <2>1 DEF CallInv, FutureInv
  <2>3. accepted'[c] = <<r>>
    BY <2>1, <2>2 DEF CallInv, CallTypeOK
  <2>4. \A d \in Calls : Reply(d)' = Reply(d)
    BY <1>1, <2>1, <2>2 DEF Reply, CallInv, CallTypeOK
  <2>5. Reply(c) = "asked"
    BY <2>2 DEF Reply
  <2>6. \A d \in Calls : Offered(d)' = IF d = c THEN {r} ELSE Offered(d)
    <3>1. Offered(c)' = {r}
      BY <2>3 DEF Offered
    <3>2. \A d \in Calls : d # c => accepted'[d] = accepted[d]
      BY <2>1 DEF CallInv, CallTypeOK
    <3> QED BY <3>1, <3>2 DEF Offered
  <2>7. Offered(c) = {}
    BY <2>2, OfferedIs
  <2> QED BY <2>4, <2>5, <2>6, <2>7 DEF Contract!Offer
<1>3. CASE ~Accepts(c, w)
  <2>1. UNCHANGED <<value, accepted>>
    BY <1>3 DEF PostResult
  <2>2. \A d \in Calls : Reply(d)' = Reply(d) /\ Offered(d)' = Offered(d)
    BY <1>1, <2>1 DEF Reply, Offered
  <2> QED BY <2>2 DEF Contract!contractVars
<1> QED BY <1>2, <1>3

LEMMA CrashRefines ==
  ASSUME CallInv, NEW w \in Workers, CrashWorker(w)
  PROVE  \E C \in SUBSET Calls : Contract!Abort(C)
<1> DEFINE lost == {c \in Calls : call[c] = "waiting" /\ invocation[c][1].at = w}
<1>1. /\ call' = [c \in Calls |-> IF c \in lost THEN "aborted" ELSE call[c]]
      /\ UNCHANGED <<value, accepted>>
      /\ \A c \in lost : call[c] = "waiting"
      /\ lost \in SUBSET Calls
  BY DEF CrashWorker
<1> HIDE DEF lost
<1>2. \A c \in lost : Reply(c) = "asked"
  BY <1>1 DEF Reply
<1>3. \A c \in Calls : Reply(c)' = IF c \in lost THEN "aborted" ELSE Reply(c)
  BY <1>1 DEF Reply
<1>4. \A c \in Calls : Offered(c)' = Offered(c)
  BY <1>1 DEF Offered
<1>5. Contract!Abort(lost)
  BY <1>1, <1>2, <1>3, <1>4 DEF Contract!Abort
<1> QED BY <1>1, <1>5

LEMMA NextContract ==
  CallInv /\ CallInv' /\ [CallsNext]_vars
    => [Contract!Next]_Contract!contractVars
<1> SUFFICES ASSUME CallInv, CallInv', [CallsNext]_vars
             PROVE  [Contract!Next]_Contract!contractVars
  OBVIOUS
<1>1. ASSUME UNCHANGED <<call, value, accepted>>
      PROVE  UNCHANGED Contract!contractVars
  <2>1. \A d \in Calls : Reply(d)' = Reply(d) /\ Offered(d)' = Offered(d)
    BY <1>1 DEF Reply, Offered
  <2> QED BY <2>1 DEF Contract!contractVars
<1>2. ASSUME NEW c \in Calls, CallNext(c)
      PROVE  Contract!Next \/ UNCHANGED Contract!contractVars
  <2>1. ASSUME NEW w \in Workers, NEW t \in AgentTopics, Invoke(c, w, t)
        PROVE  Contract!Next
    BY <2>1, InvokeRefines DEF Contract!Next
  <2>2. ASSUME TimerFires(c) PROVE UNCHANGED Contract!contractVars
    BY <1>1, <2>2 DEF TimerFires
  <2>3. ASSUME Resume(c) PROVE Contract!Next
    BY <2>3, ResumeRefines DEF Contract!Next
  <2>4. ASSUME NEW w \in Workers, NEW r \in Results, PostResult(c, w, r)
        PROVE  Contract!Next \/ UNCHANGED Contract!contractVars
    BY <2>4, PostRefines DEF Contract!Next
  <2> QED BY <1>2, <2>1, <2>2, <2>3, <2>4 DEF CallNext
<1>3. CASE UNCHANGED callVars
  BY <1>1, <1>3 DEF callVars
<1>4. ASSUME NEW w \in Workers, CrashWorker(w) PROVE Contract!Next
  BY <1>4, CrashRefines DEF Contract!Next
<1> QED BY <1>2, <1>3, <1>4 DEF CallsNext, vars

\* Whatever timers, repeated results, disconnections and crashes do, a caller
\* is answered once, and with a result only if it is the one accepted.
THEOREM ContractSafety == CallSpec => Contract!Safe
<1>1. CallInv /\ CallInv' /\ [CallsNext]_vars
        => [Contract!Next]_Contract!contractVars
  BY NextContract
<1> QED BY CallInvariance, InitContract, <1>1, PTL
        DEF CallSpec, Contract!Safe

=============================================================================
