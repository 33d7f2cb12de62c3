------------------------------ MODULE ToolCall ------------------------------
(***************************************************************************)
(* The tool-call rendezvous: invoke_tool and report_tool_call_result of    *)
(* app/routers/agents.py over the futures of app/event_bus.py, composed    *)
(* with the bus that carries the invocation to the target's bridge.        *)
(*                                                                         *)
(* invoke_tool suspends in one place, wait_for(fut, 60).  In Python 3.12   *)
(* (Dockerfile) that is `async with timeout(60): return await fut`: the    *)
(* timer cancels the waiting task.  A pending future is cancelled with it; *)
(* a future that was resolved in the same turn of the loop keeps its       *)
(* result, but the task still resumes with the cancellation, which         *)
(* wait_for reports as TimeoutError.                                       *)
(*                                                                         *)
(* A call id lives in _pending_tool_calls of the worker that minted it.    *)
(***************************************************************************)
EXTENDS EventBus

CONSTANTS
  Calls,     \* call ids, minted by uuid4 and never reused
  Results,   \* what a bridge may post for a call
  MaxPosts   \* bound: posts that bridges make for one call

ASSUME CallAssumption ==
  /\ MaxPosts \in Nat
  /\ Results \cap {"none", "asked", "not_connected", "timeout", "aborted"} = {}

VARIABLES
  call,        \* the state of the request, and the kind of its answer
  invocation,  \* the tool_call.invoked event published for each call
  pending,     \* the keys of _pending_tool_calls, of all workers
  fut,         \* the state of each call's future
  value,       \* the value the future was resolved with
  expired,     \* whether wait_for's timer has cancelled the waiting task
  accepted,    \* history: the posts answered with 200, in order
  posts        \* history: number of posts made

callVars == <<call, invocation, pending, fut, value, expired, accepted, posts>>
vars == <<busVars, callVars>>

Answers == {"result", "not_connected", "timeout", "aborted"}

CallInit ==
  /\ Init
  /\ call = [c \in Calls |-> "idle"]
  /\ invocation = [c \in Calls |-> <<>>]
  /\ pending = {}
  /\ fut = [c \in Calls |-> "pending"]
  /\ value = [c \in Calls |-> <<>>]
  /\ expired = [c \in Calls |-> FALSE]
  /\ accepted = [c \in Calls |-> <<>>]
  /\ posts = [c \in Calls |-> 0]

-----------------------------------------------------------------------------
(* invoke_tool.                                                            *)

\* A subscriber that was just dropped counts as reached.
Connected_CountsDropped(w, t) == Targets(w, t) # {}

\* The count of the queues reached is off by one.
Connected_MoreThanOne(w, t) == Cardinality(Delivered(w, t)) > 1

\* publish delivered the event to at least one queue.
Connected(w, t) == Delivered(w, t) # {}

\* The request up to its first suspension: mint the call, publish, and wait;
\* or answer 404 and forget the future.
Invoke(c, w, t) ==
  /\ call[c] = "idle"
  /\ t \in AgentTopics
  /\ Publish(w, t)
  /\ invocation' = [invocation EXCEPT
       ![c] = <<[at |-> w, topic |-> t, n |-> published[w][t] + 1]>>]
  /\ IF Connected(w, t)
     THEN /\ call' = [call EXCEPT ![c] = "waiting"]
          /\ pending' = pending \cup {c}
     ELSE /\ call' = [call EXCEPT ![c] = "not_connected"]
          /\ UNCHANGED pending
  /\ UNCHANGED <<fut, value, expired, accepted, posts>>

\* The timer cancels a task without cancelling what it waits for.
FutAfterTimer_Shielded(c) == fut[c]

\* Cancelling the task cancels the future it awaits, unless that is done.
FutAfterTimer(c) == IF fut[c] = "pending" THEN "cancelled" ELSE fut[c]

\* The 60 seconds are over.
TimerFires(c) ==
  /\ call[c] = "waiting" /\ ~expired[c]
  /\ expired' = [expired EXCEPT ![c] = TRUE]
  /\ fut' = [fut EXCEPT ![c] = FutAfterTimer(c)]
  /\ UNCHANGED <<call, invocation, pending, value, accepted, posts>>
  /\ UNCHANGED busVars

\* asyncio.TimeoutError is not the TimeoutError that is caught.
Outcome_Uncaught(c) == IF expired[c] THEN "error" ELSE "result"

\* A cancelled wait is answered as if it had a result.
Outcome_IgnoresTimer(c) == "result"

Outcome(c) == IF expired[c] THEN "timeout" ELSE "result"

\* The handler forgets cancel_tool_call.
PendingAfter_Leaks(c) == pending

\* cancel_tool_call, on a timeout only.
PendingAfter(c) == IF expired[c] THEN pending \ {c} ELSE pending

\* The future is done, the task is resumed and answers its caller.
Resume(c) ==
  /\ call[c] = "waiting" /\ fut[c] # "pending"
  /\ call' = [call EXCEPT ![c] = Outcome(c)]
  /\ pending' = PendingAfter(c)
  /\ UNCHANGED <<invocation, fut, value, expired, accepted, posts>>
  /\ UNCHANGED busVars

-----------------------------------------------------------------------------
(* report_tool_call_result.                                                *)

\* A bridge has read the invocation of call c from its stream.
Known(c) ==
  /\ invocation[c] # <<>>
  /\ \E s \in Streams : \E i \in DOMAIN received[s] :
       received[s][i] = invocation[c][1]

\* resolve_tool_call finds the call in the dictionary of this worker.
Finds(c, w) == c \in pending /\ invocation[c][1].at = w

\* The waiter may have been cancelled already.
Accepts_Unchecked(c, w) == Finds(c, w)

Accepts(c, w) == Finds(c, w) /\ fut[c] = "pending"

\* A bridge posts a result; the proxy hands it to any worker.  200 if it is
\* accepted, else 404.
PostResult(c, w, r) ==
  /\ Known(c) /\ posts[c] < MaxPosts
  /\ posts' = [posts EXCEPT ![c] = @ + 1]
  /\ pending' = IF Finds(c, w) THEN pending \ {c} ELSE pending
  /\ IF Accepts(c, w)
     THEN /\ fut' = [fut EXCEPT ![c] = IF @ = "pending" THEN "set" ELSE @]
          /\ value' = [value EXCEPT ![c] = <<r>>]
          /\ accepted' = [accepted EXCEPT ![c] = Append(@, r)]
     ELSE UNCHANGED <<fut, value, accepted>>
  /\ UNCHANGED <<call, invocation, expired>>
  /\ UNCHANGED busVars

-----------------------------------------------------------------------------

\* The worker dies with its streams, its futures and its waiting requests.
CrashWorker(w) ==
  LET lost == {c \in Calls : call[c] = "waiting" /\ invocation[c][1].at = w}
  IN  /\ Crash(w)
      /\ call' = [c \in Calls |-> IF c \in lost THEN "aborted" ELSE call[c]]
      /\ pending' = pending \ lost
      /\ UNCHANGED <<invocation, fut, value, expired, accepted, posts>>

CallNext(c) ==
  \/ \E w \in Workers, t \in AgentTopics : Invoke(c, w, t)
  \/ TimerFires(c)
  \/ Resume(c)
  \/ \E w \in Workers, r \in Results : PostResult(c, w, r)

CallsNext ==
  \/ \E c \in Calls : CallNext(c)
  \/ \E s \in Streams : StreamNext(s) /\ UNCHANGED callVars
  \/ \E w \in Workers : CrashWorker(w)

\* The event loop runs due timers and resumes tasks whose future is done.
\* Bridges need not answer, nor even read their stream.
CallSpec ==
  /\ CallInit /\ [][CallsNext]_vars
  /\ \A c \in Calls : WF_vars(TimerFires(c)) /\ WF_vars(Resume(c))

-----------------------------------------------------------------------------
(* Properties.                                                             *)

\* Every variable of the rendezvous has its type; a call that was made has an
\* invocation.
CallTypeOK ==
  /\ call \in [Calls -> {"idle", "waiting"} \cup Answers]
  /\ DOMAIN invocation = Calls
  /\ \A c \in Calls : call[c] # "idle" =>
       \E e \in [at : Workers, topic : AgentTopics, n : 1 .. MaxPublished] :
         invocation[c] = <<e>>
  /\ pending \subseteq Calls
  /\ fut \in [Calls -> {"pending", "set", "cancelled"}]
  /\ value \in [Calls -> Seq(Results)]
  /\ expired \in [Calls -> BOOLEAN]
  /\ accepted \in [Calls -> Seq(Results)]
  /\ posts \in [Calls -> 0 .. MaxPosts]

\* The dictionary of pending calls holds no call that was answered (it would
\* stay for ever), and a handler whose future is still open is in it (or no
\* post could wake it).
PendingMatchesWaiters ==
  \A c \in Calls :
    /\ c \in pending => call[c] = "waiting"
    /\ call[c] = "waiting" /\ fut[c] = "pending" => c \in pending

\* A bridge is told OK only if its result is in the future the caller waits
\* on; a late, repeated or misrouted post is refused, never half accepted.
AcceptedIsKept ==
  \A c \in Calls : accepted[c] # <<>> => /\ fut[c] = "set"
                                         /\ accepted[c] = value[c]

\* A call answered with a result has the one result a bridge was told OK for.
AnswerIsGenuine ==
  \A c \in Calls : call[c] = "result" => /\ Len(accepted[c]) = 1
                                         /\ accepted[c] = value[c]

\* Stream s has the invocation of call c, or had it when its client left.
Holds(s, c) == \E i \in DOMAIN Trail(s) : Trail(s)[i] = invocation[c][1]

\* "Target agent is not connected" is never said of an invocation that a
\* bridge has or will get, so a tool never runs for a call that was refused.
RefusedNeverRuns ==
  \A c \in Calls : call[c] = "not_connected" => \A s \in Streams : ~Holds(s, c)

\* A caller is made to wait only if the invocation was queued for a bridge:
\* some stream of the target has it, or has closed since.
WaitsForSomebody ==
  \A c \in Calls : call[c] \in {"waiting", "timeout", "result"} =>
    \E s \in Streams : /\ invocation[c][1].topic \in topics[s]
                       /\ s \in gone \/ Holds(s, c)

\* What the caller of c has been told, and what the bridges were told OK for.
Reply(c) ==
  CASE call[c] = "idle" -> "none"
    [] call[c] = "waiting" -> "asked"
    [] call[c] = "result" -> value[c][1]
    [] OTHER -> call[c]

Offered(c) == {accepted[c][i] : i \in DOMAIN accepted[c]}

Contract == INSTANCE ToolCallContract WITH
  reply <- [c \in Calls |-> Reply(c)],
  offered <- [c \in Calls |-> Offered(c)]

\* The rendezvous implements the contract: one answer per call, given in
\* bounded time, and a result only if it is the one that was accepted.
ImplementsContract == Contract!Spec

\* An invocation, or any other event, that is queued for a bridge is read by
\* that bridge, or the bridge leaves; given the fairness of EventBus, which the
\* rendezvous itself does without.
QueuedReachesBridge == Fairness => QueuedIsDelivered

\* The queue of a bridge that left is taken off the bus, so that calls to its
\* agent are refused instead of timing out; given the same fairness.
LeaversAreReaped == Fairness => GoneIsReaped

\* app/event_bus.py, resolve_tool_call "Returns True if a waiter was found and
\* resolved", and tests/test_agents_tool_call.py "the caller sees the result
\* after B reports it back": a call for which a result was accepted is not
\* answered with a timeout.
AcceptedReachesCaller ==
  \A c \in Calls : accepted[c] # <<>> => call[c] # "timeout"

=============================================================================
