-------------------------- MODULE ToolCallContract --------------------------
(***************************************************************************)
(* What contract/WORKSPACE_API.md promises the caller of                   *)
(* POST /agents/{id}/tool-call, free of streams, futures and timers: a     *)
(* call is answered exactly once and in bounded time, and what it answers  *)
(* is the one result that was accepted for it.  "Not connected", "timeout" *)
(* and the loss of the connection are answers as well.                     *)
(***************************************************************************)
CONSTANTS Calls, Results

VARIABLES
  reply,    \* "none", "asked", a result, or why there is none
  offered   \* the results the service said OK to

contractVars == <<reply, offered>>

Init ==
  /\ reply = [c \in Calls |-> "none"]
  /\ offered = [c \in Calls |-> {}]

\* The call is made: it waits, or it is refused at once.
Ask(c) ==
  /\ reply[c] = "none"
  /\ \E a \in {"asked", "not_connected"} : reply' = [reply EXCEPT ![c] = a]
  /\ UNCHANGED offered

\* The first result for a call is accepted, as long as the call waits.
Offer(c, r) ==
  /\ reply[c] = "asked" /\ offered[c] = {}
  /\ offered' = [offered EXCEPT ![c] = {r}]
  /\ UNCHANGED reply

\* The call is answered with the result, or times out.
Settle(c) ==
  /\ reply[c] = "asked"
  /\ \E a \in offered[c] \cup {"timeout"} : reply' = [reply EXCEPT ![c] = a]
  /\ UNCHANGED offered

\* Several callers may lose their connection at once.
Abort(C) ==
  /\ \A c \in C : reply[c] = "asked"
  /\ reply' = [c \in Calls |-> IF c \in C THEN "aborted" ELSE reply[c]]
  /\ UNCHANGED offered

Next ==
  \/ \E c \in Calls : Ask(c) \/ Settle(c) \/ \E r \in Results : Offer(c, r)
  \/ \E C \in SUBSET Calls : Abort(C)

Safe == Init /\ [][Next]_contractVars

Spec == /\ Safe
        /\ \A c \in Calls : WF_contractVars(Settle(c))

=============================================================================
