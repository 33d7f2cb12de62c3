------------------------------- MODULE Inbox --------------------------------
(***************************************************************************)
(* check_messages of app/routers/messages.py: an agent polls for the       *)
(* messages that mention it, beside the writers and readers of Timeline.   *)
(*                                                                         *)
(* A comment in the handler also speaks of the channels the agent is the   *)
(* sole member of; the SELECT does not, and nothing else is listed.        *)
(*                                                                         *)
(* The handler is one SELECT and keeps nothing.  A client that polls       *)
(* presents the timestamp of the last message it was given, so what it is  *)
(* given depends on timestamps alone: messages of one timestamp are not    *)
(* told apart, and the SELECT may return them in any order.                *)
(***************************************************************************)
EXTENDS Timeline

CONSTANTS
  Mentions,   \* the messages that mention the agent
  Pollers,    \* clients that poll for it
  InboxLimit  \* LIMIT 200

ASSUME InboxAssumption ==
  /\ Mentions \subseteq Messages
  /\ InboxLimit \in Nat \ {0}

VARIABLES
  since,   \* the timestamp each client presents, 0 to omit it
  polls,   \* the answers each client was given that were not empty, in order
  late     \* history: mentions committed behind the timestamp presented

inboxVars == <<since, polls, late>>
allVars == <<vars, inboxVars>>

InboxInit ==
  /\ Init
  /\ since = [p \in Pollers |-> 0]
  /\ polls = [p \in Pollers |-> <<>>]
  /\ late = [p \in Pollers |-> {}]

\* The timestamp presented matches again.
Matching_Inclusive(p) == {m \in rows \cap Mentions : created_at[m] >= since[p]}

\* A window that ends before the present moment.
Matching_BeforeNow(p) ==
  {m \in rows \cap Mentions : created_at[m] > since[p] /\ created_at[m] < clock}

\* WHERE mentions @> [agent_id] AND created_at > since
Matching(p) == {m \in rows \cap Mentions : created_at[m] > since[p]}

\* LIMIT without ORDER BY.
Oldest_Unordered(P, S) == TRUE

\* ORDER BY created_at: no message of S is older than one of P.
Oldest(P, S) == \A m \in P, n \in S \ P : created_at[m] <= created_at[n]

\* A poll that finds nothing changes nothing.  A client is given at most as
\* many answers as there are messages, which the bound exceeds.
Poll(p) ==
  LET S == Matching(p)
  IN  /\ Len(polls[p]) < MaxPages
      /\ \E P \in (SUBSET S) \ {{}} :
           /\ Oldest(P, S)
           /\ Cardinality(P) =
                IF Cardinality(S) < InboxLimit THEN Cardinality(S) ELSE InboxLimit
           /\ polls' = [polls EXCEPT ![p] = Append(@, P)]
           /\ \E m \in P : /\ \A n \in P : created_at[n] <= created_at[m]
                           /\ since' = [since EXCEPT ![p] = created_at[m]]
      /\ UNCHANGED <<late, vars>>

\* What a step of a writer or of a reader of the history is for the inbox.
Overtake ==
  /\ late' = [p \in Pollers |-> late[p] \cup
                {m \in (rows' \ rows) \cap Mentions : created_at[m] <= since[p]}]
  /\ UNCHANGED <<since, polls>>

InboxNext == (Next /\ Overtake) \/ \E p \in Pollers : Poll(p)

\* Bridges poll "at a 10s interval".
InboxSpec ==
  /\ InboxInit /\ [][InboxNext]_allVars
  /\ \A r \in Readers : WF_allVars(walk[r] = "paging" /\ Read(r) /\ Overtake)
  /\ \A p \in Pollers : WF_allVars(Poll(p))

-----------------------------------------------------------------------------
(* Properties.                                                             *)

\* Every variable has its type, those of Timeline included; an agent is given mentions of its
\* own only.
InboxTypeOK ==
  /\ TypeOK
  /\ since \in [Pollers -> Nat]
  /\ polls \in [Pollers -> Seq(SUBSET Mentions)]
  /\ late \in [Pollers -> SUBSET Mentions]

\* A poll goes on after all that was given before: no mention is given twice,
\* and none that is older than one already given.
PollsMoveForward ==
  \A p \in Pollers : \A i, j \in DOMAIN polls[p] : i < j =>
    \A m \in polls[p][i], n \in polls[p][j] : created_at[m] < created_at[n]

Given(p) == UNION {polls[p][i] : i \in DOMAIN polls[p]}

\* The last timestamp of a full answer was shared by a message left out of it.
CutInTie(p, m) ==
  \E i \in DOMAIN polls[p] :
    /\ Cardinality(polls[p][i]) = InboxLimit
    /\ \E n \in polls[p][i] : created_at[n] = created_at[m]
    /\ \A n \in polls[p][i] : created_at[n] <= created_at[m]

\* What a client is not given, and will not be given, is a mention that was
\* committed later than its timestamp was passed, or one of several of equal
\* timestamp at the end of a full answer.  Nothing else is ever missed.
MissedOnlyIfLateOrTied ==
  \A p \in Pollers : \A m \in (rows \cap Mentions) \ Given(p) :
    created_at[m] > since[p] \/ m \in late[p] \/ CutInTie(p, m)

\* A client that keeps polling catches up with the writers, time and again.
InboxCatchesUp ==
  \A p \in Pollers : []<>(\A m \in rows \cap Mentions : created_at[m] <= since[p])

=============================================================================
