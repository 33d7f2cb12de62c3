------------------------------ MODULE Timeline ------------------------------
(***************************************************************************)
(* read_channel of app/services/messaging.py: clients page through the     *)
(* history of one channel while messages are being written to it.          *)
(*                                                                         *)
(* send_message takes created_at from the clock before it sends its        *)
(* INSERT, so messages may become visible in another order than that of    *)
(* their timestamps, and several may carry the same one.  Each page is a   *)
(* single SELECT, which sees the rows committed when it is executed.       *)
(*                                                                         *)
(* A cursor is the key (created_at, id) of the last message of a page; its *)
(* encoding is a bijection, and what is not an encoding is answered 400.   *)
(***************************************************************************)
EXTENDS Integers, Sequences, FiniteSets

CONSTANTS
  Messages,  \* the messages ever sent to the channel
  Rank,      \* the order of their ids
  Readers,   \* clients, each walking through the history once
  Limits,    \* the page sizes they ask for, one per request
  MaxLimit,  \* the largest page, 200
  MaxClock,  \* bound: ticks of the clock
  MaxPages   \* bound: pages of one walk, more than it can have

ASSUME TimelineAssumption ==
  /\ IsFiniteSet(Messages)
  /\ Rank \in [Messages -> Nat]
  /\ \A m, n \in Messages : Rank[m] = Rank[n] => m = n
  /\ Limits \subseteq Int
  /\ MaxLimit \in Nat \ {0}
  /\ MaxClock \in Nat
  /\ MaxPages \in Nat /\ MaxPages > Cardinality(Messages)

VARIABLES
  clock,       \* what now_iso() returns
  created_at,  \* the timestamp of each message, 0 before it has one
  rows,        \* the messages committed
  walk,        \* "idle", "paging" or "done", for each reader
  cursor,      \* the cursor each reader presents next, <<>> for none
  pages,       \* the pages each reader was given, in order
  present      \* history: the messages stored when its walk began

writerVars == <<clock, created_at, rows>>
readerVars == <<walk, cursor, pages, present>>
vars == <<writerVars, readerVars>>

Init ==
  /\ clock = 1
  /\ created_at = [m \in Messages |-> 0]
  /\ rows = {}
  /\ walk = [r \in Readers |-> "idle"]
  /\ cursor = [r \in Readers |-> <<>>]
  /\ pages = [r \in Readers |-> <<>>]
  /\ present = [r \in Readers |-> {}]

-----------------------------------------------------------------------------
(* The order of the rows.                                                  *)

\* What a cursor encodes, and decodes to again: created_at|id.
Key(m) == <<created_at[m], Rank[m]>>

\* The row comparison (created_at, id) < (created_at, id).
Less(a, b) == a[1] < b[1] \/ (a[1] = b[1] /\ a[2] < b[2])

\* The cursor's own row matches again.
Beyond_Inclusive(c) == {m \in rows : c = <<>> \/ ~Less(Key(m), c)}

\* Ties on created_at are not told apart.
Beyond_TimeOnly(c) == {m \in rows : c = <<>> \/ c[1] < created_at[m]}

\* The rows the SELECT ranges over: all of them, or those after the cursor.
Beyond(c) == {m \in rows : c = <<>> \/ Less(c, Key(m))}

\* ORDER BY created_at, id LIMIT k: P are the first k members of S.
First(P, S, k) ==
  /\ Cardinality(P) = IF Cardinality(S) < k THEN Cardinality(S) ELSE k
  /\ \A m \in P, n \in S \ P : Less(Key(m), Key(n))

Last(m, P) == m \in P /\ \A n \in P \ {m} : Less(Key(n), Key(m))

-----------------------------------------------------------------------------
(* Writing.                                                                *)

Tick ==
  /\ clock < MaxClock
  /\ clock' = clock + 1
  /\ UNCHANGED <<created_at, rows, readerVars>>

\* send_message: the INSERT is made up, with the time of its making.
Stamp(m) ==
  /\ created_at[m] = 0
  /\ created_at' = [created_at EXCEPT ![m] = clock]
  /\ UNCHANGED <<clock, rows, readerVars>>

\* The INSERT is executed.
Commit(m) ==
  /\ created_at[m] # 0 /\ m \notin rows
  /\ rows' = rows \cup {m}
  /\ UNCHANGED <<clock, created_at, readerVars>>

-----------------------------------------------------------------------------
(* Reading.                                                                *)

\* A limit that is not lowered to the maximum.
Clamped_NoCeiling(l) == IF l < 1 THEN 1 ELSE l

\* max(1, min(limit, 200))
Clamped(l) == IF l > MaxLimit THEN MaxLimit ELSE IF l < 1 THEN 1 ELSE l

\* One row beyond the page is fetched; len(rows) > limit if there is one.
HasMore(S, k) == Cardinality(S) > k

\* The cursor is taken from the first message of the page.
CursorRow_First(m, P) == m \in P /\ \A n \in P \ {m} : Less(Key(m), Key(n))

\* page[-1]
CursorRow(m, P) == Last(m, P)

\* One page, and the cursor of the next one unless there is no more.
Page(r, S, P, k) ==
  /\ pages' = [pages EXCEPT ![r] = Append(@, P)]
  /\ \/ /\ HasMore(S, k)
        /\ \E m \in P : /\ CursorRow(m, P)
                        /\ cursor' = [cursor EXCEPT ![r] = Key(m)]
        /\ walk' = [walk EXCEPT ![r] = "paging"]
     \/ /\ ~HasMore(S, k) \/ P = {}
        /\ walk' = [walk EXCEPT ![r] = "done"]
        /\ UNCHANGED cursor

\* GET /channels/{id}/messages and GET /dms/{id}/messages.
Read(r) ==
  LET S == Beyond(cursor[r])
  IN  /\ walk[r] # "done" /\ Len(pages[r]) < MaxPages
      /\ \E l \in Limits : \E P \in SUBSET S :
           First(P, S, Clamped(l)) /\ Page(r, S, P, Clamped(l))
      /\ present' = IF walk[r] = "idle" THEN [present EXCEPT ![r] = rows]
                                        ELSE present
      /\ UNCHANGED writerVars

-----------------------------------------------------------------------------

Next ==
  \/ Tick
  \/ \E m \in Messages : Stamp(m) \/ Commit(m)
  \/ \E r \in Readers : Read(r)

\* A client that has begun to page presents the cursor it was given.  Nobody
\* need begin, and a send may be lost before its INSERT is executed.
Fairness == \A r \in Readers : WF_vars(walk[r] = "paging" /\ Read(r))

Spec == Init /\ [][Next]_vars /\ Fairness

-----------------------------------------------------------------------------
(* Properties.                                                             *)

\* Every variable has its type, and no page is longer than the maximum.
TypeOK ==
  /\ clock \in Nat
  /\ created_at \in [Messages -> Nat]
  /\ rows \subseteq Messages
  /\ walk \in [Readers -> {"idle", "paging", "done"}]
  /\ cursor \in [Readers -> {<<>>} \cup (Nat \X Nat)]
  /\ pages \in [Readers -> Seq(SUBSET Messages)]
  /\ \A r \in Readers : \A i \in DOMAIN pages[r] :
       Cardinality(pages[r][i]) <= MaxLimit
  /\ present \in [Readers -> SUBSET Messages]

\* Pages only move forward, and list no message twice: what a page lists comes
\* after all that was listed before, also when older messages were committed
\* between the two requests.
PagesMoveForward ==
  \A r \in Readers : \A i, j \in DOMAIN pages[r] : i < j =>
    \A m \in pages[r][i], n \in pages[r][j] : Less(Key(m), Key(n))

Listed(r) == UNION {pages[r][i] : i \in DOMAIN pages[r]}

\* A message that was stored when a walk began is not skipped: it has been
\* listed, or the next cursor still lies before it; so a finished walk has
\* listed them all, also those that share a timestamp across a page boundary.
NothingSkipped ==
  \A r \in Readers : \A m \in present[r] \ Listed(r) :
    walk[r] = "paging" /\ Less(cursor[r], Key(m))

\* Cursors, limits and the look-ahead row implement paging: every page is what
\* comes next after all that was listed, whole up to its last message, and a
\* walk ends with the page that lists everything ahead of it, and no other.
Hist == INSTANCE History WITH
  stamp <- [m \in rows |-> created_at[m]],
  listed <- [r \in Readers |-> Listed(r)],
  over <- {r \in Readers : walk[r] = "done"}
ImplementsHistory == Hist!Spec

\* Paging comes to an end, for every page size a client asks for.
WalkEnds == \A r \in Readers : (walk[r] = "paging") ~> (walk[r] = "done")

=============================================================================
