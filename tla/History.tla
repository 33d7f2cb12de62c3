------------------------------ MODULE History -------------------------------
(***************************************************************************)
(* What paging through a channel is, free of cursors, limits and SELECTs:  *)
(* a reader turns a page and is shown the messages that come next, none    *)
(* left out, in the order of their time and id; when nothing comes next it *)
(* has finished.  Messages appear at any place in that order, also behind  *)
(* a reader, who does not turn back for them.                              *)
(***************************************************************************)
EXTENDS Naturals

CONSTANTS Messages, Rank, Readers

VARIABLES
  stamp,   \* the time of each message that is there
  listed,  \* the messages each reader has been shown
  over     \* the readers that have finished

histVars == <<stamp, listed, over>>

Init ==
  /\ stamp = [m \in {} |-> 0]
  /\ listed = [r \in Readers |-> {}]
  /\ over = {}

Before(m, n) == stamp[m] < stamp[n] \/ (stamp[m] = stamp[n] /\ Rank[m] < Rank[n])

\* A message appears, with some time of its own.
Write(m) ==
  /\ m \notin DOMAIN stamp
  /\ DOMAIN stamp' = DOMAIN stamp \cup {m}
  /\ stamp'[m] \in Nat
  /\ \A n \in DOMAIN stamp : stamp'[n] = stamp[n]
  /\ UNCHANGED <<listed, over>>

\* What comes after all that reader r has been shown.
Ahead(r) == {m \in DOMAIN stamp : \A n \in listed[r] : Before(n, m)}

\* Reader r is shown P, the messages that come next.
Turn(r, P) ==
  /\ r \notin over
  /\ P = {} => Ahead(r) = {}
  /\ \A m \in P, n \in Ahead(r) \ P : Before(m, n)
  /\ listed' = [listed EXCEPT ![r] = @ \cup P]
  /\ over' = IF P = Ahead(r) THEN over \cup {r} ELSE over
  /\ UNCHANGED stamp

Next ==
  \/ \E m \in Messages : Write(m)
  \/ \E r \in Readers : \E P \in SUBSET Ahead(r) : Turn(r, P)

Spec == Init /\ [][Next]_histVars

=============================================================================
