---------------------------- MODULE Subscription ----------------------------
(***************************************************************************)
(* What a stream of events is to its client, free of queues, subscriber    *)
(* lists, frames and heartbeats: a client that has joined reads            *)
(* of every topic it asked for the events that its worker publishes from   *)
(* then on, one by one and none left out, for as long as it is there.  How *)
(* far it gets is not promised: a slow client may stop hearing of a topic. *)
(***************************************************************************)
EXTENDS Naturals, Sequences

CONSTANTS Workers, Streams, Home, Topics

VARIABLES
  published,  \* how many events each worker has published on each topic
  joined,     \* the streams that were opened
  topics,     \* what each of them asked for
  since,      \* what had been published when it was opened
  received,   \* what its client has read
  gone        \* the streams whose client has left

subVars == <<published, joined, topics, since, received, gone>>

Init ==
  /\ published = [w \in Workers |-> [t \in Topics |-> 0]]
  /\ joined = {}
  /\ topics = [s \in Streams |-> {}]
  /\ since = [s \in Streams |-> published]
  /\ received = [s \in Streams |-> <<>>]
  /\ gone = {}

Publish(w, t) ==
  /\ published' = [published EXCEPT ![w][t] = @ + 1]
  /\ UNCHANGED <<joined, topics, since, received, gone>>

Join(s, T) ==
  /\ s \notin joined
  /\ joined' = joined \cup {s}
  /\ topics' = [topics EXCEPT ![s] = T]
  /\ since' = [since EXCEPT ![s] = published]
  /\ UNCHANGED <<published, received, gone>>

\* The numbers of the events of topic t that the client of s has read.
Heard(s, t) ==
  {received[s][i].n : i \in {j \in DOMAIN received[s] : received[s][j].topic = t}}

\* The client of s reads the event that is next on topic t.
Deliver(s, t, n) ==
  /\ s \in joined \ gone
  /\ t \in topics[s]
  /\ since[s][Home[s]][t] < n /\ n <= published[Home[s]][t]
  /\ Heard(s, t) = (since[s][Home[s]][t] + 1) .. (n - 1)
  /\ received' = [received EXCEPT ![s] =
                    Append(@, [at |-> Home[s], topic |-> t, n |-> n])]
  /\ UNCHANGED <<published, joined, topics, since, gone>>

\* Clients leave, several at once when their worker dies.
Leave(S) ==
  /\ S \subseteq joined
  /\ gone' = gone \cup S
  /\ UNCHANGED <<published, joined, topics, since, received>>

Next ==
  \/ \E w \in Workers, t \in Topics : Publish(w, t)
  \/ \E s \in Streams :
       \/ \E T \in SUBSET Topics : Join(s, T)
       \/ \E t \in topics[s] : \E n \in 1 .. published[Home[s]][t] : Deliver(s, t, n)
  \/ \E S \in SUBSET Streams : Leave(S)

Spec == Init /\ [][Next]_subVars

=============================================================================
