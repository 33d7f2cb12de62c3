------------------------------- MODULE MCFeed -------------------------------
(* Instances of Feed for TLC. *)
EXTENDS Feed, TLC

CONSTANTS w1, a1, m1

\* The client is always connected to one worker; others take messages as well.
HomeOne == [s \in Streams |-> w1]
OneClient == [s \in Streams |-> a1]
RankOf == [m \in Messages |-> IF m = m1 THEN 2 ELSE 1]

\* One message mentions the agent, the other does not.
OneMention == {m1}

\* The streams of one worker and one client are interchangeable.
FeedSymmetry == Permutations(Streams)

=============================================================================
