---------------------------- MODULE MCDirectory -----------------------------
(* Instances of Directory for TLC. *)
EXTENDS Directory, TLC

CONSTANTS c1, d1, d2, p1, p2

\* The channel created has the name of the pair's DM channel.
TitleOf == c1 :> {p1, p2}

NoTitle == [c \in {} |-> {}]

\* One request of each side of a pair.
ActorOf == (d1 :> p1) @@ (d2 :> p2)
PeerOf == (d1 :> p2) @@ (d2 :> p1)

=============================================================================
