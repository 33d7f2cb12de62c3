----------------------------- MODULE MCReactions ----------------------------
(* Instances of Messaging and Reactions together for TLC. *)
EXTENDS Reactions, MCMessaging

CONSTANTS x1, x2, h1

\* The same reaction twice, to the message of the first attempt.
TargetOf == (x1 :> p1) @@ (x2 :> p1)
ReactorOf == (x1 :> h1) @@ (x2 :> h1)
ServedByOf == (x1 :> w1) @@ (x2 :> w2)

=============================================================================
