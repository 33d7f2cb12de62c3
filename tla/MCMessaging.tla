----------------------------- MODULE MCMessaging ----------------------------
(* Instances of Messaging for TLC. *)
EXTENDS Messaging, TLC

CONSTANTS p1, p2, p3, p4, k1, k2, w1, w2

\* Three attempts at one message and one at another one, on two workers.
Attempts == (p1 :> k1) @@ (p2 :> k1) @@ (p3 :> k1) @@ (p4 :> k2)
Balanced == (p1 :> w1) @@ (p2 :> w2) @@ (p3 :> w1) @@ (p4 :> w2)

=============================================================================
