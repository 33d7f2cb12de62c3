----------------------------- MODULE MCIdentity -----------------------------
(* Instances of Startup and Identity for TLC. *)
EXTENDS Identity, TLC

CONSTANTS w1, w2, r1, r2, r3, ann, long, short

\* Two first visits of one person on two workers, and a request of any other
\* kind that takes its connection from the pool of the first.
ServedBy == (r1 :> w1) @@ (r2 :> w2) @@ (r3 :> w1)
KindsOf == (r1 :> {"jwt"}) @@ (r2 :> {"jwt"})
             @@ (r3 :> {"ready", "none", "machine", "malformed", "no_object"})
SubjectOf == [r \in Requests |-> ann]
ClaimIn == (r1 :> long) @@ (r2 :> short) @@ (r3 :> long)

=============================================================================
