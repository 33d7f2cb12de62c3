----------------------------- MODULE MCEventBus -----------------------------
(* Instances of EventBus for TLC. *)
EXTENDS EventBus, TLC

CONSTANTS w1, w2, s1, s2

\* Every connection on one worker: the workers that are not in use are idle.
HomeOne == [s \in Streams |-> w1]

\* One connection on each of two workers.
HomeTwo == (s1 :> w1) @@ (s2 :> w2)

=============================================================================
