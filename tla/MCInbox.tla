------------------------------ MODULE MCInbox -------------------------------
(* Instances of Timeline and Inbox together for TLC. *)
EXTENDS Inbox, TLC

CONSTANTS m1, m2, m3, m4

\* Some fixed order of the ids.
RankOf == (m1 :> 3) @@ (m2 :> 1) @@ (m3 :> 4) @@ (m4 :> 2)

\* Both ends of the range are clamped.
AskedLimits == {0, 3}

=============================================================================
