----------------------------- MODULE MCToolCall -----------------------------
(* Instances of ToolCall for TLC. *)
EXTENDS ToolCall, TLC

CONSTANT w1

\* Every stream is on the first worker; the second one only serves requests.
HomeOne == [s \in Streams |-> w1]

=============================================================================
