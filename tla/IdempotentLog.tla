--------------------------- MODULE IdempotentLog ----------------------------
(***************************************************************************)
(* What contract/WORKSPACE_API.md promises of an idempotent write: a slot, *)
(* that is a channel and an idempotency key, holds one message for ever,   *)
(* and whoever is acknowledged for a slot is given that message.           *)
(***************************************************************************)
CONSTANTS
  Requests,  \* the POSTs; the message a POST may store is named after it
  Slots,     \* pairs of a channel and an idempotency key
  SlotOf,    \* the slot each request names
  Absent     \* no message

VARIABLES
  log,       \* the message in each slot
  ack        \* the message each request was acknowledged with

logVars == <<log, ack>>

Init ==
  /\ log = [k \in Slots |-> Absent]
  /\ ack = [r \in Requests |-> Absent]

Store(r) ==
  /\ log[SlotOf[r]] = Absent
  /\ log' = [log EXCEPT ![SlotOf[r]] = r]
  /\ UNCHANGED ack

Acknowledge(r) ==
  /\ ack[r] = Absent
  /\ log[SlotOf[r]] # Absent
  /\ ack' = [ack EXCEPT ![r] = log[SlotOf[r]]]
  /\ UNCHANGED log

Next == \E r \in Requests : Store(r) \/ Acknowledge(r)

Spec == Init /\ [][Next]_logVars

=============================================================================
