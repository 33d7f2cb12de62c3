----------------------------- MODULE WriteOnce ------------------------------
(***************************************************************************)
(* Registers that are written once, without the statements, handlers and   *)
(* lost connections that write and read them: whoever asks for a register  *)
(* is told what it holds, once, and nobody will ever be told otherwise.    *)
(* A register may be written and somebody be told of it in one step.       *)
(***************************************************************************)
CONSTANTS Keys, Values, Askers

VARIABLES
  held,  \* the value of each register: none yet, or one
  told   \* what each asker was told: a register and its value, or nothing

wVars == <<held, told>>

Init ==
  /\ held = [k \in Keys |-> {}]
  /\ told = [a \in Askers |-> {}]

Write(k) ==
  /\ held[k] = {}
  /\ \E v \in Values : held' = [held EXCEPT ![k] = {v}]

\* The value is the one that the register holds at the end of the step.
Tell(a) ==
  /\ told[a] = {}
  /\ \E k \in Keys : \E v \in held'[k] : told' = [told EXCEPT ![a] = {<<k, v>>}]

Next ==
  /\ UNCHANGED told \/ \E a \in Askers : Tell(a)
  /\ UNCHANGED held \/ \E k \in Keys : Write(k)

Spec == Init /\ [][Next]_wVars

=============================================================================
