----------------------------- MODULE Messaging ------------------------------
(***************************************************************************)
(* send_message of app/services/messaging.py, as several worker processes  *)
(* run it against one database.                                            *)
(*                                                                         *)
(* The handler suspends at its SELECT and at its INSERT, each a statement  *)
(* of its own that commits by itself (app/db.py, execute and fetchrow); it *)
(* does not suspend between the INSERT's return and the answer, so publish *)
(* and the answer are one step.  The INSERT is sent as soon as the SELECT  *)
(* found nothing, and from then on the database may execute it whatever    *)
(* becomes of the handler: the connection may break or the worker may die  *)
(* before the statement runs, or after.                                    *)
(*                                                                         *)
(* A slot is a pair of a channel and an idempotency key.  A retry is a     *)
(* request of its own for the same slot; it may overlap the first one.     *)
(* uuid4 gives every request a fresh message id: the request itself.       *)
(***************************************************************************)
EXTENDS Naturals

CONSTANTS
  Requests,  \* the POSTs ever made
  Slots,     \* pairs of a channel and an idempotency key
  SlotOf,    \* the slot each request names
  Workers,   \* worker processes
  WorkerOf,  \* the worker that serves each request
  Absent     \* no message

ASSUME MessagingAssumption ==
  /\ SlotOf \in [Requests -> Slots]
  /\ WorkerOf \in [Requests -> Workers]
  /\ Absent \notin Requests

VARIABLES
  rows,      \* the messages stored, by their ids
  inflight,  \* the INSERT statements the database has not executed yet
  phase,     \* where each handler is, and the kind of its answer
  id,        \* the message id of each answer
  emitted,   \* history: message.created events published for each message
  faulted    \* history: the requests that lost their database connection

vars == <<rows, inflight, phase, id, emitted, faulted>>

Init ==
  /\ rows = {}
  /\ inflight = {}
  /\ phase = [r \in Requests |-> "idle"]
  /\ id = [r \in Requests |-> Absent]
  /\ emitted = [r \in Requests |-> 0]
  /\ faulted = {}

\* The messages stored in slot k.
InSlot(k) == {m \in rows : SlotOf[m] = k}

\* A lookup by the key alone, whatever the channel.
Found_AnyRow(r) == rows

\* SELECT ... WHERE channel_id = $1 AND idempotency_key = $2
Found(r) == InSlot(SlotOf[r])

-----------------------------------------------------------------------------

\* The request arrives and its SELECT is executed.  A replay is answered 200
\* with the row found; else the INSERT is sent.
Lookup(r) ==
  /\ phase[r] = "idle"
  /\ \/ /\ Found(r) = {}
        /\ phase' = [phase EXCEPT ![r] = "inserting"]
        /\ inflight' = inflight \cup {r}
        /\ UNCHANGED id
     \/ \E m \in Found(r) :
          /\ phase' = [phase EXCEPT ![r] = "replayed"]
          /\ id' = [id EXCEPT ![r] = m]
          /\ UNCHANGED inflight
  /\ UNCHANGED <<rows, emitted, faulted>>

\* A table without UNIQUE (channel_id, idempotency_key).
RowsAfterInsert_NotUnique(r) == rows \cup {r}

\* The unique constraint rejects a second row for the slot.
RowsAfterInsert(r) == IF InSlot(SlotOf[r]) = {} THEN rows \cup {r} ELSE rows

\* The database executes the INSERT and commits, or rejects it.
Insert(r) ==
  /\ r \in inflight
  /\ inflight' = inflight \ {r}
  /\ rows' = RowsAfterInsert(r)
  /\ UNCHANGED <<phase, id, emitted, faulted>>

\* The event is forgotten.
Publish_Nothing(r) == UNCHANGED emitted

Publish(r) == emitted' = [emitted EXCEPT ![r] = @ + 1]

\* The handler publishes without looking at the outcome of its INSERT.
Inserted_Ignored(r) == TRUE

Inserted(r) == r \in rows

\* The INSERT returned: publish and answer 201; or it raised: no handler
\* catches the unique violation, and the answer is 500.
Finish(r) ==
  /\ phase[r] = "inserting" /\ r \notin inflight
  /\ IF Inserted(r)
     THEN /\ Publish(r)
          /\ phase' = [phase EXCEPT ![r] = "created"]
          /\ id' = [id EXCEPT ![r] = r]
     ELSE /\ phase' = [phase EXCEPT ![r] = "error"]
          /\ UNCHANGED <<emitted, id>>
  /\ UNCHANGED <<rows, inflight, faulted>>

\* The statement the handler waits for fails with its connection: 500.  An
\* INSERT may have been executed, may still be, or may be lost.
LoseConnection(r) ==
  /\ phase[r] \in {"idle", "inserting"}
  /\ phase' = [phase EXCEPT ![r] = "error"]
  /\ faulted' = faulted \cup {r}
  /\ UNCHANGED <<rows, inflight, id, emitted>>

\* A worker dies in the middle of its requests: nobody is answered.
Crash(w) ==
  /\ phase' = [r \in Requests |->
       IF WorkerOf[r] = w /\ phase[r] = "inserting" THEN "lost" ELSE phase[r]]
  /\ UNCHANGED <<rows, inflight, id, emitted, faulted>>

-----------------------------------------------------------------------------

Next ==
  \/ \E r \in Requests :
       Lookup(r) \/ Insert(r) \/ Finish(r) \/ LoseConnection(r)
  \/ \E w \in Workers : Crash(w)

\* The database executes the statement a living handler waits for, and the
\* event loop resumes the handler.  A statement whose handler is gone may
\* never reach the database.
Fairness ==
  \A r \in Requests : /\ WF_vars(phase[r] = "inserting" /\ Insert(r))
                      /\ WF_vars(Finish(r))

Spec == Init /\ [][Next]_vars /\ Fairness

-----------------------------------------------------------------------------
(* Properties.                                                             *)

\* Every variable has its type.
TypeOK ==
  /\ rows \subseteq Requests
  /\ inflight \subseteq Requests
  /\ phase \in [Requests -> {"idle", "inserting", "created", "replayed",
                             "error", "lost"}]
  /\ id \in [Requests -> Requests \cup {Absent}]
  /\ emitted \in [Requests -> {0, 1}]
  /\ faulted \subseteq Requests

Acked(r) == phase[r] \in {"created", "replayed"}

\* Whoever is answered for the same channel and key is given the same id,
\* however the attempts overlapped, and that id is a message of the channel.
AcksAgree ==
  \A r \in Requests : Acked(r) =>
    /\ id[r] \in InSlot(SlotOf[r])
    /\ \A q \in Requests : Acked(q) /\ SlotOf[q] = SlotOf[r] => id[q] = id[r]

\* One slot is announced at most once, and only after its row is committed: a
\* replay, a lost race or a failed INSERT never reaches the stream.
AnnouncedOnce ==
  \A r \in Requests : emitted[r] > 0 =>
    /\ r \in rows
    /\ emitted[r] = 1
    /\ \A q \in Requests \ {r} : SlotOf[q] = SlotOf[r] => emitted[q] = 0

\* A stored message is announced, unless its own handler was cut off: another
\* request never takes its place on the stream or keeps it off.
StoredIsAnnounced ==
  \A r \in Requests :
    (r \in rows) ~> (emitted[r] = 1 \/ r \in faulted \/ phase[r] = "lost")

\* The message in slot k, as the clients know it.
RowOf(k) == IF InSlot(k) = {} THEN Absent ELSE CHOOSE m \in InSlot(k) : TRUE

Log == INSTANCE IdempotentLog WITH
  log <- [k \in Slots |-> RowOf(k)],
  ack <- id

\* send_message implements the idempotent log, crashes, lost connections and
\* overlapping retries included.
ImplementsLog == Log!Spec

\* contract/WORKSPACE_API.md "return the original message_id + timestamp if
\* the same key arrives twice", wiki/DATA_MODEL.md "retries are safe": unless
\* the database fails it, a request is never answered with a server error.
RetriesAreSafe ==
  \A r \in Requests : phase[r] = "error" => r \in faulted

=============================================================================
