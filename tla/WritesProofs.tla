---------------------------- MODULE WritesProofs -----------------------------
(***************************************************************************)
(* Proofs about Messaging, for any number of requests, slots and workers,  *)
(* and then about Reactions, for any reactors, beside any sends: reactions *)
(* leave the invariant of the messages alone, and whoever is told ok has   *)
(* had its reaction announced.                                             *)
(***************************************************************************)
EXTENDS Reactions, TLAPS

-----------------------------------------------------------------------------
(* Messages.                                                               *)

\* The constraint UNIQUE (channel_id, idempotency_key).
UniqueRows == \A m, n \in rows : SlotOf[m] = SlotOf[n] => m = n

\* What a handler has done by the time it is in each phase.
HandlerInv ==
  \A r \in Requests :
    /\ r \in inflight => r \notin rows
    /\ phase[r] = "idle" => r \notin rows \cup inflight
    /\ phase[r] = "created" => r \in rows /\ id[r] = r /\ emitted[r] = 1
    /\ phase[r] # "created" => emitted[r] = 0
    /\ Acked(r) => id[r] \in rows /\ SlotOf[id[r]] = SlotOf[r]
    /\ ~Acked(r) => id[r] = Absent

\* The inductive invariant.  The lookup's answer is stale by the time the
\* INSERT runs, so what makes the answers agree is UniqueRows, and that an
\* answer is only ever given with a row that is already there.
IInv == TypeOK /\ UniqueRows /\ HandlerInv

LEMMA InitIInv == Init => IInv
BY MessagingAssumption
   DEF Init, IInv, TypeOK, UniqueRows, HandlerInv, Acked

LEMMA LookupIInv == ASSUME IInv, NEW r \in Requests, Lookup(r) PROVE IInv'
<1> USE MessagingAssumption DEF IInv, TypeOK
<1>1. rows' = rows /\ emitted' = emitted /\ faulted' = faulted
  BY DEF Lookup
<1>2. CASE /\ Found(r) = {}
           /\ phase' = [phase EXCEPT ![r] = "inserting"]
           /\ inflight' = inflight \cup {r}
           /\ UNCHANGED id
  <2>1. phase[r] = "idle"
    BY DEF Lookup
  <2>2. TypeOK' /\ UniqueRows'
    BY <1>1, <1>2 DEF UniqueRows
  <2>3. HandlerInv'
    BY <1>1, <1>2, <2>1 DEF HandlerInv, Acked
  <2> QED BY <2>2, <2>3
<1>3. ASSUME NEW m \in Found(r),
             phase' = [phase EXCEPT ![r] = "replayed"],
             id' = [id EXCEPT ![r] = m],
             UNCHANGED inflight
      PROVE  IInv'
  <2>1. m \in rows /\ SlotOf[m] = SlotOf[r] /\ phase[r] = "idle"
    BY DEF Found, InSlot, Lookup
  <2>2. TypeOK' /\ UniqueRows'
    BY <1>1, <1>3, <2>1 DEF UniqueRows
  <2>3. HandlerInv'
    BY <1>1, <1>3, <2>1 DEF HandlerInv, Acked
  <2> QED BY <2>2, <2>3
<1> QED BY <1>2, <1>3 DEF Lookup

LEMMA InsertIInv == ASSUME IInv, NEW r \in Requests, Insert(r) PROVE IInv'
<1> USE MessagingAssumption DEF IInv, TypeOK
<1>1. /\ UNCHANGED <<phase, id, emitted, faulted>>
      /\ r \in inflight /\ inflight' = inflight \ {r}
  BY DEF Insert
<1>2. CASE InSlot(SlotOf[r]) = {}
  <2>1. rows' = rows \cup {r}
    BY <1>2 DEF Insert, RowsAfterInsert
  <2>2. \A m \in rows : SlotOf[m] # SlotOf[r]
    BY <1>2 DEF InSlot
  <2>3. TypeOK' /\ UniqueRows'
    BY <1>1, <2>1, <2>2 DEF UniqueRows
  <2>4. HandlerInv'
    BY <1>1, <2>1 DEF HandlerInv, Acked
  <2> QED BY <2>3, <2>4
<1>3. CASE InSlot(SlotOf[r]) # {}
  <2>1. rows' = rows
    BY <1>3 DEF Insert, RowsAfterInsert
  <2> QED BY <1>1, <2>1 DEF UniqueRows, HandlerInv, Acked
<1> QED BY <1>2, <1>3

LEMMA FinishIInv == ASSUME IInv, NEW r \in Requests, Finish(r) PROVE IInv'
<1> USE MessagingAssumption DEF IInv, TypeOK
<1>1. /\ phase[r] = "inserting" /\ r \notin inflight
      /\ UNCHANGED <<rows, inflight, faulted>>
  BY DEF Finish
<1>2. UniqueRows'
  BY <1>1 DEF UniqueRows
<1>3. CASE Inserted(r)
  <2>1. /\ r \in rows
        /\ emitted' = [emitted EXCEPT ![r] = @ + 1]
        /\ phase' = [phase EXCEPT ![r] = "created"]
        /\ id' = [id EXCEPT ![r] = r]
    BY <1>3 DEF Finish, Inserted, Publish
  <2>2. emitted[r] = 0
    BY <1>1 DEF HandlerInv
  <2>3. TypeOK'
    BY <1>1, <2>1, <2>2
  <2>4. HandlerInv'
    BY <1>1, <2>1, <2>2 DEF HandlerInv, Acked
  <2> QED BY <1>2, <2>3, <2>4
<1>4. CASE ~Inserted(r)
  <2>1. /\ phase' = [phase EXCEPT ![r] = "error"]
        /\ UNCHANGED <<emitted, id>>
    BY <1>4 DEF Finish
  <2> QED BY <1>1, <1>2, <2>1 DEF HandlerInv, Acked
<1> QED BY <1>3, <1>4

LEMMA LoseConnectionIInv ==
  ASSUME IInv, NEW r \in Requests, LoseConnection(r) PROVE IInv'
BY MessagingAssumption
   DEF IInv, TypeOK, LoseConnection, UniqueRows, HandlerInv, Acked

LEMMA CrashIInv == ASSUME IInv, NEW w \in Workers, Crash(w) PROVE IInv'
BY MessagingAssumption DEF IInv, TypeOK, Crash, UniqueRows, HandlerInv, Acked

LEMMA NextIInv == IInv /\ [Next]_vars => IInv'
<1> SUFFICES ASSUME IInv, [Next]_vars PROVE IInv'
  OBVIOUS
<1>1. CASE UNCHANGED vars
  BY <1>1 DEF vars, IInv, TypeOK, UniqueRows, HandlerInv, Acked
<1>2. ASSUME NEW r \in Requests,
             Lookup(r) \/ Insert(r) \/ Finish(r) \/ LoseConnection(r)
      PROVE  IInv'
  BY <1>2, LookupIInv, InsertIInv, FinishIInv, LoseConnectionIInv
<1>3. ASSUME NEW w \in Workers, Crash(w)
      PROVE  IInv'
  BY <1>3, CrashIInv
<1> QED BY <1>1, <1>2, <1>3 DEF Next

\* The inductive invariant holds of every behaviour of send_message.
THEOREM Invariance == Spec => []IInv
<1>1. IInv /\ [Next]_vars => IInv'
  BY NextIInv
<1> QED BY InitIInv, <1>1, PTL DEF Spec

-----------------------------------------------------------------------------

LEMMA InvImpliesProperties ==
  IInv => AcksAgree /\ AnnouncedOnce
<1> SUFFICES ASSUME IInv
             PROVE  AcksAgree /\ AnnouncedOnce
  OBVIOUS
<1> USE MessagingAssumption DEF IInv, TypeOK
<1>1. AcksAgree
  <2> SUFFICES ASSUME NEW r \in Requests, Acked(r)
               PROVE  /\ id[r] \in InSlot(SlotOf[r])
                      /\ \A q \in Requests :
                           Acked(q) /\ SlotOf[q] = SlotOf[r] => id[q] = id[r]
    BY DEF AcksAgree
  <2>1. \A q \in Requests :
          Acked(q) => id[q] \in rows /\ SlotOf[id[q]] = SlotOf[q]
    BY DEF HandlerInv
  <2>2. id[r] \in InSlot(SlotOf[r])
    BY <2>1 DEF InSlot
  <2>3. ASSUME NEW q \in Requests, Acked(q), SlotOf[q] = SlotOf[r]
        PROVE  id[q] = id[r]
    BY <2>1, <2>3 DEF UniqueRows
  <2> QED BY <2>2, <2>3
<1>2. AnnouncedOnce
  <2>1. \A r \in Requests : emitted[r] > 0 => emitted[r] = 1 /\ r \in rows
    BY DEF HandlerInv
  <2>2. \A q \in Requests : emitted[q] = 0 \/ emitted[q] > 0
    OBVIOUS
  <2> QED BY <2>1, <2>2 DEF AnnouncedOnce, UniqueRows
<1> QED BY <1>1, <1>2

\* Two answers for the same channel and idempotency key carry the same
\* message id, and that message is stored in that channel.
THEOREM AcksAgreeAlways == Spec => []AcksAgree
BY Invariance, InvImpliesProperties, PTL

\* At most one message.created event is published for a channel and key, and
\* only for a row that is committed.
THEOREM AnnouncedOnceAlways == Spec => []AnnouncedOnce
BY Invariance, InvImpliesProperties, PTL

\* Every variable keeps its type.
THEOREM TypeCorrect == Spec => []TypeOK
<1>1. IInv => TypeOK
  BY DEF IInv
<1> QED BY Invariance, <1>1, PTL

-----------------------------------------------------------------------------
(* The refinement.                                                         *)

\* A slot shows the message that is stored in it.
LEMMA RowOfStored ==
  ASSUME UniqueRows, NEW m \in rows
  PROVE  RowOf(SlotOf[m]) = m
<1>1. m \in InSlot(SlotOf[m])
  BY DEF InSlot
<1>2. \A n \in InSlot(SlotOf[m]) : n = m
  BY DEF UniqueRows, InSlot
<1> QED BY <1>1, <1>2 DEF RowOf

\* A slot without a row shows none.
LEMMA RowOfFree == ASSUME NEW k, InSlot(k) = {} PROVE RowOf(k) = Absent
BY DEF RowOf

LEMMA InitRefines == Init => Log!Init
<1> SUFFICES ASSUME Init PROVE Log!Init
  OBVIOUS
<1>1. \A k \in Slots : InSlot(k) = {}
  BY DEF Init, InSlot
<1>2. \A k \in Slots : RowOf(k) = Absent
  BY <1>1, RowOfFree
<1> QED BY <1>2 DEF Init, Log!Init

\* A step that stores nothing leaves every slot as it was.
LEMMA SameRowsSameLog ==
  rows' = rows => [k \in Slots |-> RowOf(k)]' = [k \in Slots |-> RowOf(k)]
BY DEF RowOf, InSlot

\* An answer that names the row of its slot is an Acknowledge step.
LEMMA AnswerRefines ==
  ASSUME IInv, NEW r \in Requests, NEW m \in rows,
         SlotOf[m] = SlotOf[r], ~Acked(r), rows' = rows,
         id' = [id EXCEPT ![r] = m]
  PROVE  Log!Acknowledge(r)
<1>1. RowOf(SlotOf[r]) = m
  BY RowOfStored DEF IInv
<1>2. SlotOf[r] \in Slots /\ m # Absent
  BY MessagingAssumption DEF IInv, TypeOK
<1>3. id[r] = Absent
  BY DEF IInv, HandlerInv
<1> QED BY <1>1, <1>2, <1>3, SameRowsSameLog DEF Log!Acknowledge

LEMMA InsertRefines ==
  ASSUME IInv, IInv', NEW r \in Requests, Insert(r)
  PROVE  Log!Store(r) \/ UNCHANGED Log!logVars
<1>1. id' = id
  BY DEF Insert
<1>2. CASE InSlot(SlotOf[r]) = {}
  <2>1. rows' = rows \cup {r}
    BY <1>2 DEF Insert, RowsAfterInsert
  <2>2. SlotOf[r] \in Slots /\ RowOf(SlotOf[r]) = Absent
    BY <1>2, RowOfFree, MessagingAssumption
  <2>3. ASSUME NEW k \in Slots, k # SlotOf[r] PROVE RowOf(k)' = RowOf(k)
    <3>1. InSlot(k)' = InSlot(k)
      BY <2>1, <2>3 DEF InSlot
    <3> QED BY <3>1 DEF RowOf
  <2>4. RowOf(SlotOf[r])' = r
    <3>1. InSlot(SlotOf[r])' = {r}
      BY <1>2, <2>1 DEF InSlot
    <3> QED BY <3>1 DEF RowOf
  <2>5. [k \in Slots |-> RowOf(k)]'
          = [[k \in Slots |-> RowOf(k)] EXCEPT ![SlotOf[r]] = r]
    BY <2>2, <2>3, <2>4
  <2> QED BY <1>1, <2>2, <2>5 DEF Log!Store
<1>3. CASE InSlot(SlotOf[r]) # {}
  <2>1. rows' = rows
    BY <1>3 DEF Insert, RowsAfterInsert
  <2> QED BY <1>1, <2>1, SameRowsSameLog DEF Log!logVars
<1> QED BY <1>2, <1>3

LEMMA NextRefines ==
  IInv /\ IInv' /\ [Next]_vars => [Log!Next]_Log!logVars
<1> SUFFICES ASSUME IInv, IInv', [Next]_vars
             PROVE  [Log!Next]_Log!logVars
  OBVIOUS
<1>1. ASSUME rows' = rows, id' = id PROVE UNCHANGED Log!logVars
  BY <1>1, SameRowsSameLog DEF Log!logVars
<1>2. CASE UNCHANGED vars
  BY <1>1, <1>2 DEF vars
<1>3. ASSUME NEW r \in Requests, Lookup(r)
      PROVE  Log!Next \/ UNCHANGED Log!logVars
  <2>1. rows' = rows /\ ~Acked(r)
    BY <1>3 DEF Lookup, Acked
  <2>2. CASE UNCHANGED id
    BY <1>1, <2>1, <2>2
  <2>3. ASSUME NEW m \in Found(r), id' = [id EXCEPT ![r] = m]
        PROVE  Log!Next
    <3>1. m \in rows /\ SlotOf[m] = SlotOf[r]
      BY DEF Found, InSlot
    <3> QED BY <2>1, <2>3, <3>1, AnswerRefines DEF Log!Next
  <2> QED BY <1>3, <2>2, <2>3 DEF Lookup
<1>4. ASSUME NEW r \in Requests, Insert(r)
      PROVE  Log!Next \/ UNCHANGED Log!logVars
  BY <1>4, InsertRefines DEF Log!Next
<1>5. ASSUME NEW r \in Requests, Finish(r)
      PROVE  Log!Next \/ UNCHANGED Log!logVars
  <2>1. rows' = rows /\ ~Acked(r)
    BY <1>5 DEF Finish, Acked
  <2>2. CASE Inserted(r)
    <3>1. r \in rows /\ id' = [id EXCEPT ![r] = r]
      BY <1>5, <2>2 DEF Finish, Inserted
    <3> QED BY <2>1, <3>1, AnswerRefines DEF Log!Next
  <2>3. CASE ~Inserted(r)
    BY <1>1, <1>5, <2>1, <2>3 DEF Finish
  <2> QED BY <2>2, <2>3
<1>6. ASSUME NEW r \in Requests, LoseConnection(r)
      PROVE  UNCHANGED Log!logVars
  BY <1>1, <1>6 DEF LoseConnection
<1>7. ASSUME NEW w \in Workers, Crash(w)
      PROVE  UNCHANGED Log!logVars
  BY <1>1, <1>7 DEF Crash
<1> QED BY <1>2, <1>3, <1>4, <1>5, <1>6, <1>7 DEF Next

\* send_message implements the idempotent log: whatever overlaps, breaks or
\* crashes, a slot holds one message and every answer names it.
THEOREM Refinement == Spec => ImplementsLog
<1>1. IInv /\ IInv' /\ [Next]_vars => [Log!Next]_Log!logVars
  BY NextRefines
<1> QED BY Invariance, InitRefines, <1>1, PTL
        DEF Spec, ImplementsLog, Log!Spec

-----------------------------------------------------------------------------
(* Reactions.                                                              *)

\* A handler whose INSERT was executed has its row.
RowInv ==
  \A r \in Reacts : /\ answer[r] = "inserting" => r \in sent \cup reactions
                    /\ answer[r] = "ok" => r \in told

\* The inductive invariant.
ReactInv == IInv /\ ReactionTypeOK /\ RowInv

\* One of the columns is NULL, so the constraint rejects nothing.
LEMMA NeverViolates == \A r \in Reacts : ~Violates(r)
<1> SUFFICES ASSUME NEW r \in Reacts, Violates(r) PROVE FALSE
  OBVIOUS
<1>1. PICK q \in reactions :
        \A i \in 1 .. 2 : Columns(q)[i] = Columns(r)[i] /\ Columns(q)[i] # Null
  BY DEF Violates
<1>2. Columns(r)[1] # Null /\ Columns(r)[2] # Null
  BY <1>1
<1> QED BY <1>2 DEF Columns

LEMMA InitReact == ReactionInit => ReactInv
<1>1. IInv => TypeOK
  BY DEF IInv
<1> QED BY <1>1, InitIInv DEF ReactionInit, ReactInv, ReactionTypeOK, RowInv

LEMMA NextReact == ReactInv /\ [ReactionNext]_allVars => ReactInv'
<1> SUFFICES ASSUME ReactInv, [ReactionNext]_allVars PROVE ReactInv'
  OBVIOUS
<1>1. [Next]_vars => IInv' /\ TypeOK'
  <2>1. IInv' => TypeOK'
    BY DEF IInv
  <2> QED BY <2>1, NextIInv DEF ReactInv
<1>2. ASSUME SendNext, UNCHANGED reactionVars PROVE ReactInv'
  <2>1. Next
    BY <1>2 DEF SendNext, Next
  <2> QED BY <1>1, <1>2, <2>1 DEF ReactInv, ReactionTypeOK, RowInv, reactionVars
<1>3. ASSUME NEW r \in Reacts, React(r) PROVE ReactInv'
  BY <1>1, <1>3 DEF ReactInv, ReactionTypeOK, RowInv, React
<1>4. ASSUME NEW r \in Reacts, InsertReaction(r) PROVE ReactInv'
  <2>1. reactions' = reactions \cup {r}
    BY <1>4, NeverViolates DEF InsertReaction, Stored
  <2> QED BY <1>1, <1>4, <2>1 DEF ReactInv, ReactionTypeOK, RowInv, InsertReaction
<1>5. ASSUME NEW r \in Reacts, FinishReaction(r) PROVE ReactInv'
  <2>1. told' = told \cup {r} /\ r \in reactions
    BY <1>5 DEF FinishReaction, ToldAfter, ReactInv, RowInv
  <2> QED BY <1>1, <1>5, <2>1 DEF ReactInv, ReactionTypeOK, RowInv, FinishReaction
<1>6. ASSUME NEW r \in Reacts, FailReaction(r) PROVE ReactInv'
  BY <1>1, <1>6 DEF ReactInv, ReactionTypeOK, RowInv, FailReaction
<1>7. ASSUME NEW w \in Workers, CrashWorker(w) PROVE ReactInv'
  <2>1. Next
    BY <1>7 DEF CrashWorker, Next
  <2> QED BY <1>1, <1>7, <2>1 DEF ReactInv, ReactionTypeOK, RowInv, CrashWorker
<1>8. CASE UNCHANGED allVars
  BY <1>1, <1>8 DEF allVars, reactionVars, ReactInv, ReactionTypeOK, RowInv
<1> QED BY <1>2, <1>3, <1>4, <1>5, <1>6, <1>7, <1>8 DEF ReactionNext

\* Messages and reactions keep their invariants when both are written.
THEOREM ReactionInvariance == ReactionSpec => []ReactInv
BY InitReact, NextReact, PTL DEF ReactionSpec

\* Every variable of the reactions keeps its type; only what is stored is told.
THEOREM ReactionTypeCorrect == ReactionSpec => []ReactionTypeOK
<1>1. ReactInv => ReactionTypeOK
  BY DEF ReactInv
<1> QED BY ReactionInvariance, <1>1, PTL

\* Whoever is told ok has had its reaction announced.
THEOREM OkIsToldAlways == ReactionSpec => []OkIsTold
<1>1. ReactInv => OkIsTold
  BY DEF ReactInv, RowInv, OkIsTold, Same
<1> QED BY ReactionInvariance, <1>1, PTL

=============================================================================
