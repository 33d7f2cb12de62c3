--------------------------- MODULE TimelineProofs ---------------------------
(***************************************************************************)
(* Proofs about Timeline, for any finite set of messages, any page sizes   *)
(* and any number of readers: type correctness, and that the pages of a    *)
(* walk move forward and skip nothing that was stored when it began.       *)
(***************************************************************************)
EXTENDS Timeline, SequenceTheorems, FiniteSetTheorems, TLAPS

(* Keys are ordered. *)

LEMMA LessTransitive ==
  \A a, b, c \in Nat \X Nat : ~Less(b, a) /\ Less(b, c) => Less(a, c)
BY DEF Less

LEMMA LessAsymmetric ==
  \A a, b \in Nat \X Nat : Less(a, b) => ~Less(b, a)
BY DEF Less

LEMMA LessIrreflexive == \A a \in Nat \X Nat : ~Less(a, a)
BY DEF Less

LEMMA KeyType == ASSUME TypeOK, NEW m \in Messages PROVE Key(m) \in Nat \X Nat
BY TimelineAssumption DEF TypeOK, Key

\* The key of a row is not mistaken for "no cursor".
LEMMA KeyIsNotEmpty == \A a \in Nat \X Nat : a # <<>>
<1> SUFFICES ASSUME NEW x \in Nat, NEW y \in Nat, <<x, y>> = <<>> PROVE FALSE
  OBVIOUS
<1>1. <<x, y>> \in Seq(Nat) /\ Len(<<x, y>>) = 2
  OBVIOUS
<1>2. Len(<<x, y>>) = 0
  BY <1>1, EmptySeq
<1> QED BY <1>1, <1>2

\* What a SELECT returns: a set of messages, and its first page.
LEMMA PageSize ==
  ASSUME NEW S, S \subseteq Messages, NEW P \in SUBSET S, NEW l \in Limits,
         First(P, S, Clamped(l))
  PROVE  /\ Cardinality(P) <= MaxLimit
         /\ ~HasMore(S, Clamped(l)) => P = S
         /\ HasMore(S, Clamped(l)) => P # {} /\ P # S
<1>1. Clamped(l) \in 1 .. MaxLimit
  BY TimelineAssumption DEF Clamped
<1>2. IsFiniteSet(S) /\ Cardinality(S) \in Nat
  BY FS_Subset, FS_CardinalityType, TimelineAssumption
<1>3. Cardinality(P) = IF Cardinality(S) < Clamped(l) THEN Cardinality(S)
                                                      ELSE Clamped(l)
  BY DEF First
<1>4. Cardinality(P) <= MaxLimit
  BY <1>1, <1>2, <1>3, TimelineAssumption
<1>5. ASSUME ~HasMore(S, Clamped(l)) PROVE P = S
  <2>1. Cardinality(P) = Cardinality(S)
    BY <1>1, <1>2, <1>3, <1>5 DEF HasMore
  <2> QED BY <1>2, <2>1, FS_Subset
<1>6. ASSUME HasMore(S, Clamped(l)) PROVE P # {} /\ P # S
  <2>1. Cardinality(P) # 0 /\ Cardinality(P) # Cardinality(S)
    BY <1>1, <1>2, <1>3, <1>6 DEF HasMore
  <2> QED BY <2>1, FS_EmptySet
<1> QED BY <1>4, <1>5, <1>6

-----------------------------------------------------------------------------
(* Types. *)

LEMMA InitType == Init => TypeOK
BY EmptySeq DEF Init, TypeOK

\* The parts of a Read step.
LEMMA ReadIs ==
  ASSUME TypeOK, NEW r \in Readers, Read(r)
  PROVE  \E P \in SUBSET Beyond(cursor[r]) :
           /\ pages' = [pages EXCEPT ![r] = Append(@, P)]
           /\ Cardinality(P) <= MaxLimit
           /\ \A m \in P, n \in Beyond(cursor[r]) \ P : Less(Key(m), Key(n))
           /\ \/ /\ P # Beyond(cursor[r])
                 /\ \E m \in P :
                      /\ \A n \in P \ {m} : Less(Key(n), Key(m))
                      /\ cursor' = [cursor EXCEPT ![r] = Key(m)]
                 /\ walk' = [walk EXCEPT ![r] = "paging"]
              \/ /\ P = Beyond(cursor[r])
                 /\ walk' = [walk EXCEPT ![r] = "done"]
                 /\ cursor' = cursor
<1> DEFINE S == Beyond(cursor[r])
<1>1. PICK l \in Limits, P \in SUBSET S :
        First(P, S, Clamped(l)) /\ Page(r, S, P, Clamped(l))
  BY DEF Read
<1>2. S \subseteq Messages
  BY DEF Beyond, TypeOK
<1> HIDE DEF S
<1>3. /\ Cardinality(P) <= MaxLimit
      /\ ~HasMore(S, Clamped(l)) => P = S
      /\ HasMore(S, Clamped(l)) => P # {} /\ P # S
  BY <1>1, <1>2, PageSize
<1>4. \A m \in P, n \in S \ P : Less(Key(m), Key(n))
  BY <1>1 DEF First
<1>5. pages' = [pages EXCEPT ![r] = Append(@, P)]
  BY <1>1 DEF Page
<1>6. \/ /\ P # S
         /\ \E m \in P : /\ \A n \in P \ {m} : Less(Key(n), Key(m))
                         /\ cursor' = [cursor EXCEPT ![r] = Key(m)]
         /\ walk' = [walk EXCEPT ![r] = "paging"]
      \/ /\ P = S
         /\ walk' = [walk EXCEPT ![r] = "done"]
         /\ cursor' = cursor
  BY <1>1, <1>3 DEF Page, CursorRow, Last
<1> QED BY <1>3, <1>4, <1>5, <1>6 DEF S

LEMMA ReadType ==
  ASSUME TypeOK, NEW r \in Readers, Read(r) PROVE TypeOK'
<1>1. PICK P \in SUBSET Beyond(cursor[r]) :
        /\ pages' = [pages EXCEPT ![r] = Append(@, P)]
        /\ Cardinality(P) <= MaxLimit
        /\ \/ /\ \E m \in P : cursor' = [cursor EXCEPT ![r] = Key(m)]
              /\ walk' = [walk EXCEPT ![r] = "paging"]
           \/ /\ walk' = [walk EXCEPT ![r] = "done"]
              /\ cursor' = cursor
  BY ReadIs
<1>2. P \in SUBSET Messages
  BY DEF Beyond, TypeOK
<1>3. UNCHANGED <<clock, created_at, rows>>
  BY DEF Read, writerVars
<1>4. walk' \in [Readers -> {"idle", "paging", "done"}]
  BY <1>1 DEF TypeOK
<1>5. cursor' \in [Readers -> {<<>>} \cup (Nat \X Nat)]
  <2>1. ASSUME NEW m \in P, cursor' = [cursor EXCEPT ![r] = Key(m)]
        PROVE  cursor' \in [Readers -> {<<>>} \cup (Nat \X Nat)]
    <3>1. Key(m) \in Nat \X Nat
      BY <1>2, KeyType
    <3> QED BY <2>1, <3>1 DEF TypeOK
  <2>2. ASSUME cursor' = cursor
        PROVE  cursor' \in [Readers -> {<<>>} \cup (Nat \X Nat)]
    BY <2>2 DEF TypeOK
  <2> QED BY <1>1, <2>1, <2>2
<1>6. present' \in [Readers -> SUBSET Messages]
  BY DEF Read, TypeOK
<1>7. /\ pages' \in [Readers -> Seq(SUBSET Messages)]
      /\ \A q \in Readers : \A i \in DOMAIN pages'[q] :
           Cardinality(pages'[q][i]) <= MaxLimit
  <2>1. pages[r] \in Seq(SUBSET Messages)
    BY DEF TypeOK
  <2>2. /\ Append(pages[r], P) \in Seq(SUBSET Messages)
        /\ DOMAIN Append(pages[r], P) = 1 .. (Len(pages[r]) + 1)
        /\ DOMAIN pages[r] = 1 .. Len(pages[r])
        /\ Len(pages[r]) \in Nat
        /\ \A i \in 1 .. Len(pages[r]) : Append(pages[r], P)[i] = pages[r][i]
        /\ Append(pages[r], P)[Len(pages[r]) + 1] = P
    BY <1>2, <2>1, AppendProperties, LenProperties
  <2>3. \A i \in DOMAIN Append(pages[r], P) :
          Cardinality(Append(pages[r], P)[i]) <= MaxLimit
    BY <1>1, <2>2 DEF TypeOK
  <2> QED BY <1>1, <2>2, <2>3 DEF TypeOK
<1> QED BY <1>3, <1>4, <1>5, <1>6, <1>7 DEF TypeOK

LEMMA NextType == TypeOK /\ [Next]_vars => TypeOK'
<1> SUFFICES ASSUME TypeOK, [Next]_vars PROVE TypeOK'
  OBVIOUS
<1>1. CASE Tick
  BY <1>1 DEF TypeOK, Tick, readerVars
<1>2. ASSUME NEW m \in Messages, Stamp(m) PROVE TypeOK'
  BY <1>2 DEF TypeOK, Stamp, readerVars
<1>3. ASSUME NEW m \in Messages, Commit(m) PROVE TypeOK'
  BY <1>3 DEF TypeOK, Commit, readerVars
<1>4. ASSUME NEW r \in Readers, Read(r) PROVE TypeOK'
  BY <1>4, ReadType
<1>5. CASE UNCHANGED vars
  BY <1>5 DEF TypeOK, vars, writerVars, readerVars
<1> QED BY <1>1, <1>2, <1>3, <1>4, <1>5 DEF Next

\* Every variable keeps its type, and no page outgrows the maximum.
THEOREM TypeCorrect == Spec => []TypeOK
BY InitType, NextType, PTL DEF Spec

-----------------------------------------------------------------------------
(* What a walk has listed. *)

Forward(r) ==
  \A i, j \in DOMAIN pages[r] : i < j =>
    \A m \in pages[r][i], n \in pages[r][j] : Less(Key(m), Key(n))

Unskipped(r) ==
  \A m \in present[r] \ Listed(r) : walk[r] = "paging" /\ Less(cursor[r], Key(m))

\* The cursor of a walk is the key of a row that it has listed; it lies at or
\* behind all those that it has listed, and before all that it is yet to list.
WalkInv(r) ==
  /\ present[r] \subseteq rows
  /\ \A i \in DOMAIN pages[r] : pages[r][i] \subseteq rows
  /\ walk[r] = "idle" => /\ cursor[r] = <<>>
                         /\ pages[r] = <<>>
                         /\ present[r] = {}
  /\ walk[r] = "paging" =>
       /\ cursor[r] \in Nat \X Nat
       /\ \A i \in DOMAIN pages[r] : \A m \in pages[r][i] :
            ~Less(cursor[r], Key(m))
       /\ \E m \in Listed(r) : cursor[r] = Key(m)
  /\ Forward(r)
  /\ Unskipped(r)

\* The inductive invariant.  Only rows are listed, and a row has its timestamp
\* already, so that keys that matter never change.
IInv ==
  /\ TypeOK
  /\ \A m \in rows : created_at[m] # 0
  /\ \A r \in Readers : WalkInv(r)

\* A walk is not disturbed by a step that leaves it and the rows' keys alone.
LEMMA WalkUndisturbed ==
  ASSUME NEW r \in Readers, WalkInv(r), rows \subseteq rows',
         \A m \in rows : Key(m)' = Key(m),
         walk'[r] = walk[r], cursor'[r] = cursor[r],
         pages'[r] = pages[r], present'[r] = present[r]
  PROVE  WalkInv(r)'
<1>1. \A i \in DOMAIN pages[r] : \A m \in pages[r][i] : Key(m)' = Key(m)
  BY DEF WalkInv
<1>2. \A m \in present[r] : Key(m)' = Key(m)
  BY DEF WalkInv
<1>3. Listed(r)' = Listed(r)
  BY DEF Listed
<1>4. Forward(r)'
  BY <1>1 DEF WalkInv, Forward
<1>5. Unskipped(r)'
  <2>1. \A m \in present[r] \ Listed(r) :
          walk[r] = "paging" /\ Less(cursor[r], Key(m))
    BY DEF WalkInv, Unskipped
  <2>2. \A m \in present[r] : Less(cursor[r], Key(m))' <=> Less(cursor[r], Key(m))
    BY <1>2 DEF Less
  <2> QED BY <1>3, <2>1, <2>2 DEF Unskipped
<1>6. \A i \in DOMAIN pages[r] : \A m \in pages[r][i] :
        Less(cursor[r], Key(m))' <=> Less(cursor[r], Key(m))
  BY <1>1 DEF Less
<1>7. walk[r] = "paging" => \E m \in Listed(r) : cursor[r] = Key(m)'
  <2>1. \A m \in Listed(r) : Key(m)' = Key(m)
    BY <1>1 DEF Listed
  <2> QED BY <2>1 DEF WalkInv
<1> QED BY <1>3, <1>4, <1>5, <1>6, <1>7 DEF WalkInv

LEMMA ReadWalk ==
  ASSUME IInv, NEW r \in Readers, Read(r) PROVE WalkInv(r)'
<1> DEFINE S == Beyond(cursor[r])
           old == pages[r]
           K == Len(old) + 1
<1>1. PICK P \in SUBSET S :
        /\ pages' = [pages EXCEPT ![r] = Append(@, P)]
        /\ \A m \in P, n \in S \ P : Less(Key(m), Key(n))
        /\ \/ /\ \E m \in P :
                   /\ \A n \in P \ {m} : Less(Key(n), Key(m))
                   /\ cursor' = [cursor EXCEPT ![r] = Key(m)]
              /\ walk' = [walk EXCEPT ![r] = "paging"]
           \/ /\ P = S
              /\ walk' = [walk EXCEPT ![r] = "done"]
              /\ cursor' = cursor
  BY ReadIs DEF IInv
<1>2. /\ S \subseteq rows /\ rows \subseteq Messages
      /\ UNCHANGED <<rows, created_at>>
      /\ walk[r] \in {"idle", "paging"}
      /\ present'[r] = IF walk[r] = "idle" THEN rows ELSE present[r]
  BY DEF Read, Beyond, IInv, TypeOK, writerVars
<1>3. \A m \in Messages : Key(m) \in Nat \X Nat /\ Key(m)' = Key(m)
  BY <1>2, KeyType DEF IInv, Key
<1>4. WalkInv(r)
  BY DEF IInv
\* What lies behind the cursor, and what beyond it.
<1>5. /\ \A n \in S : walk[r] = "paging" => Less(cursor[r], Key(n))
      /\ \A n \in rows \ S : walk[r] = "paging" /\ ~Less(cursor[r], Key(n))
  <2>1. walk[r] = "idle" => cursor[r] = <<>>
    BY <1>4 DEF WalkInv
  <2>2. walk[r] = "paging" => cursor[r] # <<>>
    BY <1>4, KeyIsNotEmpty DEF WalkInv
  <2> QED BY <1>2, <2>1, <2>2 DEF Beyond
<1> HIDE DEF S
<1>6. /\ pages'[r] = Append(old, P)
      /\ DOMAIN old = 1 .. Len(old) /\ Len(old) \in Nat
      /\ DOMAIN Append(old, P) = 1 .. K
      /\ \A i \in 1 .. Len(old) : Append(old, P)[i] = old[i]
      /\ Append(old, P)[K] = P
  <2>1. old \in Seq(SUBSET Messages) /\ P \in SUBSET Messages
    BY <1>2 DEF IInv, TypeOK
  <2>2. /\ Append(old, P) \in Seq(SUBSET Messages)
        /\ Len(Append(old, P)) = Len(old) + 1
        /\ \A i \in 1 .. Len(old) : Append(old, P)[i] = old[i]
        /\ Append(old, P)[Len(old) + 1] = P
    BY <2>1, AppendProperties
  <2>3. /\ DOMAIN old = 1 .. Len(old) /\ Len(old) \in Nat
        /\ DOMAIN Append(old, P) = 1 .. Len(Append(old, P))
    BY <2>1, <2>2, LenProperties
  <2>4. pages'[r] = Append(old, P)
    BY <1>1 DEF IInv, TypeOK
  <2> QED BY <2>2, <2>3, <2>4
<1>7. ASSUME NEW i \in DOMAIN old, NEW m \in old[i]
      PROVE  /\ m \in rows /\ walk[r] = "paging"
             /\ ~Less(cursor[r], Key(m))
  <2>1. old # <<>>
    BY <1>6
  <2>2. walk[r] = "paging"
    BY <1>2, <1>4, <2>1 DEF WalkInv
  <2> QED BY <1>4, <2>2 DEF WalkInv
\* The new page comes after the old ones.
<1>8. \A i \in DOMAIN old : \A m \in old[i], n \in P : Less(Key(m), Key(n))
  <2> SUFFICES ASSUME NEW i \in DOMAIN old, NEW m \in old[i], NEW n \in P
               PROVE  Less(Key(m), Key(n))
    OBVIOUS
  <2>1. ~Less(cursor[r], Key(m)) /\ Less(cursor[r], Key(n))
    BY <1>5, <1>7
  <2>2. /\ cursor[r] \in Nat \X Nat
        /\ Key(m) \in Nat \X Nat /\ Key(n) \in Nat \X Nat
    BY <1>2, <1>3, <1>4, <1>7 DEF WalkInv
  <2> QED BY <2>1, <2>2, LessTransitive
<1>9. \A i \in 1 .. K : \A m \in Append(old, P)[i] :
        \/ m \in P /\ i = K
        \/ i \in DOMAIN old /\ m \in old[i]
  BY <1>6
<1>10. \A i \in 1 .. K : \A m \in Append(old, P)[i] :
         m \in rows /\ m \in Messages /\ Key(m)' = Key(m)
  BY <1>2, <1>3, <1>7, <1>9
<1>11. Forward(r)'
  <2> SUFFICES ASSUME NEW i \in 1 .. K, NEW j \in 1 .. K, i < j,
                      NEW m \in Append(old, P)[i], NEW n \in Append(old, P)[j]
               PROVE  Less(Key(m), Key(n))'
    BY <1>6 DEF Forward
  <2>1. i \in DOMAIN old /\ m \in old[i]
    BY <1>6
  <2>2. Less(Key(m), Key(n))
    <3>1. CASE j = K
      BY <1>6, <1>8, <2>1, <3>1
    <3>2. CASE j # K
      <4>1. j \in DOMAIN old /\ n \in old[j]
        BY <1>6, <3>2
      <4> QED BY <1>4, <2>1, <4>1 DEF WalkInv, Forward
    <3> QED BY <3>1, <3>2
  <2> QED BY <1>10, <2>2 DEF Less
<1>12. \A i \in DOMAIN old : old[i] \subseteq Listed(r)'
  BY <1>6 DEF Listed
<1>13. P \subseteq Listed(r)'
  BY <1>6 DEF Listed
\* What was there when the walk began is listed now, or lies beyond.
<1>14. ASSUME NEW m \in present'[r] \ Listed(r)' PROVE m \in S \ P
  <2>1. m \notin P /\ m \notin Listed(r)
    BY <1>12, <1>13, <1>14 DEF Listed
  <2>2. CASE walk[r] = "idle"
    BY <1>2, <1>5, <2>1, <2>2
  <2>3. CASE walk[r] = "paging"
    <3>1. m \in present[r] /\ m \in rows
      BY <1>2, <1>4, <2>3 DEF WalkInv
    <3>2. Less(cursor[r], Key(m))
      BY <1>4, <2>1, <3>1 DEF WalkInv, Unskipped
    <3> QED BY <1>5, <2>1, <3>1, <3>2
  <2> QED BY <1>2, <2>2, <2>3
<1>15. CASE P = S /\ walk' = [walk EXCEPT ![r] = "done"] /\ cursor' = cursor
  <2>1. walk'[r] = "done"
    BY <1>15 DEF IInv, TypeOK
  <2>2. Unskipped(r)'
    BY <1>14, <1>15 DEF Unskipped
  <2>3. present'[r] \subseteq rows
    BY <1>2, <1>4 DEF WalkInv
  <2> QED BY <1>2, <1>6, <1>10, <1>11, <2>1, <2>2, <2>3 DEF WalkInv
<1>16. ASSUME NEW l \in P,
              \A n \in P \ {l} : Less(Key(n), Key(l)),
              cursor' = [cursor EXCEPT ![r] = Key(l)],
              walk' = [walk EXCEPT ![r] = "paging"]
       PROVE  WalkInv(r)'
  <2>1. /\ walk'[r] = "paging" /\ cursor'[r] = Key(l)
        /\ Key(l) \in Nat \X Nat
    BY <1>2, <1>3, <1>16 DEF IInv, TypeOK
  <2>2. ASSUME NEW i \in 1 .. K, NEW m \in Append(old, P)[i]
        PROVE  ~Less(Key(l), Key(m))
    <3>1. Key(m) \in Nat \X Nat
      BY <1>3, <1>10
    <3>2. m = l \/ Less(Key(m), Key(l))
      BY <1>8, <1>9, <1>16
    <3> QED BY <2>1, <3>1, <3>2, LessAsymmetric, LessIrreflexive
  <2>3. \A i \in DOMAIN pages'[r] : \A m \in pages'[r][i] :
          ~Less(cursor'[r], Key(m)')
    BY <1>6, <1>10, <2>1, <2>2
  <2>4. Unskipped(r)'
    <3> SUFFICES ASSUME NEW m \in present'[r] \ Listed(r)'
                 PROVE  Less(cursor'[r], Key(m)')
      BY <2>1 DEF Unskipped, Less
    <3>1. m \in S \ P /\ m \in Messages
      BY <1>2, <1>14
    <3> QED BY <1>1, <1>3, <2>1, <3>1
  <2>5. present'[r] \subseteq rows
    BY <1>2, <1>4 DEF WalkInv
  <2>6. l \in Listed(r)' /\ Key(l)' = Key(l)
    BY <1>2, <1>3, <1>13
  <2> QED BY <1>2, <1>6, <1>10, <1>11, <2>1, <2>3, <2>4, <2>5, <2>6
          DEF WalkInv, Less
<1> QED BY <1>1, <1>15, <1>16

LEMMA NextWalk == IInv /\ [Next]_vars => IInv'
<1> SUFFICES ASSUME IInv, [Next]_vars PROVE IInv'
  OBVIOUS
<1>1. TypeOK'
  BY NextType DEF IInv
<1>2. ASSUME rows \subseteq rows', \A m \in rows' : created_at'[m] # 0,
             \A m \in rows : created_at'[m] = created_at[m],
             UNCHANGED readerVars
      PROVE  IInv'
  <2>1. \A m \in rows : Key(m)' = Key(m)
    BY <1>2 DEF Key
  <2>2. ASSUME NEW r \in Readers PROVE WalkInv(r)'
    BY <1>2, <2>1, WalkUndisturbed DEF IInv, readerVars
  <2> QED BY <1>1, <1>2, <2>2 DEF IInv
<1>3. CASE Tick
  BY <1>2, <1>3 DEF IInv, Tick
<1>4. ASSUME NEW m \in Messages, Stamp(m) PROVE IInv'
  <2>1. /\ created_at[m] = 0 /\ m \notin rows
        /\ created_at' = [created_at EXCEPT ![m] = clock]
        /\ UNCHANGED <<rows, readerVars>>
    BY <1>4 DEF IInv, Stamp
  <2>2. \A n \in rows : created_at'[n] = created_at[n]
    BY <2>1 DEF IInv, TypeOK
  <2> QED BY <1>2, <2>1, <2>2 DEF IInv
<1>5. ASSUME NEW m \in Messages, Commit(m) PROVE IInv'
  BY <1>2, <1>5 DEF IInv, Commit
<1>6. ASSUME NEW r \in Readers, Read(r) PROVE IInv'
  <2>1. WalkInv(r)'
    BY <1>6, ReadWalk
  <2>2. UNCHANGED <<rows, created_at>>
    BY <1>6 DEF Read, writerVars
  <2>3. ASSUME NEW q \in Readers \ {r} PROVE WalkInv(q)'
    <3>1. PICK P : /\ pages' = [pages EXCEPT ![r] = Append(@, P)]
                   /\ \/ cursor' = cursor
                      \/ \E k : cursor' = [cursor EXCEPT ![r] = k]
                   /\ \E w : walk' = [walk EXCEPT ![r] = w]
      BY <1>6, ReadIs DEF IInv
    <3>2. /\ pages'[q] = pages[q] /\ cursor'[q] = cursor[q]
          /\ walk'[q] = walk[q]
      BY <3>1 DEF IInv, TypeOK
    <3>3. present'[q] = present[q]
      BY <1>6 DEF Read, IInv, TypeOK
    <3>4. \A m \in rows : Key(m)' = Key(m)
      BY <2>2 DEF Key
    <3> QED BY <2>2, <3>2, <3>3, <3>4, WalkUndisturbed DEF IInv
  <2> QED BY <1>1, <2>1, <2>2, <2>3 DEF IInv
<1>7. CASE UNCHANGED vars
  BY <1>2, <1>7 DEF IInv, vars, writerVars
<1> QED BY <1>3, <1>4, <1>5, <1>6, <1>7 DEF Next

LEMMA InitWalk == Init => IInv
<1> SUFFICES ASSUME Init PROVE IInv
  OBVIOUS
<1>1. DOMAIN <<>> = {}
  OBVIOUS
<1> QED BY <1>1, InitType
        DEF Init, IInv, WalkInv, Forward, Unskipped, Listed

THEOREM WalkInvariance == Spec => []IInv
BY InitWalk, NextWalk, PTL DEF Spec

\* Pages only move forward and list no message twice.
THEOREM PagesMoveForwardAlways == Spec => []PagesMoveForward
<1>1. IInv => PagesMoveForward
  BY DEF IInv, WalkInv, Forward, PagesMoveForward
<1> QED BY WalkInvariance, <1>1, PTL

\* A message that was stored when a walk began is not skipped.
THEOREM NothingSkippedAlways == Spec => []NothingSkipped
<1>1. IInv => NothingSkipped
  BY DEF IInv, WalkInv, Unskipped, NothingSkipped
<1> QED BY WalkInvariance, <1>1, PTL

-----------------------------------------------------------------------------
(* Paging: the pages implement the abstract history.                        *)

LEMMA ListedAreRows ==
  ASSUME IInv, NEW r \in Readers PROVE Listed(r) \subseteq rows
BY DEF IInv, WalkInv, Listed

\* What the next page adds to what a walk has listed.
LEMMA ReadLists ==
  ASSUME IInv, NEW r \in Readers, NEW P \in SUBSET Messages,
         pages' = [pages EXCEPT ![r] = Append(@, P)]
  PROVE  /\ Listed(r)' = Listed(r) \cup P
         /\ \A q \in Readers \ {r} : Listed(q)' = Listed(q)
<1>1. /\ pages \in [Readers -> Seq(SUBSET Messages)]
      /\ pages'[r] = Append(pages[r], P)
      /\ \A q \in Readers \ {r} : pages'[q] = pages[q]
  BY DEF IInv, TypeOK
<1>2. /\ DOMAIN pages[r] = 1 .. Len(pages[r]) /\ Len(pages[r]) \in Nat
      /\ DOMAIN pages'[r] = 1 .. (Len(pages[r]) + 1)
      /\ \A i \in 1 .. Len(pages[r]) : pages'[r][i] = pages[r][i]
      /\ pages'[r][Len(pages[r]) + 1] = P
  <2>1. pages[r] \in Seq(SUBSET Messages)
    BY <1>1
  <2>2. /\ Append(pages[r], P) \in Seq(SUBSET Messages)
        /\ Len(Append(pages[r], P)) = Len(pages[r]) + 1
        /\ \A i \in 1 .. Len(pages[r]) : Append(pages[r], P)[i] = pages[r][i]
        /\ Append(pages[r], P)[Len(pages[r]) + 1] = P
    BY <2>1, AppendProperties
  <2> QED BY <1>1, <2>1, <2>2, LenProperties
<1>3. \A i \in DOMAIN pages'[r] :
        \/ i \in DOMAIN pages[r] /\ pages'[r][i] = pages[r][i]
        \/ pages'[r][i] = P
  BY <1>2
<1>4. Listed(r)' \subseteq Listed(r) \cup P
  BY <1>3 DEF Listed
<1>5. /\ \A i \in DOMAIN pages[r] : pages[r][i] \subseteq Listed(r)'
      /\ P \subseteq Listed(r)'
  BY <1>2 DEF Listed
<1>6. Listed(r) \cup P \subseteq Listed(r)'
  BY <1>5 DEF Listed
<1> QED BY <1>1, <1>4, <1>6 DEF Listed

\* What a SELECT ranges over is what comes after all that was listed.
LEMMA AheadIsBeyond ==
  ASSUME IInv, NEW r \in Readers, walk[r] # "done"
  PROVE  /\ Hist!Ahead(r) = Beyond(cursor[r])
         /\ \A m, n \in rows : Hist!Before(m, n) <=> Less(Key(m), Key(n))
<1>1. WalkInv(r) /\ walk[r] \in {"idle", "paging"}
  BY DEF IInv, TypeOK
<1>2. \A m \in rows : Key(m) \in Nat \X Nat
  BY KeyType DEF IInv, TypeOK
<1>3. \A m, n \in rows : Hist!Before(m, n) <=> Less(Key(m), Key(n))
  BY DEF Hist!Before, Less, Key
<1>4. Listed(r) \subseteq rows
  BY ListedAreRows
<1>5. Hist!Ahead(r) = {m \in rows : \A n \in Listed(r) : Less(Key(n), Key(m))}
  BY <1>3, <1>4 DEF Hist!Ahead
<1>6. CASE walk[r] = "idle"
  <2>1. cursor[r] = <<>> /\ Listed(r) = {}
    BY <1>1, <1>6 DEF WalkInv, Listed
  <2> QED BY <1>3, <1>5, <2>1 DEF Beyond
<1>7. CASE walk[r] = "paging"
  <2>1. PICK l \in Listed(r) : cursor[r] = Key(l)
    BY <1>1, <1>7 DEF WalkInv
  <2>2. \A n \in Listed(r) : ~Less(cursor[r], Key(n))
    BY <1>1, <1>7 DEF WalkInv, Listed
  <2>3. cursor[r] \in Nat \X Nat /\ cursor[r] # <<>>
    BY <1>1, <1>7, KeyIsNotEmpty DEF WalkInv
  <2>4. Beyond(cursor[r]) = {m \in rows : Less(cursor[r], Key(m))}
    BY <2>3 DEF Beyond
  <2>5. ASSUME NEW m \in rows, Less(cursor[r], Key(m)), NEW n \in Listed(r)
        PROVE  Less(Key(n), Key(m))
    BY <1>2, <1>4, <2>2, <2>3, <2>5, LessTransitive
  <2> QED BY <1>3, <1>5, <2>1, <2>4, <2>5
<1> QED BY <1>1, <1>6, <1>7

LEMMA InitHistory == Init => Hist!Init
<1> SUFFICES ASSUME Init PROVE Hist!Init
  OBVIOUS
<1>1. \A r \in Readers : Listed(r) = {}
  BY DEF Init, Listed
<1>2. {r \in Readers : walk[r] = "done"} = {}
  BY DEF Init
<1>3. rows = {}
  BY DEF Init
<1> QED BY <1>1, <1>2, <1>3 DEF Hist!Init

LEMMA ReadRefines ==
  ASSUME IInv, NEW r \in Readers, Read(r) PROVE Hist!Next
<1> DEFINE S == Beyond(cursor[r])
           Over == {q \in Readers : walk[q] = "done"}
<1>1. PICK P \in SUBSET S :
        /\ pages' = [pages EXCEPT ![r] = Append(@, P)]
        /\ \A m \in P, n \in S \ P : Less(Key(m), Key(n))
        /\ \/ P # S /\ P # {} /\ walk' = [walk EXCEPT ![r] = "paging"]
           \/ P = S /\ walk' = [walk EXCEPT ![r] = "done"]
  BY ReadIs DEF IInv
<1>2. /\ walk[r] # "done" /\ UNCHANGED <<rows, created_at>>
      /\ S \subseteq rows /\ rows \subseteq Messages
  BY DEF Read, Beyond, IInv, TypeOK, writerVars
<1>3. /\ Hist!Ahead(r) = S
      /\ \A m, n \in rows : Hist!Before(m, n) <=> Less(Key(m), Key(n))
  BY <1>2, AheadIsBeyond
<1> HIDE DEF S
<1>4. /\ Listed(r)' = Listed(r) \cup P
      /\ \A q \in Readers \ {r} : Listed(q)' = Listed(q)
  BY <1>1, <1>2, ReadLists
<1>5. [q \in Readers |-> Listed(q)]' =
        [[q \in Readers |-> Listed(q)] EXCEPT ![r] = @ \cup P]
  BY <1>4
<1>6. /\ walk \in [Readers -> {"idle", "paging", "done"}] /\ r \notin Over
      /\ Over' = IF P = S THEN Over \cup {r} ELSE Over
  BY <1>1, <1>2 DEF IInv, TypeOK
<1>7. \A m \in P, n \in S \ P : Hist!Before(m, n)
  BY <1>1, <1>2, <1>3
<1>8. [m \in rows |-> created_at[m]]' = [m \in rows |-> created_at[m]]
  BY <1>2
<1>9. P = {} => S = {}
  BY <1>1
<1>10. Hist!Turn(r, P)
  BY <1>3, <1>5, <1>6, <1>7, <1>8, <1>9 DEF Hist!Turn
<1> QED BY <1>3, <1>10 DEF Hist!Next

LEMMA NextHistory == IInv /\ [Next]_vars => [Hist!Next]_(Hist!histVars)
<1> SUFFICES ASSUME IInv, [Next]_vars PROVE [Hist!Next]_(Hist!histVars)
  OBVIOUS
<1>1. ASSUME UNCHANGED readerVars
      PROVE  UNCHANGED <<[r \in Readers |-> Listed(r)],
                         {r \in Readers : walk[r] = "done"}>>
  BY <1>1 DEF readerVars, Listed
<1>2. ASSUME UNCHANGED <<rows, readerVars>>,
             \A m \in rows : created_at'[m] = created_at[m]
      PROVE  UNCHANGED Hist!histVars
  BY <1>1, <1>2 DEF Hist!histVars
<1>3. CASE Tick
  BY <1>2, <1>3 DEF Tick
<1>4. ASSUME NEW m \in Messages, Stamp(m) PROVE UNCHANGED Hist!histVars
  <2>1. m \notin rows
    BY <1>4 DEF IInv, Stamp
  <2>2. \A n \in rows : created_at'[n] = created_at[n]
    BY <1>4, <2>1 DEF IInv, TypeOK, Stamp
  <2> QED BY <1>2, <1>4, <2>2 DEF Stamp
<1>5. ASSUME NEW m \in Messages, Commit(m) PROVE Hist!Next
  <2> DEFINE stamp == [n \in rows |-> created_at[n]]
  <2>1. /\ m \notin rows /\ rows' = rows \cup {m} /\ created_at' = created_at
        /\ created_at[m] \in Nat
    BY <1>5 DEF Commit, IInv, TypeOK
  <2>2. /\ m \notin DOMAIN stamp /\ DOMAIN stamp' = DOMAIN stamp \cup {m}
        /\ stamp'[m] \in Nat
        /\ \A n \in DOMAIN stamp : stamp'[n] = stamp[n]
    BY <2>1
  <2>3. Hist!Write(m)
    BY <1>1, <1>5, <2>2 DEF Commit, Hist!Write
  <2> QED BY <2>3 DEF Hist!Next
<1>6. CASE UNCHANGED vars
  BY <1>2, <1>6 DEF vars, writerVars
<1> QED BY <1>3, <1>4, <1>5, <1>6, ReadRefines DEF Next

\* Cursors and pages implement paging through the history.
THEOREM ImplementsHistoryAlways == Spec => ImplementsHistory
<1>1. Init => Hist!Init
  BY InitHistory
<1>2. IInv /\ [Next]_vars => [Hist!Next]_(Hist!histVars)
  BY NextHistory
<1> QED BY WalkInvariance, <1>1, <1>2, PTL
        DEF Spec, ImplementsHistory, Hist!Spec

-----------------------------------------------------------------------------
(* How many pages there can be.  Liveness is beyond these proofs, but that  *)
(* a walk cannot go on for ever, and that MaxPages never stops one, is a    *)
(* matter of counting.                                                      *)

\* Every page of a walk that goes on listed something new.
CountInv ==
  \A r \in Readers :
    walk[r] # "done" => Len(pages[r]) <= Cardinality(Listed(r))

\* A walk that goes on has been given fewer pages than the bound allows, and no
\* walk is given more pages than there are messages, and one.
PagesAreFew ==
  \A r \in Readers :
    /\ walk[r] # "done" => Len(pages[r]) < MaxPages
    /\ Len(pages[r]) <= Cardinality(Messages) + 1

LEMMA ListedIsFinite ==
  ASSUME IInv, NEW r \in Readers
  PROVE  /\ IsFiniteSet(Listed(r)) /\ Cardinality(Listed(r)) \in Nat
         /\ Cardinality(Listed(r)) <= Cardinality(Messages)
         /\ Cardinality(Messages) \in Nat
         /\ Len(pages[r]) \in Nat
<1>1. Listed(r) \subseteq Messages
  BY ListedAreRows DEF IInv, TypeOK
<1>2. IsFiniteSet(Messages)
  BY TimelineAssumption
<1>3. Len(pages[r]) \in Nat
  BY LenProperties DEF IInv, TypeOK
<1> QED BY <1>1, <1>2, <1>3, FS_Subset, FS_CardinalityType

\* The same, of the state after a step.
LEMMA FewListed ==
  ASSUME IInv', NEW r \in Readers
  PROVE  /\ Cardinality(Listed(r)') \in Nat
         /\ Cardinality(Listed(r)') <= Cardinality(Messages)
         /\ Cardinality(Messages) \in Nat
         /\ Len(pages'[r]) \in Nat
<1>1. Listed(r)' \subseteq Messages
  BY DEF IInv, WalkInv, Listed, TypeOK
<1>2. IsFiniteSet(Messages)
  BY TimelineAssumption
<1>3. Len(pages'[r]) \in Nat
  BY LenProperties DEF IInv, TypeOK
<1> QED BY <1>1, <1>2, <1>3, FS_Subset, FS_CardinalityType

LEMMA ReadCounts ==
  ASSUME IInv, CountInv, NEW r \in Readers, Read(r)
  PROVE  /\ walk'[r] # "done" => Len(pages'[r]) <= Cardinality(Listed(r)')
         /\ Len(pages'[r]) <= Cardinality(Messages) + 1
         /\ \A q \in Readers \ {r} : /\ walk'[q] = walk[q]
                                     /\ pages'[q] = pages[q]
                                     /\ Listed(q)' = Listed(q)
<1> DEFINE S == Beyond(cursor[r])
<1>1. PICK P \in SUBSET S :
        /\ pages' = [pages EXCEPT ![r] = Append(@, P)]
        /\ \/ P # {} /\ walk' = [walk EXCEPT ![r] = "paging"]
           \/ walk' = [walk EXCEPT ![r] = "done"]
  BY ReadIs DEF IInv
<1>2. /\ walk[r] # "done" /\ S \subseteq rows /\ rows \subseteq Messages
      /\ walk \in [Readers -> {"idle", "paging", "done"}]
      /\ pages \in [Readers -> Seq(SUBSET Messages)]
  BY DEF Read, Beyond, IInv, TypeOK
<1>3. S \cap Listed(r) = {}
  <2>1. S = Hist!Ahead(r)
    BY <1>2, AheadIsBeyond
  <2>2. Listed(r) \subseteq rows
    BY ListedAreRows
  <2>3. \A m \in rows : ~Hist!Before(m, m)
    <3>1. \A m \in rows : created_at[m] \in Nat /\ Rank[m] \in Nat
      BY <1>2, TimelineAssumption DEF IInv, TypeOK
    <3> QED BY <3>1 DEF Hist!Before
  <2> QED BY <2>1, <2>2, <2>3 DEF Hist!Ahead
<1> HIDE DEF S
<1>4. /\ Listed(r)' = Listed(r) \cup P
      /\ \A q \in Readers \ {r} : Listed(q)' = Listed(q)
  BY <1>1, <1>2, ReadLists
<1>5. Len(pages'[r]) = Len(pages[r]) + 1
  <2>1. pages[r] \in Seq(SUBSET Messages) /\ P \in SUBSET Messages
    BY <1>2
  <2>2. pages'[r] = Append(pages[r], P)
    BY <1>1, <1>2
  <2> QED BY <2>1, <2>2, AppendProperties
<1>6. /\ IsFiniteSet(Listed(r)) /\ Cardinality(Listed(r)) \in Nat
      /\ Cardinality(Listed(r)) <= Cardinality(Messages)
      /\ Cardinality(Messages) \in Nat /\ Len(pages[r]) \in Nat
      /\ Len(pages[r]) <= Cardinality(Listed(r))
  BY <1>2, ListedIsFinite DEF CountInv
<1>7. ASSUME P # {} PROVE Cardinality(Listed(r)') >= Cardinality(Listed(r)) + 1
  <2>1. PICK m \in P : m \notin Listed(r)
    BY <1>3, <1>7
  <2>2. Cardinality(Listed(r) \cup {m}) = Cardinality(Listed(r)) + 1
    BY <1>6, <2>1, FS_AddElement
  <2>3. IsFiniteSet(Listed(r)') /\ Listed(r) \cup {m} \subseteq Listed(r)'
    <3>1. Listed(r)' \subseteq Messages
      BY <1>2, <1>4, ListedAreRows
    <3> QED BY <1>4, <2>1, <3>1, FS_Subset, TimelineAssumption
  <2>4. Cardinality(Listed(r) \cup {m}) <= Cardinality(Listed(r)')
    BY <2>3, FS_Subset
  <2>5. Cardinality(Listed(r)') \in Nat
    BY <2>3, FS_CardinalityType
  <2> QED BY <1>6, <2>2, <2>4, <2>5
<1>8. walk'[r] # "done" => Len(pages'[r]) <= Cardinality(Listed(r)')
  <2>1. walk'[r] # "done" => P # {}
    BY <1>1, <1>2
  <2>2. Cardinality(Listed(r)') \in Nat
    <3>1. Listed(r)' \subseteq Messages
      BY <1>2, <1>4, ListedAreRows
    <3> QED BY <3>1, FS_Subset, FS_CardinalityType, TimelineAssumption
  <2> QED BY <1>5, <1>6, <1>7, <2>1, <2>2
<1>9. \A q \in Readers \ {r} : walk'[q] = walk[q] /\ pages'[q] = pages[q]
  BY <1>1, <1>2
<1> QED BY <1>4, <1>5, <1>6, <1>8, <1>9

LEMMA NextCount ==
  IInv /\ CountInv /\ PagesAreFew /\ [Next]_vars => CountInv' /\ PagesAreFew'
<1> SUFFICES ASSUME IInv, CountInv, PagesAreFew, [Next]_vars
             PROVE  CountInv' /\ PagesAreFew'
  OBVIOUS
<1>1. ASSUME UNCHANGED readerVars PROVE CountInv' /\ PagesAreFew'
  BY <1>1 DEF readerVars, CountInv, PagesAreFew, Listed
<1>2. ASSUME NEW r \in Readers, Read(r) PROVE CountInv' /\ PagesAreFew'
  <2>1. CountInv'
    BY <1>2, ReadCounts DEF CountInv
  <2>2. IInv'
    BY NextWalk
  <2>3. ASSUME NEW q \in Readers, walk'[q] # "done"
        PROVE  Len(pages'[q]) < MaxPages
    <3>1. Len(pages'[q]) <= Cardinality(Listed(q)')
      BY <2>1, <2>3 DEF CountInv
    <3>2. /\ Cardinality(Listed(q)') \in Nat /\ Len(pages'[q]) \in Nat
          /\ Cardinality(Listed(q)') <= Cardinality(Messages)
          /\ Cardinality(Messages) \in Nat
      BY <2>2, FewListed
    <3> QED BY <3>1, <3>2, TimelineAssumption
  <2>4. \A q \in Readers : Len(pages'[q]) <= Cardinality(Messages) + 1
    BY <1>2, ReadCounts DEF PagesAreFew
  <2> QED BY <2>1, <2>3, <2>4 DEF PagesAreFew
<1> QED BY <1>1, <1>2 DEF Next, Tick, Stamp, Commit, vars

\* A walk ends after at most one page more than there are messages, for all
\* page sizes; the bound on the number of pages never cuts one short.
THEOREM PagesAreFewAlways == Spec => []PagesAreFew
<1>1. Init => CountInv /\ PagesAreFew
  <2> SUFFICES ASSUME Init, NEW r \in Readers
               PROVE  /\ Len(pages[r]) <= Cardinality(Listed(r))
                      /\ Len(pages[r]) < MaxPages
                      /\ Len(pages[r]) <= Cardinality(Messages) + 1
    BY DEF CountInv, PagesAreFew
  <2>1. /\ Cardinality(Listed(r)) \in Nat
        /\ Cardinality(Messages) \in Nat /\ MaxPages \in Nat
        /\ MaxPages > Cardinality(Messages)
    BY InitWalk, ListedIsFinite, TimelineAssumption
  <2>2. Len(pages[r]) = 0
    BY DEF Init
  <2> QED BY <2>1, <2>2
<1>2. IInv /\ CountInv /\ PagesAreFew /\ [Next]_vars => CountInv' /\ PagesAreFew'
  BY NextCount
<1> QED BY WalkInvariance, <1>1, <1>2, PTL DEF Spec

=============================================================================
