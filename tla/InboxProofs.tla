---------------------------- MODULE InboxProofs -----------------------------
(***************************************************************************)
(* Proofs about Inbox, beside any readers and writers of the history: that *)
(* polls move forward, and which mentions they may miss.                   *)
(***************************************************************************)
EXTENDS Inbox, TimelineProofs

\* What client p was given, and what it may still be given.
PollInv(p) ==
  /\ \A i \in DOMAIN polls[p] : polls[p][i] \subseteq rows \cap Mentions
  /\ \A i \in DOMAIN polls[p] : \A m \in polls[p][i] : created_at[m] <= since[p]
  /\ \A i, j \in DOMAIN polls[p] : i < j =>
       \A m \in polls[p][i], n \in polls[p][j] : created_at[m] < created_at[n]
  /\ \A m \in (rows \cap Mentions) \ Given(p) :
       created_at[m] > since[p] \/ m \in late[p] \/ CutInTie(p, m)

\* The inductive invariant.  Nothing given before is later than the timestamp
\* presented, so what follows it is new; what it leaves behind is explained.
InboxInv ==
  /\ IInv
  /\ InboxTypeOK
  /\ \A p \in Pollers : PollInv(p)

LEMMA InitInbox == InboxInit => InboxInv
<1> SUFFICES ASSUME InboxInit PROVE InboxInv
  OBVIOUS
<1>1. DOMAIN <<>> = {} /\ rows = {}
  BY DEF InboxInit, Init
<1>2. IInv => TypeOK
  BY DEF IInv
<1> QED BY <1>1, <1>2, InitWalk, EmptySeq
        DEF InboxInit, InboxInv, InboxTypeOK, PollInv, Given

\* What the rows of a larger table, or the table itself, leave as it is.
LEMMA RowsKeepTime ==
  ASSUME IInv, Next
  PROVE  /\ rows \subseteq rows'
         /\ \A m \in rows : created_at'[m] = created_at[m]
         /\ \A m \in rows' : m \in Messages /\ created_at'[m] = created_at[m]
<1>1. CASE Tick
  BY <1>1 DEF Tick, IInv, TypeOK
<1>2. ASSUME NEW m \in Messages, Stamp(m)
      PROVE  rows' = rows /\ \A n \in rows : created_at'[n] = created_at[n]
  BY <1>2 DEF Stamp, IInv, TypeOK
<1>3. ASSUME NEW m \in Messages, Commit(m)
      PROVE  rows' = rows \cup {m} /\ created_at' = created_at
  BY <1>3 DEF Commit
<1>4. ASSUME NEW r \in Readers, Read(r)
      PROVE  rows' = rows /\ created_at' = created_at
  BY <1>4 DEF Read, writerVars
<1>5. rows \subseteq Messages
  BY DEF IInv, TypeOK
<1> QED BY <1>1, <1>2, <1>3, <1>4, <1>5 DEF Next

LEMMA OvertakeInv ==
  ASSUME InboxInv, Next, Overtake PROVE InboxInv'
<1>1. IInv'
  BY NextWalk DEF InboxInv
<1>2. /\ rows \subseteq rows'
      /\ \A m \in rows : created_at'[m] = created_at[m]
      /\ \A m \in rows' : m \in Messages /\ created_at'[m] = created_at[m]
  BY RowsKeepTime DEF InboxInv
<1>3. /\ since' = since /\ polls' = polls
      /\ late' = [p \in Pollers |-> late[p] \cup
           {m \in (rows' \ rows) \cap Mentions : created_at[m] <= since[p]}]
  BY DEF Overtake
<1>4. InboxTypeOK'
  <2>1. TypeOK'
    BY <1>1 DEF IInv
  <2> QED BY <1>3, <2>1 DEF InboxInv, InboxTypeOK
<1>5. ASSUME NEW p \in Pollers PROVE PollInv(p)'
  <2>1. \A i \in DOMAIN polls[p] : \A m \in polls[p][i] :
          m \in rows /\ created_at'[m] = created_at[m]
    BY <1>2 DEF InboxInv, PollInv
  <2>2. Given(p)' = Given(p)
    BY <1>3 DEF Given
  <2>3. \A m \in rows : CutInTie(p, m) => CutInTie(p, m)'
    BY <1>2, <1>3, <2>1 DEF CutInTie
  <2>4. late'[p] = late[p] \cup
          {m \in (rows' \ rows) \cap Mentions : created_at[m] <= since[p]}
    BY <1>3
  <2>5. ASSUME NEW m \in (rows' \cap Mentions) \ Given(p)
        PROVE  created_at'[m] > since[p] \/ m \in late'[p] \/ CutInTie(p, m)'
    <3>1. created_at[m] \in Nat /\ since[p] \in Nat
      BY <1>2 DEF InboxInv, IInv, TypeOK, InboxTypeOK
    <3>2. CASE m \in rows
      BY <1>2, <2>3, <2>4, <2>5, <3>2 DEF InboxInv, PollInv
    <3>3. CASE m \notin rows
      BY <1>2, <2>4, <2>5, <3>1, <3>3
    <3> QED BY <3>2, <3>3
  <2>6. \A i \in DOMAIN polls[p] : polls[p][i] \subseteq rows' \cap Mentions
    BY <1>2 DEF InboxInv, PollInv
  <2>7. \A i \in DOMAIN polls[p] : \A m \in polls[p][i] : created_at'[m] <= since[p]
    BY <2>1 DEF InboxInv, PollInv
  <2>8. \A i, j \in DOMAIN polls[p] : i < j =>
          \A m \in polls[p][i], n \in polls[p][j] : created_at'[m] < created_at'[n]
    BY <2>1 DEF InboxInv, PollInv
  <2> QED BY <1>3, <2>2, <2>5, <2>6, <2>7, <2>8 DEF PollInv
<1> QED BY <1>1, <1>4, <1>5 DEF InboxInv

LEMMA PollStep ==
  ASSUME InboxInv, NEW p \in Pollers, Poll(p) PROVE InboxInv'
<1> DEFINE S == Matching(p)
           old == polls[p]
           K == Len(old) + 1
<1>1. PICK P \in (SUBSET S) \ {{}} :
        /\ Oldest(P, S)
        /\ Cardinality(P) =
             IF Cardinality(S) < InboxLimit THEN Cardinality(S) ELSE InboxLimit
        /\ polls' = [polls EXCEPT ![p] = Append(@, P)]
        /\ \E m \in P : /\ \A n \in P : created_at[n] <= created_at[m]
                        /\ since' = [since EXCEPT ![p] = created_at[m]]
  BY DEF Poll
<1>2. PICK x \in P : /\ \A n \in P : created_at[n] <= created_at[x]
                     /\ since' = [since EXCEPT ![p] = created_at[x]]
  BY <1>1
<1>3. late' = late /\ UNCHANGED vars
  BY DEF Poll
<1>4. /\ UNCHANGED <<rows, created_at>>
      /\ rows \subseteq Messages /\ IsFiniteSet(Messages)
      /\ \A m \in rows : created_at[m] \in Nat
      /\ since[p] \in Nat
      /\ S \subseteq rows \cap Mentions
      /\ \A m \in S : created_at[m] > since[p]
      /\ \A m \in (rows \cap Mentions) \ S : created_at[m] <= since[p]
  BY <1>3, TimelineAssumption
  DEF vars, writerVars, InboxInv, IInv, TypeOK, InboxTypeOK, Matching
<1>5. \A m \in P, n \in S \ P : created_at[m] <= created_at[n]
  BY <1>1 DEF Oldest
<1> HIDE DEF S
<1>6. P = S \/ Cardinality(P) = InboxLimit
  <2>1. IsFiniteSet(S)
    BY <1>4, FS_Subset
  <2> QED BY <1>1, <2>1, FS_Subset
<1>7. since'[p] = created_at[x] /\ created_at[x] > since[p]
  BY <1>2, <1>4 DEF InboxInv, InboxTypeOK
<1>8. /\ Append(old, P) \in Seq(SUBSET Mentions)
      /\ polls'[p] = Append(old, P)
      /\ DOMAIN old = 1 .. Len(old) /\ Len(old) \in Nat
      /\ DOMAIN Append(old, P) = 1 .. K
      /\ \A i \in 1 .. Len(old) : Append(old, P)[i] = old[i]
      /\ Append(old, P)[K] = P
  <2>1. old \in Seq(SUBSET Mentions) /\ P \in SUBSET Mentions
    BY <1>4 DEF InboxInv, InboxTypeOK
  <2>2. /\ Append(old, P) \in Seq(SUBSET Mentions)
        /\ Len(Append(old, P)) = Len(old) + 1
        /\ \A i \in 1 .. Len(old) : Append(old, P)[i] = old[i]
        /\ Append(old, P)[Len(old) + 1] = P
    BY <2>1, AppendProperties
  <2>3. /\ DOMAIN old = 1 .. Len(old) /\ Len(old) \in Nat
        /\ DOMAIN Append(old, P) = 1 .. Len(Append(old, P))
    BY <2>1, <2>2, LenProperties
  <2>4. polls'[p] = Append(old, P)
    BY <1>1 DEF InboxInv, InboxTypeOK
  <2> QED BY <2>2, <2>3, <2>4
<1>9. IInv'
  BY <1>3, NextWalk DEF InboxInv
<1>10. InboxTypeOK'
  <2>1. since' \in [Pollers -> Nat]
    BY <1>2, <1>4 DEF InboxInv, InboxTypeOK
  <2>2. polls' \in [Pollers -> Seq(SUBSET Mentions)]
    BY <1>1, <1>8 DEF InboxInv, InboxTypeOK
  <2>3. TypeOK'
    BY <1>9 DEF IInv
  <2> QED BY <1>3, <2>1, <2>2, <2>3 DEF InboxInv, InboxTypeOK
<1>11. ASSUME NEW q \in Pollers \ {p} PROVE PollInv(q)'
  <2>1. since'[q] = since[q] /\ polls'[q] = polls[q] /\ late'[q] = late[q]
    BY <1>1, <1>2, <1>3 DEF InboxInv, InboxTypeOK
  <2> QED BY <1>4, <2>1 DEF InboxInv, PollInv, Given, CutInTie
<1>12. PollInv(p)'
  <2>1. PollInv(p)
    BY DEF InboxInv
  <2>2. \A i \in 1 .. K : i \in DOMAIN old \/ i = K
    BY <1>8
  <2>3. \A i \in DOMAIN old : \A m \in old[i] :
          m \in rows \cap Mentions /\ created_at[m] <= since[p]
    BY <2>1 DEF PollInv
  <2>4. \A i \in 1 .. K : Append(old, P)[i] \subseteq rows \cap Mentions
    BY <1>4, <1>8, <2>2, <2>3
  <2>5. \A i \in 1 .. K : \A m \in Append(old, P)[i] :
          created_at[m] <= created_at[x]
    <3>1. \A i \in DOMAIN old : \A m \in old[i] : created_at[m] <= created_at[x]
      BY <1>4, <1>7, <2>3
    <3> QED BY <1>2, <1>8, <2>2, <3>1
  <2>6. ASSUME NEW i \in 1 .. K, NEW j \in 1 .. K, i < j,
               NEW m \in Append(old, P)[i], NEW n \in Append(old, P)[j]
        PROVE  created_at[m] < created_at[n]
    <3>1. i \in DOMAIN old /\ m \in old[i]
      BY <1>8, <2>6
    <3>2. CASE j \in DOMAIN old
      BY <1>8, <2>1, <2>6, <3>1, <3>2 DEF PollInv
    <3>3. CASE j = K
      <4>1. n \in S /\ n \in rows /\ m \in rows
        BY <1>1, <1>4, <1>8, <2>3, <2>6, <3>1, <3>3
      <4> QED BY <1>4, <2>3, <3>1, <4>1
    <3> QED BY <2>2, <3>2, <3>3
  <2>7. /\ \A m \in Given(p) : m \in Given(p)'
        /\ \A m \in P : m \in Given(p)'
    <3>1. \A i \in DOMAIN old : i \in DOMAIN polls'[p] /\ polls'[p][i] = old[i]
      BY <1>8
    <3>2. K \in DOMAIN polls'[p] /\ polls'[p][K] = P
      BY <1>8
    <3> QED BY <3>1, <3>2 DEF Given
  <2>8. \A m : CutInTie(p, m) => CutInTie(p, m)'
    <3>1. \A i \in DOMAIN old : i \in DOMAIN polls'[p] /\ polls'[p][i] = old[i]
      BY <1>8
    <3> QED BY <1>4, <3>1 DEF CutInTie
  <2>9. ASSUME NEW m \in (rows \cap Mentions) \ Given(p)'
        PROVE  created_at[m] > created_at[x] \/ m \in late[p] \/ CutInTie(p, m)'
    <3>1. m \notin Given(p) /\ m \notin P
      BY <2>7, <2>9
    <3>2. CASE m \notin S
      BY <1>4, <2>1, <2>8, <2>9, <3>1, <3>2 DEF PollInv
    <3>3. CASE m \in S /\ ~(created_at[m] > created_at[x])
      <4>1. Cardinality(P) = InboxLimit
        BY <1>6, <3>1, <3>3
      <4>2. created_at[x] <= created_at[m]
        BY <1>5, <3>1, <3>3
      <4>3. created_at[x] = created_at[m]
        BY <1>1, <1>4, <3>3, <4>2
      <4>4. K \in DOMAIN polls'[p] /\ polls'[p][K] = P
        BY <1>8
      <4> QED BY <1>2, <1>4, <4>1, <4>3, <4>4 DEF CutInTie
    <3> QED BY <3>2, <3>3
  <2>10. /\ polls'[p] = Append(old, P) /\ DOMAIN Append(old, P) = 1 .. K
         /\ since'[p] = created_at[x] /\ late'[p] = late[p]
         /\ rows' = rows /\ created_at' = created_at
    BY <1>3, <1>4, <1>7, <1>8
  <2> HIDE DEF K
  <2> QED BY <2>4, <2>5, <2>6, <2>9, <2>10 DEF PollInv
<1> QED BY <1>9, <1>10, <1>11, <1>12 DEF InboxInv

LEMMA NextInbox == InboxInv /\ [InboxNext]_allVars => InboxInv'
<1> SUFFICES ASSUME InboxInv, [InboxNext]_allVars PROVE InboxInv'
  OBVIOUS
<1>1. CASE UNCHANGED allVars
  <2>1. UNCHANGED vars /\ UNCHANGED <<rows, created_at, since, polls, late>>
    BY <1>1 DEF allVars, inboxVars, vars, writerVars
  <2>2. IInv'
    BY <2>1, NextWalk DEF InboxInv
  <2>3. TypeOK'
    BY <2>2 DEF IInv
  <2>4. InboxTypeOK'
    BY <2>1, <2>3 DEF InboxInv, InboxTypeOK
  <2> QED BY <2>1, <2>2, <2>4 DEF InboxInv, PollInv, Given, CutInTie
<1> QED BY <1>1, OvertakeInv, PollStep DEF InboxNext

\* The history and the inbox keep their invariants when both are read at once.
THEOREM InboxInvariance == InboxSpec => []InboxInv
BY InitInbox, NextInbox, PTL DEF InboxSpec

\* Every variable of the inbox keeps its type, and an agent is given mentions
\* of its own only.
THEOREM InboxTypeCorrect == InboxSpec => []InboxTypeOK
<1>1. InboxInv => InboxTypeOK
  BY DEF InboxInv
<1> QED BY InboxInvariance, <1>1, PTL

\* No mention is given twice, and none that is older than one given before.
THEOREM PollsMoveForwardAlways == InboxSpec => []PollsMoveForward
<1>1. InboxInv => PollsMoveForward
  BY DEF InboxInv, PollInv, PollsMoveForward
<1> QED BY InboxInvariance, <1>1, PTL

\* What a client misses was committed late, or shares its timestamp with the
\* end of a full answer.
THEOREM MissedOnlyIfLateOrTiedAlways == InboxSpec => []MissedOnlyIfLateOrTied
<1>1. InboxInv => MissedOnlyIfLateOrTied
  BY DEF InboxInv, PollInv, MissedOnlyIfLateOrTied
<1> QED BY InboxInvariance, <1>1, PTL

-----------------------------------------------------------------------------
(* The history, when it is read beside an inbox.                            *)

LEMMA StepOfHistory == [InboxNext]_allVars => [Next]_vars
BY DEF InboxNext, Poll, allVars

\* Paging implements the abstract history while agents poll the same rows.
THEOREM HistoryBesideInbox == InboxSpec => ImplementsHistory
<1>1. InboxInit => Hist!Init
  BY InitHistory DEF InboxInit
<1>2. InboxInv /\ [InboxNext]_allVars => [Hist!Next]_(Hist!histVars)
  BY StepOfHistory, NextHistory DEF InboxInv
<1> QED BY InboxInvariance, <1>1, <1>2, PTL
        DEF InboxSpec, ImplementsHistory, Hist!Spec

\* Pages move forward and skip nothing while agents poll the same rows.
THEOREM WalksBesideInbox == InboxSpec => [](PagesMoveForward /\ NothingSkipped)
<1>1. InboxInv => PagesMoveForward /\ NothingSkipped
  BY DEF InboxInv, IInv, WalkInv, Forward, Unskipped, PagesMoveForward,
         NothingSkipped
<1> QED BY InboxInvariance, <1>1, PTL

-----------------------------------------------------------------------------
(* How many answers there can be: every answer gave something new.          *)

AnswersInv == \A p \in Pollers : Len(polls[p]) <= Cardinality(Given(p))

\* Whenever there is something to give, the bound allows it to be given.
AnswersAreFew ==
  \A p \in Pollers : Matching(p) # {} => Len(polls[p]) < MaxPages

LEMMA GivenIsFinite ==
  ASSUME InboxTypeOK, NEW p \in Pollers
  PROVE  /\ Given(p) \subseteq Messages /\ IsFiniteSet(Given(p))
         /\ Cardinality(Given(p)) \in Nat
         /\ Len(polls[p]) \in Nat /\ DOMAIN polls[p] = 1 .. Len(polls[p])
<1>1. polls[p] \in Seq(SUBSET Mentions)
  BY DEF InboxTypeOK
<1>2. /\ Len(polls[p]) \in Nat /\ DOMAIN polls[p] = 1 .. Len(polls[p])
      /\ \A i \in 1 .. Len(polls[p]) : polls[p][i] \in SUBSET Mentions
  BY <1>1, LenProperties, ElementOfSeq
<1>3. Given(p) \subseteq Messages
  BY <1>2, InboxAssumption DEF Given
<1> QED BY <1>2, <1>3, FS_Subset, FS_CardinalityType, TimelineAssumption

\* What matches was not given before.
LEMMA MatchingIsNew ==
  ASSUME InboxInv, NEW p \in Pollers
  PROVE  /\ Matching(p) \cap Given(p) = {}
         /\ Matching(p) \subseteq Messages
<1>1. \A m \in Given(p) : m \in Messages /\ created_at[m] <= since[p]
  BY DEF InboxInv, PollInv, Given, IInv, TypeOK
<1>2. since[p] \in Nat /\ \A m \in Messages : created_at[m] \in Nat
  BY DEF InboxInv, InboxTypeOK, IInv, TypeOK
<1> QED BY <1>1, <1>2, InboxAssumption DEF Matching

LEMMA PollCounts ==
  ASSUME InboxInv, InboxInv', AnswersInv, NEW p \in Pollers, Poll(p)
  PROVE  AnswersInv'
<1> DEFINE old == polls[p]
<1>1. PICK P \in (SUBSET Matching(p)) \ {{}} :
        polls' = [polls EXCEPT ![p] = Append(@, P)]
  BY DEF Poll
<1>2. /\ polls \in [Pollers -> Seq(SUBSET Mentions)]
      /\ P \in SUBSET Mentions /\ P # {}
      /\ P \cap Given(p) = {}
  <2>1. P \subseteq Matching(p) /\ P # {}
    BY <1>1
  <2>2. Matching(p) \subseteq Mentions
    BY DEF Matching
  <2>3. Matching(p) \cap Given(p) = {}
    BY MatchingIsNew
  <2>4. polls \in [Pollers -> Seq(SUBSET Mentions)]
    BY DEF InboxInv, InboxTypeOK
  <2> QED BY <2>1, <2>2, <2>3, <2>4
<1>3. /\ polls'[p] = Append(old, P)
      /\ \A q \in Pollers \ {p} : polls'[q] = polls[q]
  BY <1>1, <1>2
<1>4. /\ Len(polls'[p]) = Len(old) + 1
      /\ DOMAIN old = 1 .. Len(old) /\ Len(old) \in Nat
      /\ DOMAIN polls'[p] = 1 .. (Len(old) + 1)
      /\ \A i \in 1 .. Len(old) : polls'[p][i] = old[i]
      /\ polls'[p][Len(old) + 1] = P
  <2>1. old \in Seq(SUBSET Mentions)
    BY <1>2
  <2>2. /\ Append(old, P) \in Seq(SUBSET Mentions)
        /\ Len(Append(old, P)) = Len(old) + 1
        /\ \A i \in 1 .. Len(old) : Append(old, P)[i] = old[i]
        /\ Append(old, P)[Len(old) + 1] = P
    BY <1>2, <2>1, AppendProperties
  <2> QED BY <1>3, <2>1, <2>2, LenProperties
<1>5. Given(p) \cup P \subseteq Given(p)'
  <2>1. \A i \in DOMAIN old : old[i] \subseteq Given(p)'
    BY <1>4 DEF Given
  <2>2. P \subseteq Given(p)'
    BY <1>4 DEF Given
  <2> QED BY <2>1, <2>2 DEF Given
<1>6. PICK m \in P : m \notin Given(p)
  BY <1>2
<1>7. /\ IsFiniteSet(Given(p)) /\ Cardinality(Given(p)) \in Nat
      /\ Given(p)' \subseteq Messages
  <2>1. polls'[p] \in Seq(SUBSET Mentions)
    BY DEF InboxInv, InboxTypeOK
  <2>2. \A i \in DOMAIN polls'[p] : polls'[p][i] \subseteq Mentions
    BY <2>1, LenProperties, ElementOfSeq
  <2> QED BY <2>2, GivenIsFinite, InboxAssumption DEF InboxInv, Given
<1>8. IsFiniteSet(Given(p)') /\ Cardinality(Given(p)') \in Nat
  BY <1>7, FS_Subset, FS_CardinalityType, TimelineAssumption
<1>9. Cardinality(Given(p) \cup {m}) = Cardinality(Given(p)) + 1
  BY <1>6, <1>7, FS_AddElement
<1>10. Cardinality(Given(p) \cup {m}) <= Cardinality(Given(p)')
  <2>1. Given(p) \cup {m} \subseteq Given(p)'
    BY <1>5, <1>6
  <2> QED BY <1>8, <2>1, FS_Subset
<1>11. Len(old) <= Cardinality(Given(p))
  BY DEF AnswersInv
<1>12. Len(polls'[p]) <= Cardinality(Given(p)')
  BY <1>4, <1>7, <1>8, <1>9, <1>10, <1>11
<1>13. \A q \in Pollers \ {p} : Given(q)' = Given(q)
  BY <1>3 DEF Given
<1> QED BY <1>3, <1>12, <1>13 DEF AnswersInv

LEMMA InvBoundsAnswers == InboxInv /\ AnswersInv => AnswersAreFew
<1> SUFFICES ASSUME InboxInv, AnswersInv, NEW p \in Pollers, Matching(p) # {}
             PROVE  Len(polls[p]) < MaxPages
  BY DEF AnswersAreFew
<1>1. PICK m \in Matching(p) : m \notin Given(p) /\ m \in Messages
  BY MatchingIsNew
<1>2. /\ Given(p) \subseteq Messages /\ IsFiniteSet(Given(p))
      /\ Cardinality(Given(p)) \in Nat /\ Len(polls[p]) \in Nat
  BY GivenIsFinite DEF InboxInv
<1>3. Len(polls[p]) <= Cardinality(Given(p))
  BY DEF AnswersInv
<1>4. Cardinality(Given(p)) <= Cardinality(Messages) /\ Cardinality(Messages) \in Nat
  BY <1>2, FS_Subset, FS_CardinalityType, TimelineAssumption
<1> QED BY <1>2, <1>3, <1>4, TimelineAssumption

\* Every answer gives a client something it was not given before, so the bound
\* on the number of answers never keeps one back.
THEOREM AnswersAreFewAlways == InboxSpec => []AnswersAreFew
<1>1. InboxInit => AnswersInv
  <2> SUFFICES ASSUME InboxInit, NEW p \in Pollers
               PROVE  Len(polls[p]) <= Cardinality(Given(p))
    BY DEF AnswersInv
  <2>1. InboxTypeOK
    BY InitInbox DEF InboxInv
  <2>2. polls[p] = <<>> /\ Len(polls[p]) = 0
    BY DEF InboxInit
  <2> QED BY <2>1, <2>2, GivenIsFinite
<1>2. InboxInv /\ InboxInv' /\ AnswersInv /\ [InboxNext]_allVars => AnswersInv'
  <2> SUFFICES ASSUME InboxInv, InboxInv', AnswersInv, [InboxNext]_allVars
               PROVE  AnswersInv'
    OBVIOUS
  <2>1. ASSUME polls' = polls PROVE AnswersInv'
    BY <2>1 DEF AnswersInv, Given
  <2>2. ASSUME NEW p \in Pollers, Poll(p) PROVE AnswersInv'
    BY <2>2, PollCounts
  <2> QED BY <2>1, <2>2 DEF InboxNext, Overtake, allVars, inboxVars
<1> QED BY InboxInvariance, InvBoundsAnswers, <1>1, <1>2, PTL DEF InboxSpec

=============================================================================
