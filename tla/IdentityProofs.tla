--------------------------- MODULE IdentityProofs ---------------------------
(***************************************************************************)
(* Proofs about Startup, for any number of workers, starts and statements, *)
(* alone and while requests are served, and then about Identity, for any   *)
(* requests, people and pools.                                             *)
(***************************************************************************)
EXTENDS Identity, TLAPS, FiniteSetTheorems

-----------------------------------------------------------------------------
(* The start of the workers.                                               *)

Alive(w) == worker[w] # "down"

\* Every living worker has a session of its own, made by its start.
SessionInv ==
  /\ \A w \in Workers : Alive(w) => session[w] \in 1 .. starts
  /\ \A v, w \in Workers :
       Alive(v) /\ Alive(w) /\ session[v] = session[w] => v = w

\* The lock is held by one session at most: that of the worker that is
\* creating the schema, or of one that died at it.  Only there is a statement
\* executed.
LockInv ==
  /\ holder \subseteq 1 .. starts /\ waiting \subseteq 1 .. starts
  /\ \A x, y \in holder : x = y
  /\ \A x \in Sessions : stmt[x] # 0 => x \in holder
  /\ \A w \in Workers : worker[w] = "creating" => session[w] \in holder

\* A worker knows of no statement that did not take effect.
SchemaInv ==
  /\ \A w \in Workers : \A i \in Statements : i < next[w] => i \in built
  /\ \A w \in Workers, x \in Sessions :
       Drives(w, x) /\ stmt[x] # 0 => stmt[x] = next[w]
  /\ SchemaBeforeService

\* The inductive invariant.
StartInv == TypeOK /\ SessionInv /\ LockInv /\ SchemaInv

LEMMA InitStart == StartInit => StartInv
BY StartupAssumption
   DEF StartInit, StartInv, TypeOK, SessionInv, LockInv, SchemaInv, Alive,
       Drives, SchemaBeforeService, Sessions, Statements

LEMMA StartStep == ASSUME StartInv, NEW w \in Workers, Start(w) PROVE StartInv'
<1> USE StartupAssumption DEF StartInv, TypeOK, Start, Sessions, Statements
<1>1. TypeOK'
  BY DEF SessionInv
<1>2. SessionInv'
  BY DEF SessionInv, Alive
<1>3. LockInv'
  BY DEF LockInv
<1>4. SchemaInv'
  BY DEF SchemaInv, LockInv, Drives, SchemaBeforeService
<1> QED BY <1>1, <1>2, <1>3, <1>4

LEMMA GrantStep == ASSUME StartInv, NEW x \in Sessions, Grant(x) PROVE StartInv'
<1> USE StartupAssumption
    DEF StartInv, TypeOK, Grant, HolderAfterGrant, Sessions, Statements
<1>1. TypeOK'
  OBVIOUS
<1>2. SessionInv'
  BY DEF SessionInv, Alive, Drives
<1>3. LockInv'
  BY DEF LockInv, Drives
<1>4. SchemaInv'
  BY DEF SchemaInv, LockInv, Drives, SchemaBeforeService
<1> QED BY <1>1, <1>2, <1>3, <1>4

LEMMA SendStep == ASSUME StartInv, NEW w \in Workers, Send(w) PROVE StartInv'
<1> USE StartupAssumption DEF StartInv, TypeOK, Send, Sessions, Statements
<1>0. session[w] \in holder /\ session[w] \in 1 .. MaxStarts
  BY DEF LockInv
<1>1. TypeOK'
  BY <1>0
<1>2. SessionInv'
  BY DEF SessionInv, Alive
<1>3. LockInv'
  BY <1>0 DEF LockInv
<1>4. SchemaInv'
  BY <1>0 DEF SchemaInv, SessionInv, Alive, Drives, SchemaBeforeService
<1> QED BY <1>1, <1>2, <1>3, <1>4

LEMMA ExecuteStep == ASSUME StartInv, NEW x \in Sessions, Execute(x) PROVE StartInv'
<1> USE StartupAssumption DEF StartInv, TypeOK, Execute, Sessions, Statements
<1>0. \A w \in Workers : Drives(w, x) => stmt[x] = next[w]
  BY DEF SchemaInv
<1>1. TypeOK'
  <2>1. stmt[x] \in 1 .. LastStatement
    OBVIOUS
  <2>2. \A w \in Workers :
          (IF Drives(w, x) THEN next[w] + 1 ELSE next[w]) \in 1 .. LastStatement + 1
    BY <1>0, <2>1
  <2>3. next' \in [Workers -> 1 .. LastStatement + 1]
    BY <2>2
  <2>4. stmt' \in [Sessions -> 0 .. LastStatement]
    OBVIOUS
  <2>5. built' \subseteq Statements /\ holder' = holder
    BY <2>1
  <2> HIDE DEF Execute
  <2> QED BY <2>3, <2>4, <2>5 DEF Execute
<1>2. SessionInv'
  BY DEF SessionInv, Alive
<1>3. LockInv'
  BY DEF LockInv
<1>4. ASSUME NEW w \in Workers, NEW i \in Statements, i < next'[w]
      PROVE  i \in built'
  <2>1. CASE Drives(w, x)
    <3>1. next'[w] = next[w] + 1 /\ stmt[x] = next[w] /\ next[w] \in Nat
      BY <1>0, <2>1
    <3>2. i < next[w] \/ i = stmt[x]
      BY <1>4, <3>1
    <3> QED BY <3>2 DEF SchemaInv
  <2>2. CASE ~Drives(w, x)
    BY <1>4, <2>2 DEF SchemaInv
  <2> QED BY <2>1, <2>2
<1>5. ASSUME NEW w \in Workers, NEW y \in Sessions, Drives(w, y)', stmt'[y] # 0
      PROVE  stmt'[y] = next'[w]
  <2>1. y # x /\ stmt'[y] = stmt[y] /\ session[w] = y /\ Drives(w, y)
    BY <1>5 DEF Drives
  <2>2. ~Drives(w, x)
    BY <2>1 DEF Drives
  <2>3. next'[w] = next[w]
    BY <2>2
  <2> QED BY <1>5, <2>1, <2>3 DEF SchemaInv
<1>6. SchemaBeforeService'
  BY DEF SchemaInv, SchemaBeforeService
<1>7. SchemaInv'
  BY <1>4, <1>5, <1>6 DEF SchemaInv
<1> QED BY <1>1, <1>2, <1>3, <1>7

\* A worker that leaves the lock, for service or for good, takes no statement
\* and no other worker's lock with it.
LEMMA UnlockStep ==
  ASSUME StartInv, NEW w \in Workers, Refuse(w) \/ Serve(w) PROVE StartInv'
<1> USE StartupAssumption DEF StartInv, TypeOK, Sessions, Statements
<1>0. /\ session[w] \in holder /\ session[w] \in 1 .. MaxStarts
      /\ worker[w] = "creating"
      /\ holder' = holder \ {session[w]}
      /\ worker' = [worker EXCEPT ![w] = worker'[w]]
      /\ worker'[w] \in {"down", "serving"}
      /\ worker'[w] = "serving" => built = 1 .. LastStatement
      /\ stmt' \in [1 .. MaxStarts -> 0 .. LastStatement]
      /\ stmt'[session[w]] = 0
      /\ \A x \in Sessions \ {session[w]} : stmt'[x] = stmt[x]
      /\ UNCHANGED <<starts, session, next, waiting, built>>
  <2>1. /\ session[w] \in holder /\ session[w] \in 1 .. MaxStarts
        /\ worker[w] = "creating"
    BY DEF Refuse, Serve, LockInv
  <2>2. CASE Refuse(w)
    BY <2>1, <2>2 DEF Refuse, AfterFailure
  <2>3. CASE Serve(w)
    <3>1. next[w] = LastStatement + 1
      BY <2>3 DEF Serve
    <3>2. built = 1 .. LastStatement
      <4>1. \A i \in 1 .. LastStatement : i < next[w]
        BY <3>1
      <4> QED BY <4>1 DEF SchemaInv
    <3>3. stmt[session[w]] = 0
      BY <2>1, <3>1 DEF SchemaInv, Drives
    <3> QED BY <2>1, <2>3, <3>2, <3>3 DEF Serve, HolderAfterUnlock
  <2> QED BY <2>2, <2>3
<1>1. TypeOK'
  BY <1>0
<1>2. SessionInv'
  BY <1>0 DEF SessionInv, Alive
<1>3. LockInv'
  <2>1. \A v \in Workers \ {w} : worker[v] # "creating"
    BY <1>0 DEF LockInv, SessionInv, Alive
  <2> QED BY <1>0, <2>1 DEF LockInv
<1>4. SchemaInv'
  <2>1. ASSUME NEW v \in Workers, NEW x \in Sessions, Drives(v, x)', stmt'[x] # 0
        PROVE  stmt'[x] = next'[v]
    <3>1. x # session[w] /\ stmt'[x] = stmt[x]
      BY <1>0, <2>1
    <3>2. v # w /\ Drives(v, x)
      BY <1>0, <2>1, <3>1 DEF Drives
    <3> QED BY <1>0, <2>1, <3>1, <3>2 DEF SchemaInv
  <2>2. SchemaBeforeService'
    BY <1>0 DEF SchemaInv, SchemaBeforeService
  <2>3. \A v \in Workers : \A i \in Statements : i < next'[v] => i \in built'
    BY <1>0 DEF SchemaInv
  <2> QED BY <2>1, <2>2, <2>3 DEF SchemaInv
<1> QED BY <1>1, <1>2, <1>3, <1>4

LEMMA EndStep ==
  ASSUME StartInv, NEW w \in Workers, Stop(w) \/ Close(w) \/ Die(w) PROVE StartInv'
<1> USE StartupAssumption DEF StartInv, TypeOK, Sessions, Statements
<1>0. /\ worker' = [worker EXCEPT ![w] = worker'[w]]
      /\ \/ worker'[w] = "down"
         \/ worker[w] = "serving" /\ worker'[w] = "stopping"
      /\ UNCHANGED <<starts, session, next, waiting, holder, stmt, built>>
  BY DEF Stop, Close, Die
<1>1. TypeOK'
  BY <1>0
<1>2. SessionInv'
  BY <1>0 DEF SessionInv, Alive
<1>3. LockInv'
  BY <1>0 DEF LockInv
<1>4. SchemaInv'
  BY <1>0 DEF SchemaInv, Drives, SchemaBeforeService
<1> QED BY <1>1, <1>2, <1>3, <1>4

LEMMA EndSessionStep ==
  ASSUME StartInv, NEW x \in Sessions, EndSession(x) PROVE StartInv'
<1> USE StartupAssumption DEF StartInv, TypeOK, EndSession, Sessions, Statements
<1>1. TypeOK'
  OBVIOUS
<1>2. SessionInv'
  BY DEF SessionInv, Alive
<1>3. LockInv'
  BY DEF LockInv, Drives
<1>4. SchemaInv'
  BY DEF SchemaInv, Drives, SchemaBeforeService
<1> QED BY <1>1, <1>2, <1>3, <1>4

LEMMA NextStart == StartInv /\ [StartNext]_startVars => StartInv'
<1> SUFFICES ASSUME StartInv, [StartNext]_startVars PROVE StartInv'
  OBVIOUS
<1>1. CASE UNCHANGED startVars
  BY <1>1 DEF startVars, StartInv, TypeOK, SessionInv, LockInv, SchemaInv,
              Alive, Drives, SchemaBeforeService
<1>2. CASE StartNext
  BY <1>2, StartStep, GrantStep, SendStep, ExecuteStep, UnlockStep, EndStep,
     EndSessionStep DEF StartNext, Opening, Backend
<1> QED BY <1>1, <1>2

LEMMA StartInvImplies == StartInv => TypeOK /\ OneBuilder /\ SchemaBeforeService
BY DEF StartInv, LockInv, SchemaInv, OneBuilder

\* Workers alone: every variable of the start-up keeps its type.
THEOREM StartInvariance == StartSpec => []StartInv
BY InitStart, NextStart, PTL DEF StartSpec

-----------------------------------------------------------------------------
(* Requests.                                                               *)

Visiting ==
  {"select_workspace", "insert_workspace", "select_identity", "insert_identity"}

\* A connection is used by the statement its handler is at.
UsingInv ==
  /\ \A u \in using : u \in Requests \X Queries /\ step[u[1]] = u[2]
  /\ \A w \in Workers : IsFiniteSet(Busy(w)) /\ Cardinality(Busy(w)) <= PoolMax

\* Whose INSERT is left to the database has been answered, and was a person.
OrphanInv ==
  \A u \in orphans : /\ u \in Requests \X Inserts
                     /\ step[u[1]] \in {"failed", "lost"}
                     /\ person[u[1]] \in People

\* What is known of a visit.  A row that was found, or stored, stays.
Visit(r) ==
  /\ step[r] # "ok" => name[r] = Nobody
  /\ step[r] = "idle" => r \notin known /\ person[r] = Nobody
  /\ step[r] \in Visiting => person[r] \in People
  /\ name[r] # Nobody =>
       person[r] \in People /\ name[r] = identities[person[r]]
  /\ r \in known =>
       /\ person[r] \in People /\ identities[person[r]] # Nobody
       /\ step[r] # "insert_identity"
  /\ step[r] = "failed" /\ r \notin faulted /\ person[r] # Nobody =>
       /\ r \notin known
       /\ person[r] \in People /\ identities[person[r]] # Nobody

VisitInv == \A r \in Requests : Visit(r)

\* The types that no other part of the invariant has.
MeTypeOK ==
  /\ mode \in Modes
  /\ step \in [Requests -> {"idle"} \cup Queries \cup Answers]
  /\ person \in [Requests -> People \cup {Nobody}]
  /\ name \in [Requests -> Names \cup {Nobody}]
  /\ housed \in BOOLEAN
  /\ identities \in [People -> Names \cup {Nobody}]
  /\ known \subseteq Requests
  /\ faulted \subseteq Requests

\* The inductive invariant of the requests.
MeInv == MeTypeOK /\ UsingInv /\ OrphanInv /\ VisitInv

LEMMA InitMe == Init => MeInv
<1> SUFFICES ASSUME Init PROVE MeInv
  OBVIOUS
<1>1. MeTypeOK
  BY DEF Init, MeTypeOK
<1>2. UsingInv
  <2>1. \A w \in Workers : Busy(w) = {}
    BY DEF Init, Busy
  <2> QED BY <2>1, FS_EmptySet, IdentityAssumption DEF Init, UsingInv
<1>3. OrphanInv /\ VisitInv
  BY DEF Init, OrphanInv, VisitInv, Visit, Visiting
<1> QED BY <1>1, <1>2, <1>3 DEF MeInv

\* A request is let in, or answered at once.
LEMMA AdmittedIs ==
  ASSUME MeTypeOK, NEW r \in Requests, NEW k \in Kinds[r]
  PROVE  Admitted(k) \in {"probe", "lookup", "select_workspace", "unauthorized",
                          "unimplemented", "failed"}
<1>1. k \in {"ready", "none", "machine", "malformed", "no_object", "jwt"}
  BY IdentityAssumption
<1>2. mode \in {"bypass", "unverified", "verified"}
  BY IdentityAssumption DEF MeTypeOK
<1> QED BY <1>1, <1>2 DEF Admitted

LEMMA CallerIs ==
  ASSUME NEW r \in Requests
  PROVE  Caller(r) \in People /\ ClaimOf(r) \in Names /\ ClaimOf(r) # Nobody
BY IdentityAssumption DEF Caller, ClaimOf, People, Names

\* A visit that takes no part in a step, while rows are only added.
LEMMA VisitKept ==
  ASSUME NEW r \in Requests, Visit(r),
         step'[r] = step[r], person'[r] = person[r], name'[r] = name[r],
         r \in known' <=> r \in known, r \in faulted => r \in faulted',
         \A p \in People : identities[p] # Nobody => identities'[p] = identities[p]
  PROVE  Visit(r)'
BY DEF Visit

LEMMA BusyShrinks ==
  ASSUME UsingInv, using' \subseteq using, NEW w \in Workers
  PROVE  IsFiniteSet(Busy(w)') /\ Cardinality(Busy(w)') <= PoolMax
<1>1. Busy(w)' \subseteq Busy(w)
  BY DEF Busy
<1>2. IsFiniteSet(Busy(w)) /\ Cardinality(Busy(w)) <= PoolMax
  BY DEF UsingInv
<1>3. /\ IsFiniteSet(Busy(w)')
      /\ Cardinality(Busy(w)') <= Cardinality(Busy(w))
      /\ Cardinality(Busy(w)') \in Nat /\ Cardinality(Busy(w)) \in Nat
  BY <1>1, <1>2, FS_Subset, FS_CardinalityType
<1> QED BY <1>2, <1>3, IdentityAssumption

\* The row of the first INSERT stays.
LEMMA StoredIs ==
  ASSUME MeTypeOK, NEW r \in Requests, person[r] \in People
  PROVE  /\ Stored(r) \in [People -> Names \cup {Nobody}]
         /\ \A p \in People :
              identities[p] # Nobody => Stored(r)[p] = identities[p]
         /\ Stored(r)[person[r]] # Nobody
         /\ identities[person[r]] = Nobody => Stored(r)[person[r]] = ClaimOf(r)
BY CallerIs DEF MeTypeOK, Stored

LEMMA ArriveStep ==
  ASSUME MeInv, NEW r \in Requests, NEW k \in Kinds[r], Arrive(r, k)
  PROVE  MeInv'
<1> USE DEF MeInv
<1>0. /\ step[r] = "idle" /\ step' = [step EXCEPT ![r] = Admitted(k)]
      /\ UNCHANGED <<mode, using, orphans, name, housed, identities, faulted>>
      /\ Admitted(k) \in {"probe", "lookup", "select_workspace", "unauthorized",
                          "unimplemented", "failed"}
      /\ Caller(r) \in People
      /\ \/ /\ Admitted(k) = "select_workspace"
            /\ person' = [person EXCEPT ![r] = Caller(r)]
            /\ known' = known \cup {q \in {r} : identities[Caller(r)] # Nobody}
         \/ /\ Admitted(k) # "select_workspace"
            /\ UNCHANGED <<person, known>>
  BY AdmittedIs, CallerIs DEF Arrive
<1>1. MeTypeOK'
  BY <1>0 DEF MeTypeOK, Queries, Answers
<1>2. UsingInv'
  <2>1. \A u \in using : u[1] # r /\ u[1] \in Requests
    BY <1>0 DEF UsingInv, Queries, Inserts
  <2>2. \A w \in Workers : Busy(w)' = Busy(w)
    BY <1>0 DEF Busy
  <2> QED BY <1>0, <2>1, <2>2 DEF UsingInv, MeTypeOK
<1>3. OrphanInv'
  <2>1. \A u \in orphans : u[1] # r /\ u[1] \in Requests
    BY <1>0 DEF OrphanInv
  <2> QED BY <1>0, <2>1 DEF OrphanInv, MeTypeOK
<1>4. ASSUME NEW q \in Requests PROVE Visit(q)'
  <2>1. CASE q # r
    <3>1. step'[q] = step[q] /\ person'[q] = person[q] /\ (q \in known' <=> q \in known)
      BY <1>0, <2>1 DEF MeTypeOK
    <3> QED BY <1>0, <3>1, VisitKept DEF VisitInv
  <2>2. CASE q = r
    BY <1>0, <2>2 DEF VisitInv, Visit, MeTypeOK, Visiting
  <2> QED BY <2>1, <2>2
<1>5. VisitInv'
  BY <1>4 DEF VisitInv
<1> QED BY <1>1, <1>2, <1>3, <1>5

LEMMA AcquireStep ==
  ASSUME MeInv, NEW r \in Requests, Acquire(r) PROVE MeInv'
<1> USE DEF MeInv
<1> DEFINE u == <<r, step[r]>>
<1>0. /\ u \in Requests \X Queries /\ u \notin using
      /\ using' = using \cup {u} /\ Free(WorkerOf[r])
      /\ UNCHANGED <<mode, step, orphans, person, name, housed, identities,
                     known, faulted>>
  BY DEF Acquire
<1>1. ASSUME NEW w \in Workers
      PROVE  IsFiniteSet(Busy(w)') /\ Cardinality(Busy(w)') <= PoolMax
  <2>1. /\ IsFiniteSet(Busy(w)) /\ Cardinality(Busy(w)) <= PoolMax
        /\ Cardinality(Busy(w)) \in Nat
    BY FS_CardinalityType DEF UsingInv
  <2>2. CASE w = WorkerOf[r]
    <3>1. Busy(w)' = Busy(w) \cup {u} /\ u \notin Busy(w)
      BY <1>0, <2>2 DEF Busy
    <3>2. /\ IsFiniteSet(Busy(w)')
          /\ Cardinality(Busy(w)') = Cardinality(Busy(w)) + 1
      <4> HIDE DEF u
      <4>1. /\ IsFiniteSet(Busy(w) \cup {u})
            /\ Cardinality(Busy(w) \cup {u}) =
                 IF u \in Busy(w) THEN Cardinality(Busy(w)) ELSE Cardinality(Busy(w)) + 1
        BY <2>1, FS_AddElement
      <4> QED BY <3>1, <4>1
    <3> QED BY <1>0, <2>1, <2>2, <3>2, IdentityAssumption DEF Free
  <2>3. CASE w # WorkerOf[r]
    <3>1. Busy(w)' = Busy(w)
      BY <1>0, <2>3 DEF Busy
    <3> QED BY <2>1, <3>1
  <2> QED BY <2>2, <2>3
<1>2. \A x \in using' : x \in Requests \X Queries /\ step[x[1]] = x[2]
  BY <1>0 DEF UsingInv
<1> QED BY <1>0, <1>1, <1>2 DEF UsingInv, MeTypeOK, OrphanInv, VisitInv, Visit

\* A handler goes on; no other does.
LEMMA ReturnStep ==
  ASSUME MeInv, NEW r \in Requests,
         NEW s \in Queries \cup Answers, Return(r, s)
  PROVE  /\ UsingInv'
         /\ step' \in [Requests -> {"idle"} \cup Queries \cup Answers]
         /\ step'[r] = s
         /\ \A q \in Requests : q # r => step'[q] = step[q]
         /\ \A u \in orphans : step'[u[1]] \in {"failed", "lost"}
<1> USE DEF MeInv
<1>0. /\ <<r, step[r]>> \in using
      /\ using' = using \ {<<r, step[r]>>}
      /\ step' = [step EXCEPT ![r] = s]
      /\ step[r] \in Queries
  BY DEF Return, Released, UsingInv
<1>1. /\ step' \in [Requests -> {"idle"} \cup Queries \cup Answers]
      /\ step'[r] = s
      /\ \A q \in Requests : q # r => step'[q] = step[q]
  BY <1>0 DEF MeTypeOK
<1>2. ASSUME NEW u \in using' PROVE u \in Requests \X Queries /\ step'[u[1]] = u[2]
  <2>1. u \in Requests \X Queries /\ step[u[1]] = u[2] /\ u # <<r, step[r]>>
    BY <1>0 DEF UsingInv
  <2>2. u[1] # r
    BY <2>1
  <2> QED BY <1>1, <2>1, <2>2
<1>3. UsingInv'
  BY <1>0, <1>2, BusyShrinks DEF UsingInv
<1>4. \A u \in orphans : step'[u[1]] \in {"failed", "lost"}
  <2>1. \A u \in orphans : u[1] # r /\ u[1] \in Requests
    BY <1>0 DEF OrphanInv, Queries, Inserts
  <2> QED BY <1>1, <2>1 DEF OrphanInv
<1> QED BY <1>1, <1>3, <1>4

\* The statements that neither read nor write an identity.
LEMMA PlainQueryStep ==
  ASSUME MeInv, NEW r \in Requests,
         Probe(r) \/ Lookup(r) \/ SelectWorkspace(r) \/ InsertWorkspace(r)
  PROVE  MeInv'
<1> USE DEF MeInv
<1>1. PICK s \in {"ok", "unauthorized", "select_identity", "insert_workspace"} :
        /\ Return(r, s)
        /\ s \in Visiting => step[r] \in Visiting
        /\ step[r] \notin {"idle", "ok"} /\ housed' \in BOOLEAN
        /\ UNCHANGED <<mode, orphans, person, name, identities, known, faulted>>
  BY DEF Probe, Lookup, SelectWorkspace, InsertWorkspace, Visiting, MeTypeOK
<1>2. /\ UsingInv'
      /\ step' \in [Requests -> {"idle"} \cup Queries \cup Answers]
      /\ step'[r] = s
      /\ \A q \in Requests : q # r => step'[q] = step[q]
      /\ \A u \in orphans : step'[u[1]] \in {"failed", "lost"}
  BY <1>1, ReturnStep DEF Queries, Inserts, Answers
<1>3. MeTypeOK' /\ OrphanInv'
  BY <1>1, <1>2 DEF MeTypeOK, OrphanInv
<1>4. ASSUME NEW q \in Requests PROVE Visit(q)'
  <2>1. CASE q # r
    BY <1>1, <1>2, <2>1, VisitKept DEF VisitInv
  <2>2. CASE q = r
    BY <1>1, <1>2, <2>2 DEF VisitInv, Visit, Visiting
  <2> QED BY <2>1, <2>2
<1> QED BY <1>2, <1>3, <1>4 DEF VisitInv

LEMMA SelectIdentityStep ==
  ASSUME MeInv, NEW r \in Requests, SelectIdentity(r) PROVE MeInv'
<1> USE DEF MeInv
<1>1. PICK s \in {"ok", "insert_identity"} :
        /\ Return(r, s) /\ step[r] = "select_identity"
        /\ \/ /\ s = "insert_identity" /\ identities[person[r]] = Nobody
              /\ UNCHANGED name
           \/ /\ s = "ok" /\ identities[person[r]] # Nobody
              /\ name' = [name EXCEPT ![r] = identities[person[r]]]
        /\ UNCHANGED <<mode, orphans, person, housed, identities, known, faulted>>
  BY DEF SelectIdentity, Unknown
<1>2. /\ UsingInv'
      /\ step' \in [Requests -> {"idle"} \cup Queries \cup Answers]
      /\ step'[r] = s
      /\ \A q \in Requests : q # r => step'[q] = step[q]
      /\ \A u \in orphans : step'[u[1]] \in {"failed", "lost"}
  BY <1>1, ReturnStep DEF Queries, Inserts, Answers
<1>3. person[r] \in People
  BY <1>1 DEF VisitInv, Visit, Visiting
<1>4. MeTypeOK' /\ OrphanInv'
  BY <1>1, <1>2, <1>3 DEF MeTypeOK, OrphanInv
<1>5. ASSUME NEW q \in Requests PROVE Visit(q)'
  <2>1. CASE q # r
    <3>1. name'[q] = name[q]
      BY <1>1, <2>1 DEF MeTypeOK
    <3> QED BY <1>1, <1>2, <2>1, <3>1, VisitKept DEF VisitInv
  <2>2. CASE q = r
    <3>1. name'[r] = name[r] \/ name'[r] = identities[person[r]]
      BY <1>1 DEF MeTypeOK
    <3> QED BY <1>1, <1>2, <1>3, <2>2, <3>1 DEF VisitInv, Visit
  <2> QED BY <2>1, <2>2
<1> QED BY <1>2, <1>4, <1>5 DEF VisitInv

LEMMA InsertIdentityStep ==
  ASSUME MeInv, NEW r \in Requests, InsertIdentity(r) PROVE MeInv'
<1> USE DEF MeInv
<1>1. PICK s \in {"ok", "failed"} :
        /\ Return(r, s) /\ step[r] = "insert_identity"
        /\ \/ /\ s = "failed" /\ identities[person[r]] # Nobody
              /\ UNCHANGED name
           \/ /\ s = "ok" /\ identities[person[r]] = Nobody
              /\ name' = [name EXCEPT ![r] = ClaimOf(r)]
        /\ identities' = Stored(r)
        /\ UNCHANGED <<mode, orphans, person, housed, known, faulted>>
  BY DEF InsertIdentity, Rejected
<1>2. /\ UsingInv'
      /\ step' \in [Requests -> {"idle"} \cup Queries \cup Answers]
      /\ step'[r] = s
      /\ \A q \in Requests : q # r => step'[q] = step[q]
      /\ \A u \in orphans : step'[u[1]] \in {"failed", "lost"}
  BY <1>1, ReturnStep DEF Queries, Inserts, Answers
<1>3. person[r] \in People
  BY <1>1 DEF VisitInv, Visit, Visiting
<1>4. /\ identities' \in [People -> Names \cup {Nobody}]
      /\ \A p \in People : identities[p] # Nobody => identities'[p] = identities[p]
      /\ identities'[person[r]] # Nobody
      /\ identities[person[r]] = Nobody => identities'[person[r]] = ClaimOf(r)
  BY <1>1, <1>3, StoredIs
<1>5. MeTypeOK' /\ OrphanInv'
  BY <1>1, <1>2, <1>4, CallerIs DEF MeTypeOK, OrphanInv
<1>6. ASSUME NEW q \in Requests PROVE Visit(q)'
  <2>1. CASE q # r
    <3>1. name'[q] = name[q]
      BY <1>1, <2>1 DEF MeTypeOK
    <3> QED BY <1>1, <1>2, <1>4, <2>1, <3>1, VisitKept DEF VisitInv
  <2>2. CASE q = r
    <3>1. r \notin known
      BY <1>1 DEF VisitInv, Visit
    <3>2. CASE s = "ok"
      BY <1>1, <1>2, <1>3, <1>4, <2>2, <3>1, <3>2
         DEF Visit, Visiting, MeTypeOK
    <3>3. CASE s = "failed"
      <4>1. Visit(r) /\ name' = name
        BY <1>1, <3>3 DEF VisitInv
      <4> QED BY <1>1, <1>2, <1>3, <1>4, <2>2, <3>1, <3>3, <4>1
              DEF Visit, Visiting
    <3> QED BY <3>2, <3>3
  <2> QED BY <2>1, <2>2
<1> QED BY <1>2, <1>5, <1>6 DEF VisitInv

\* Handlers that are gone, whatever their answer, and the statements they leave.
LEMMA GoneStep ==
  ASSUME MeInv, NEW R \in SUBSET Requests, NEW a \in [R -> Answers],
         \A r \in R : step[r] \in Queries,
         \A r \in R : a[r] = "failed" => r \in faulted',
         step' = [r \in Requests |-> IF r \in R THEN a[r] ELSE step[r]],
         orphans' = orphans \cup Orphaned(R),
         \A r \in R : step[r] \in Inserts => a[r] \in {"failed", "lost"},
         using' \subseteq using,
         \A u \in using' : u[1] \notin R,
         faulted \subseteq faulted', faulted' \subseteq Requests,
         UNCHANGED <<mode, person, name, housed, identities, known>>
  PROVE  MeInv'
<1> USE DEF MeInv
<1>1. MeTypeOK'
  BY DEF MeTypeOK
<1>2. UsingInv'
  <2>1. \A u \in using' : u \in Requests \X Queries /\ step'[u[1]] = u[2]
    BY DEF UsingInv
  <2> QED BY <2>1, BusyShrinks DEF UsingInv
<1>3. OrphanInv'
  <2>1. ASSUME NEW u \in orphans
        PROVE  /\ u \in Requests \X Inserts /\ person'[u[1]] \in People
               /\ step'[u[1]] \in {"failed", "lost"}
    <3>1. u[1] \in Requests /\ u[1] \notin R
      BY DEF OrphanInv, Queries, Inserts
    <3> QED BY <3>1 DEF OrphanInv
  <2>2. ASSUME NEW u \in Orphaned(R)
        PROVE  /\ u \in Requests \X Inserts /\ person'[u[1]] \in People
               /\ step'[u[1]] \in {"failed", "lost"}
    <3>1. /\ u \in Requests \X Queries /\ step[u[1]] = u[2]
          /\ u[1] \in R /\ u[2] \in Inserts
      BY DEF Orphaned, UsingInv
    <3>2. person[u[1]] \in People
      BY <3>1 DEF VisitInv, Visit, Visiting, Inserts
    <3> QED BY <3>1, <3>2
  <2> QED BY <2>1, <2>2 DEF OrphanInv
<1>4. ASSUME NEW q \in Requests PROVE Visit(q)'
  <2>1. CASE q \notin R
    BY <2>1, VisitKept DEF VisitInv
  <2>2. CASE q \in R
    <3>1. step'[q] = a[q] /\ a[q] \in Answers
      BY <2>2
    <3>2. step[q] # "ok"
      BY <2>2 DEF Queries, Inserts
    <3> QED BY <2>2, <3>1, <3>2 DEF VisitInv, Visit, Visiting, Answers
  <2> QED BY <2>1, <2>2
<1> QED BY <1>1, <1>2, <1>3, <1>4 DEF VisitInv

LEMMA FailStep == ASSUME MeInv, NEW r \in Requests, Fail(r) PROVE MeInv'
<1> DEFINE answer == IF step[r] = "probe" THEN "not_ready" ELSE "failed"
           a == [q \in {r} |-> answer]
<1>1. a \in [{r} -> Answers] /\ a[r] = answer
  BY DEF Answers
<1>2. /\ step[r] \in Queries /\ {r} \in SUBSET Requests
      /\ step' = [q \in Requests |-> IF q \in {r} THEN a[q] ELSE step[q]]
  BY <1>1 DEF Fail, MeInv, MeTypeOK
<1>3. /\ orphans' = orphans \cup Orphaned({r})
      /\ using' \subseteq using /\ \A u \in using' : u[1] \notin {r}
      /\ faulted' = faulted \cup {r} /\ faulted \subseteq Requests
      /\ UNCHANGED <<mode, person, name, housed, identities, known>>
  BY DEF Fail, MeInv, MeTypeOK
<1>4. \A q \in {r} : step[q] \in Inserts => a[q] \in {"failed", "lost"}
  BY <1>1 DEF Inserts
<1> HIDE DEF a
<1> QED BY <1>1, <1>2, <1>3, <1>4, GoneStep

LEMMA PerishStep == ASSUME MeInv, NEW w \in Workers, Perish(w) PROVE MeInv'
<1> DEFINE R == InProgress(w)
           a == [q \in R |-> "lost"]
<1>1. a \in [R -> Answers] /\ \A r \in R : a[r] = "lost"
  BY DEF Answers
<1>2. /\ R \in SUBSET Requests /\ \A r \in R : step[r] \in Queries
      /\ step' = [q \in Requests |-> IF q \in R THEN a[q] ELSE step[q]]
  BY DEF Perish, InProgress
<1>3. ASSUME NEW u \in using' PROVE u \in using /\ u[1] \notin R
  BY <1>3 DEF Perish, Busy, InProgress
<1>4. /\ orphans' = orphans \cup Orphaned(R)
      /\ faulted' = faulted /\ faulted \subseteq Requests
      /\ UNCHANGED <<mode, person, name, housed, identities, known>>
  BY DEF Perish, MeInv, MeTypeOK
<1> HIDE DEF a, R
<1>5. using' \subseteq using /\ \A u \in using' : u[1] \notin R
  BY <1>3
<1>6. \A r \in R : /\ a[r] = "failed" => r \in faulted'
                   /\ step[r] \in Inserts => a[r] \in {"failed", "lost"}
  BY <1>1
<1> QED BY <1>1, <1>2, <1>4, <1>5, <1>6, GoneStep

LEMMA OrphanStep ==
  ASSUME MeInv, NEW u \in orphans, ExecuteOrphan(u) PROVE MeInv'
<1> USE DEF MeInv
<1>1. /\ orphans' \subseteq orphans /\ housed' \in BOOLEAN
      /\ identities' = identities \/ identities' = Stored(u[1])
      /\ UNCHANGED <<mode, step, using, person, name, known, faulted>>
  BY DEF ExecuteOrphan, MeTypeOK
<1>2. u[1] \in Requests /\ person[u[1]] \in People
  BY DEF OrphanInv
<1>3. /\ identities' \in [People -> Names \cup {Nobody}]
      /\ \A p \in People : identities[p] # Nobody => identities'[p] = identities[p]
  BY <1>1, <1>2, StoredIs DEF MeTypeOK
<1>4. MeTypeOK' /\ OrphanInv'
  BY <1>1, <1>3 DEF MeTypeOK, OrphanInv
<1>5. UsingInv'
  BY <1>1, BusyShrinks DEF UsingInv
<1>6. ASSUME NEW q \in Requests PROVE Visit(q)'
  BY <1>1, <1>3, VisitKept DEF VisitInv
<1> QED BY <1>4, <1>5, <1>6 DEF VisitInv

-----------------------------------------------------------------------------
(* The service.                                                            *)

\* The start-up and the requests leave each other's invariant alone.
ServiceInv == StartInv /\ MeInv

LEMMA NextService == ServiceInv /\ [Next]_vars => ServiceInv'
<1> SUFFICES ASSUME ServiceInv, [Next]_vars PROVE ServiceInv'
  OBVIOUS
<1>1. StartInv'
  <2>1. [StartNext]_startVars
    BY DEF Next, Life, Perish, StartNext, vars
  <2> QED BY <2>1, NextStart DEF ServiceInv
<1>2. MeInv'
  <2>1. CASE UNCHANGED meVars
    <3>1. UsingInv'
      BY <2>1, BusyShrinks DEF meVars, ServiceInv, MeInv, UsingInv
    <3> QED BY <2>1, <3>1
            DEF meVars, ServiceInv, MeInv, MeTypeOK, OrphanInv, VisitInv, Visit
  <2>2. CASE Serving
    BY <2>2, ArriveStep, AcquireStep, PlainQueryStep, SelectIdentityStep,
       InsertIdentityStep, FailStep, OrphanStep DEF Serving, Query, ServiceInv
  <2>3. ASSUME NEW w \in Workers, Perish(w) PROVE MeInv'
    BY <2>3, PerishStep DEF ServiceInv
  <2> QED BY <2>1, <2>2, <2>3 DEF Next, vars
<1> QED BY <1>1, <1>2 DEF ServiceInv

\* Both invariants hold while workers come and go and requests are served.
THEOREM ServiceInvariance == Spec => []ServiceInv
<1>1. Init => ServiceInv
  BY InitStart, InitMe DEF Init, ServiceInv
<1> QED BY <1>1, NextService, PTL DEF Spec

\* Every variable keeps its type, and no pool lends more than it has.
THEOREM TypeCorrect == Spec => []IdentityTypeOK
<1>1. ServiceInv => IdentityTypeOK
  <2> SUFFICES ASSUME ServiceInv PROVE IdentityTypeOK
    OBVIOUS
  <2>1. using \subseteq Requests \X Queries /\ orphans \subseteq Requests \X Inserts
    BY DEF ServiceInv, MeInv, UsingInv, OrphanInv
  <2> QED BY <2>1 DEF ServiceInv, StartInv, MeInv, MeTypeOK, UsingInv, IdentityTypeOK
<1> QED BY ServiceInvariance, <1>1, PTL

\* No two sessions are in the middle of a schema statement, those of dead
\* workers included.
THEOREM OneBuilderAlways == Spec => []OneBuilder
<1>1. ServiceInv => OneBuilder
  BY StartInvImplies DEF ServiceInv
<1> QED BY ServiceInvariance, <1>1, PTL

\* A worker serves only when the whole schema is there.
THEOREM SchemaBeforeServiceAlways == Spec => []SchemaBeforeService
<1>1. ServiceInv => SchemaBeforeService
  BY StartInvImplies DEF ServiceInv
<1> QED BY ServiceInvariance, <1>1, PTL

\* The schema's statements take effect in their order, in which a table comes
\* after those it refers to, though workers die or are refused in the middle
\* and the statement of a dead one may still be executed.
SchemaInOrder == \A i \in built : 1 .. i \subseteq built

\* A statement is executed only after all before it, its worker dead or not.
OrderInv ==
  /\ SchemaInOrder
  /\ \A x \in Sessions : \A i \in Statements : i < stmt[x] => i \in built

LEMMA OrderStep == StartInv /\ OrderInv /\ [StartNext]_startVars => OrderInv'
<1> SUFFICES ASSUME StartInv, OrderInv, [StartNext]_startVars PROVE OrderInv'
  OBVIOUS
<1> USE StartupAssumption DEF StartInv, TypeOK, Sessions, Statements
<1>1. ASSUME NEW w \in Workers, Send(w) PROVE OrderInv'
  <2>1. \A i \in Statements : i < next[w] => i \in built
    BY DEF SchemaInv
  <2> QED BY <1>1, <2>1 DEF Send, OrderInv, SchemaInOrder
<1>2. ASSUME NEW x \in Sessions, Execute(x) PROVE OrderInv'
  <2>1. /\ stmt[x] \in Statements /\ built' = built \cup {stmt[x]}
        /\ stmt' = [stmt EXCEPT ![x] = 0]
    BY <1>2 DEF Execute
  <2>2. \A i \in 1 .. stmt[x] : i \in built'
    BY <2>1 DEF OrderInv
  <2>3. SchemaInOrder'
    BY <2>1, <2>2 DEF OrderInv, SchemaInOrder
  <2> QED BY <2>1, <2>3 DEF OrderInv
<1>3. ASSUME NEW w \in Workers, Refuse(w) PROVE OrderInv'
  BY <1>3 DEF Refuse, OrderInv, SchemaInOrder
<1>4. CASE UNCHANGED <<stmt, built>>
  BY <1>4 DEF OrderInv, SchemaInOrder
<1>5. \/ \E w \in Workers : Send(w) \/ Refuse(w)
      \/ \E x \in Sessions : Execute(x)
      \/ UNCHANGED <<stmt, built>>
  BY DEF StartNext, startVars, Opening, Backend, Start, Serve, Stop, Close, Die,
         Grant, EndSession
<1> QED BY <1>1, <1>2, <1>3, <1>4, <1>5

\* However many starts are cut off, what is there of the schema is always a
\* beginning of it, so that the next start can go on.
THEOREM SchemaInOrderAlways == Spec => []SchemaInOrder
<1>1. Init => OrderInv
  BY StartupAssumption
     DEF Init, StartInit, OrderInv, SchemaInOrder, Sessions, Statements
<1>2. ServiceInv /\ OrderInv /\ [Next]_vars => OrderInv'
  <2>1. [Next]_vars => [StartNext]_startVars
    BY DEF Next, Life, Perish, StartNext, vars
  <2> QED BY <2>1, OrderStep DEF ServiceInv
<1>3. OrderInv => SchemaInOrder
  BY DEF OrderInv
<1> QED BY <1>1, <1>2, <1>3, ServiceInvariance, PTL DEF Spec

\* Whoever is answered is told the name that is stored, and that stays.
THEOREM NamesAgreeAlways == Spec => []NamesAgree
<1>1. ServiceInv => NamesAgree
  BY DEF ServiceInv, MeInv, VisitInv, Visit, NamesAgree
<1> QED BY ServiceInvariance, <1>1, PTL

\* Only a first visit, overtaken by another, is answered 500 by a database
\* that works.
THEOREM FailsOnlyAtFirstAlways == Spec => []FailsOnlyAtFirst
<1>1. ServiceInv => FailsOnlyAtFirst
  BY DEF ServiceInv, MeInv, VisitInv, Visit, FailsOnlyAtFirst
<1> QED BY ServiceInvariance, <1>1, PTL

-----------------------------------------------------------------------------
(* A person's name is written once: Identity implements WriteOnce.         *)

Held == [p \in People |-> {identities[p]} \ {Nobody}]

Told == [r \in Requests |->
           IF name[r] = Nobody THEN {} ELSE {<<person[r], name[r]>>}]

LEMMA InitNames == Init => PersonName!Init
<1> SUFFICES ASSUME Init PROVE PersonName!Init
  OBVIOUS
<1>1. \A p \in People : {identities[p]} \ {Nobody} = {}
  BY DEF Init
<1>2. \A r \in Requests : name[r] = Nobody
  BY DEF Init
<1> QED BY <1>1, <1>2 DEF PersonName!Init

\* An INSERT writes the name, or finds it written.
LEMMA StoredWrites ==
  ASSUME MeTypeOK, NEW r \in Requests, person[r] \in People,
         identities' = Stored(r)
  PROVE  UNCHANGED Held \/ \E p \in People : PersonName!Write(p)
<1>1. CASE identities[person[r]] # Nobody
  BY <1>1 DEF Stored, Held
<1>2. CASE identities[person[r]] = Nobody
  <2>1. /\ identities' = [identities EXCEPT ![person[r]] = ClaimOf(r)]
        /\ identities \in [People -> Names \cup {Nobody}]
        /\ ClaimOf(r) \in Names /\ ClaimOf(r) # Nobody
    BY <1>2, CallerIs DEF Stored, MeTypeOK
  <2>2. {identities[person[r]]} \ {Nobody} = {} /\ {ClaimOf(r)} \ {Nobody} = {ClaimOf(r)}
    BY <1>2, <2>1
  <2>3. Held' = [Held EXCEPT ![person[r]] = {ClaimOf(r)}]
    BY <2>1, <2>2 DEF Held
  <2>4. person[r] \in People /\ PersonName!Write(person[r])
    BY <2>1, <2>2, <2>3 DEF PersonName!Write, Held
  <2> QED BY <2>4 DEF PersonName!Write
<1> QED BY <1>1, <1>2

\* A visit is answered with the name that is stored then.
LEMMA AnswerTells ==
  ASSUME MeTypeOK, NEW r \in Requests, person[r] \in People, name[r] = Nobody,
         identities' \in [People -> Names \cup {Nobody}],
         identities'[person[r]] # Nobody,
         person' = person, name' = [name EXCEPT ![r] = identities'[person[r]]]
  PROVE  PersonName!Tell(r)
<1> DEFINE p == person[r]
           v == identities'[person[r]]
<1>1. v \in Names /\ v # Nobody /\ v \in {identities'[p]} \ {Nobody}
  OBVIOUS
<1>2. Told[r] = {}
  BY DEF Told
<1>3. Told' = [Told EXCEPT ![r] = {<<p, v>>}]
  <2>1. name'[r] = v /\ \A q \in Requests \ {r} : name'[q] = name[q]
    BY DEF MeTypeOK
  <2> HIDE DEF v
  <2> QED BY <1>1, <2>1 DEF Told
<1> HIDE DEF v
<1> QED BY <1>1, <1>2, <1>3 DEF PersonName!Tell, Told

\* Steps of the requests, one kind each.
LEMMA ServingRefines ==
  ASSUME MeInv, MeInv', Serving PROVE PersonName!Next
<1> USE DEF MeInv
<1>1. ASSUME NEW r \in Requests, NEW k \in Kinds[r], Arrive(r, k)
      PROVE  UNCHANGED <<Held, Told>>
  <2>1. name[r] = Nobody /\ identities' = identities /\ name' = name
    BY <1>1 DEF Arrive, VisitInv, Visit
  <2>2. \A q \in Requests \ {r} : person'[q] = person[q]
    BY <1>1 DEF Arrive, MeTypeOK
  <2> QED BY <2>1, <2>2 DEF Held, Told
<1>2. ASSUME NEW r \in Requests, SelectIdentity(r)
      PROVE  UNCHANGED Held /\ (UNCHANGED Told \/ PersonName!Tell(r))
  <2>1. /\ identities' = identities /\ person' = person
        /\ step[r] = "select_identity"
    BY <1>2 DEF SelectIdentity
  <2>2. person[r] \in People /\ name[r] = Nobody
    BY <2>1 DEF VisitInv, Visit, Visiting
  <2>3. \/ UNCHANGED name
        \/ /\ identities[person[r]] # Nobody
           /\ name' = [name EXCEPT ![r] = identities[person[r]]]
    BY <1>2 DEF SelectIdentity, Unknown
  <2>4. CASE UNCHANGED name
    BY <2>1, <2>4 DEF Held, Told
  <2>5. CASE /\ identities[person[r]] # Nobody
             /\ name' = [name EXCEPT ![r] = identities[person[r]]]
    BY <2>1, <2>2, <2>5, AnswerTells DEF MeTypeOK, Held
  <2> QED BY <2>3, <2>4, <2>5
<1>3. ASSUME NEW r \in Requests, InsertIdentity(r)
      PROVE  /\ UNCHANGED Held \/ \E p \in People : PersonName!Write(p)
             /\ UNCHANGED Told \/ PersonName!Tell(r)
  <2>1. /\ identities' = Stored(r) /\ person' = person
        /\ step[r] = "insert_identity"
    BY <1>3 DEF InsertIdentity
  <2>2. person[r] \in People /\ name[r] = Nobody
    BY <2>1 DEF VisitInv, Visit, Visiting
  <2>3. UNCHANGED Held \/ \E p \in People : PersonName!Write(p)
    BY <2>1, <2>2, StoredWrites
  <2>4. \/ UNCHANGED name
        \/ /\ identities[person[r]] = Nobody
           /\ name' = [name EXCEPT ![r] = ClaimOf(r)]
    BY <1>3 DEF InsertIdentity, Rejected
  <2>5. CASE UNCHANGED name
    BY <2>1, <2>3, <2>5 DEF Told
  <2>6. CASE /\ identities[person[r]] = Nobody
             /\ name' = [name EXCEPT ![r] = ClaimOf(r)]
    <3>1. /\ identities'[person[r]] = ClaimOf(r)
          /\ identities' \in [People -> Names \cup {Nobody}]
      BY <2>1, <2>2, <2>6, StoredIs
    <3> QED BY <2>1, <2>2, <2>3, <2>6, <3>1, AnswerTells, CallerIs
  <2> QED BY <2>4, <2>5, <2>6
<1>4. ASSUME NEW u \in orphans, ExecuteOrphan(u)
      PROVE  /\ UNCHANGED Held \/ \E p \in People : PersonName!Write(p)
             /\ UNCHANGED Told
  <2>1. /\ identities' = identities \/ identities' = Stored(u[1])
        /\ UNCHANGED <<person, name>>
    BY <1>4 DEF ExecuteOrphan
  <2>2. u[1] \in Requests /\ person[u[1]] \in People
    BY DEF OrphanInv
  <2>3. UNCHANGED Held \/ \E p \in People : PersonName!Write(p)
    BY <2>1, <2>2, StoredWrites DEF Held
  <2> QED BY <2>1, <2>3 DEF Told
<1>5. ASSUME NEW r \in Requests,
             \/ Acquire(r) \/ Fail(r) \/ Probe(r) \/ Lookup(r)
             \/ SelectWorkspace(r) \/ InsertWorkspace(r)
      PROVE  UNCHANGED <<Held, Told>>
  <2>1. UNCHANGED <<person, name, identities>>
    BY <1>5 DEF Acquire, Fail, Probe, Lookup, SelectWorkspace, InsertWorkspace
  <2> QED BY <2>1 DEF Held, Told
<1>6. /\ UNCHANGED Told \/ \E r \in Requests : PersonName!Tell(r)
      /\ UNCHANGED Held \/ \E p \in People : PersonName!Write(p)
  BY <1>1, <1>2, <1>3, <1>4, <1>5 DEF Serving, Query
<1> QED BY <1>6 DEF PersonName!Next, Held, Told

LEMMA NextNames ==
  ServiceInv /\ ServiceInv' /\ [Next]_vars => [PersonName!Next]_(PersonName!wVars)
<1> SUFFICES ASSUME ServiceInv, ServiceInv', [Next]_vars
             PROVE  [PersonName!Next]_(PersonName!wVars)
  OBVIOUS
<1>1. CASE Serving
  BY <1>1, ServingRefines DEF ServiceInv
<1>2. CASE UNCHANGED <<person, name, identities>>
  <2>1. UNCHANGED <<Held, Told>>
    BY <1>2 DEF Held, Told
  <2> QED BY <2>1 DEF PersonName!wVars, Held, Told
<1> QED BY <1>1, <1>2 DEF Next, Perish, vars, meVars

\* The name that is stored first is the one every answer gives: whoever wrote
\* it, whichever worker answers and whatever a later JWT claims.
THEOREM ImplementsWriteOnceAlways == Spec => ImplementsWriteOnce
<1>1. Init => PersonName!Init
  BY InitNames
<1>2. ServiceInv /\ ServiceInv' /\ [Next]_vars
        => [PersonName!Next]_(PersonName!wVars)
  BY NextNames
<1> QED BY <1>1, <1>2, ServiceInvariance, PTL
        DEF Spec, ImplementsWriteOnce, PersonName!Spec

=============================================================================
