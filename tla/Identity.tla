------------------------------ MODULE Identity ------------------------------
(***************************************************************************)
(* Requests of the workers that Startup brings up: who is asking           *)
(* (app/auth.py), GET /me (app/routers/me.py) and GET /ready               *)
(* (app/routers/health.py), over the connection pool of app/db.py.         *)
(*                                                                         *)
(* Every statement of a handler takes a connection of its worker's pool,   *)
(* commits by itself and gives the connection back.  An INSERT that was    *)
(* sent may be executed after its handler is gone.                         *)
(*                                                                         *)
(* The requests are those of one tenant; which of its workspaces they find *)
(* is the subject of Directory.                                            *)
(***************************************************************************)
EXTENDS Startup

CONSTANTS
  Requests,  \* the requests ever made
  WorkerOf,  \* the worker that serves each
  Kinds,     \* what each may be: a /ready, or a /me with some credential
  Subject,   \* the person its JWT names
  Claim,     \* the display name in its JWT
  Dev,       \* the person, and the name, of the bypass
  Modes,     \* how the service may be configured
  PoolMax,   \* connections of a pool, 10
  Nobody     \* no person, no name

ASSUME IdentityAssumption ==
  /\ WorkerOf \in [Requests -> Workers]
  /\ Kinds \in [Requests ->
       SUBSET {"ready", "none", "machine", "malformed", "no_object", "jwt"}]
  /\ DOMAIN Subject = Requests /\ DOMAIN Claim = Requests
  /\ Modes \subseteq {"bypass", "unverified", "verified"}
  /\ PoolMax \in Nat \ {0}
  /\ \A r \in Requests : Nobody \notin {Subject[r], Claim[r], Dev}

VARIABLES
  mode,        \* AUTH_ENABLED and VERIFY_CLERK, of the environment
  step,        \* the statement each handler is at, or its answer
  using,       \* the statements that have a connection
  orphans,     \* INSERTs whose handler is gone, not executed yet
  person,      \* whom the visit is taken to come from
  name,        \* the display name each visit is answered with
  housed,      \* whether the tenant has a workspace row
  identities,  \* human_identities: the name of each person, if any
  known,       \* history: visits of a person who had a row already
  faulted      \* history: requests that lost their connection

meVars == <<mode, step, using, orphans, person, name, housed, identities,
            known, faulted>>
vars == <<startVars, meVars>>

People == {Dev} \cup {Subject[r] : r \in Requests}
Names == {Dev} \cup {Claim[r] : r \in Requests}

Inserts == {"insert_workspace", "insert_identity"}
Queries == {"probe", "lookup", "select_workspace", "select_identity"} \cup Inserts
Answers == {"ok", "not_ready", "unauthorized", "unimplemented", "failed", "lost"}

Init ==
  /\ StartInit
  /\ mode \in Modes
  /\ step = [r \in Requests |-> "idle"]
  /\ using = {}
  /\ orphans = {}
  /\ person = [r \in Requests |-> Nobody]
  /\ name = [r \in Requests |-> Nobody]
  /\ housed = FALSE
  /\ identities = [p \in People |-> Nobody]
  /\ known = {}
  /\ faulted = {}

-----------------------------------------------------------------------------
(* get_auth_context.                                                       *)

\* The first statement of a request, or the answer it gets at once: 401, 501 for
\* any JWT when VERIFY_CLERK is on, or 500 for one whose payload is JSON but no
\* object, which is decoded and has no claims to get.
Admitted(k) ==
  CASE k = "ready" -> "probe"
    [] k # "ready" /\ mode = "bypass" -> "select_workspace"
    [] k = "none" /\ mode # "bypass" -> "unauthorized"
    [] k = "machine" /\ mode # "bypass" -> "lookup"
    [] k \in {"malformed", "no_object", "jwt"} /\ mode = "verified" -> "unimplemented"
    [] k = "malformed" /\ mode = "unverified" -> "unauthorized"
    [] k = "no_object" /\ mode = "unverified" -> "failed"
    [] k = "jwt" /\ mode = "unverified" -> "select_workspace"

\* Whoever asks is Dev while authentication is off.
Caller(r) == IF mode = "bypass" THEN Dev ELSE Subject[r]

ClaimOf(r) == IF mode = "bypass" THEN Dev ELSE Claim[r]

Arrive(r, k) ==
  /\ step[r] = "idle" /\ worker[WorkerOf[r]] = "serving"
  /\ step' = [step EXCEPT ![r] = Admitted(k)]
  /\ IF Admitted(k) = "select_workspace"
     THEN /\ person' = [person EXCEPT ![r] = Caller(r)]
          /\ known' = known \cup {q \in {r} : identities[Caller(r)] # Nobody}
     ELSE UNCHANGED <<person, known>>
  /\ UNCHANGED <<mode, using, orphans, name, housed, identities, faulted>>

-----------------------------------------------------------------------------
(* The pool: execute and fetchrow.                                         *)

Busy(w) == {u \in using : WorkerOf[u[1]] = w}

\* A pool that lends one connection too many.
Free_OffByOne(w) == Cardinality(Busy(w)) <= PoolMax

Free(w) == Cardinality(Busy(w)) < PoolMax

\* _pg_pool.acquire(), and the statement is sent.
Acquire(r) ==
  /\ step[r] \in Queries /\ <<r, step[r]>> \notin using
  /\ Free(WorkerOf[r])
  /\ using' = using \cup {<<r, step[r]>>}
  /\ UNCHANGED <<mode, step, orphans, person, name, housed, identities, known, faulted>>

\* The next statement is sent while the connection is still held, as inside a
\* transaction() block.
Released_Nested(r) ==
  IF step[r] = "select_workspace" THEN using ELSE using \ {<<r, step[r]>>}

Released(r) == using \ {<<r, step[r]>>}

\* The statement r waits for returns, and r goes on to s.
Return(r, s) ==
  /\ <<r, step[r]>> \in using
  /\ using' = Released(r)
  /\ step' = [step EXCEPT ![r] = s]

\* SELECT 1.
Probe(r) ==
  /\ step[r] = "probe" /\ Return(r, "ok")
  /\ UNCHANGED <<mode, orphans, person, name, housed, identities, known, faulted>>

\* The lookup of a machine token, which others issue and revoke.
Lookup(r) ==
  /\ step[r] = "lookup"
  /\ Return(r, "ok") \/ Return(r, "unauthorized")
  /\ UNCHANGED <<mode, orphans, person, name, housed, identities, known, faulted>>

-----------------------------------------------------------------------------
(* GET /me for a person.                                                   *)

SelectWorkspace(r) ==
  /\ step[r] = "select_workspace"
  /\ Return(r, IF housed THEN "select_identity" ELSE "insert_workspace")
  /\ UNCHANGED <<mode, orphans, person, name, housed, identities, known, faulted>>

InsertWorkspace(r) ==
  /\ step[r] = "insert_workspace" /\ Return(r, "select_identity")
  /\ housed' = TRUE
  /\ UNCHANGED <<mode, orphans, person, name, identities, known, faulted>>

\* INSERT without a look whether the person has a row.
Unknown_Always(p) == TRUE

Unknown(p) == identities[p] = Nobody

SelectIdentity(r) ==
  /\ step[r] = "select_identity"
  /\ IF Unknown(person[r])
     THEN Return(r, "insert_identity") /\ UNCHANGED name
     ELSE /\ Return(r, "ok")
          /\ name' = [name EXCEPT ![r] = identities[person[r]]]
  /\ UNCHANGED <<mode, orphans, person, housed, identities, known, faulted>>

\* INSERT ... ON CONFLICT DO NOTHING.
Rejected_Never(p) == FALSE

\* UNIQUE (clerk_user_id)
Rejected(p) == identities[p] # Nobody

Stored(r) == IF identities[person[r]] = Nobody
             THEN [identities EXCEPT ![person[r]] = ClaimOf(r)] ELSE identities

\* A violated constraint is caught by nobody: 500.
InsertIdentity(r) ==
  /\ step[r] = "insert_identity"
  /\ IF Rejected(person[r])
     THEN Return(r, "failed") /\ UNCHANGED name
     ELSE /\ Return(r, "ok")
          /\ name' = [name EXCEPT ![r] = ClaimOf(r)]
  /\ identities' = Stored(r)
  /\ UNCHANGED <<mode, orphans, person, housed, known, faulted>>

-----------------------------------------------------------------------------
(* What goes wrong.                                                        *)

\* Statements that may still be executed when the handlers of R are gone.
Orphaned(R) == {u \in using : u[1] \in R /\ u[2] \in Inserts}

\* The database cannot be reached: /ready says so, all others answer 500.
Fail(r) ==
  /\ step[r] \in Queries
  /\ step' = [step EXCEPT ![r] = IF step[r] = "probe" THEN "not_ready" ELSE "failed"]
  /\ orphans' = orphans \cup Orphaned({r})
  /\ using' = {u \in using : u[1] # r}
  /\ faulted' = faulted \cup {r}
  /\ UNCHANGED <<mode, person, name, housed, identities, known>>

\* The database executes an INSERT that nobody waits for any more.
ExecuteOrphan(u) ==
  /\ u \in orphans
  /\ orphans' = orphans \ {u}
  /\ housed' = (housed \/ u[2] = "insert_workspace")
  /\ identities' = IF u[2] = "insert_identity" THEN Stored(u[1]) ELSE identities
  /\ UNCHANGED <<mode, step, using, person, name, known, faulted>>

InProgress(w) == {r \in Requests : WorkerOf[r] = w /\ step[r] \in Queries}

\* The worker dies with its requests.
Perish(w) ==
  LET R == InProgress(w)
  IN  /\ Die(w)
      /\ step' = [r \in Requests |-> IF r \in R THEN "lost" ELSE step[r]]
      /\ orphans' = orphans \cup Orphaned(R)
      /\ using' = using \ Busy(w)
      /\ UNCHANGED <<mode, person, name, housed, identities, known, faulted>>

-----------------------------------------------------------------------------

Query(r) ==
  \/ Probe(r)
  \/ Lookup(r)
  \/ SelectWorkspace(r)
  \/ InsertWorkspace(r)
  \/ SelectIdentity(r)
  \/ InsertIdentity(r)

Serving ==
  \/ \E r \in Requests : \E k \in Kinds[r] : Arrive(r, k)
  \/ \E r \in Requests : Acquire(r) \/ Query(r) \/ Fail(r)
  \/ \E u \in orphans : ExecuteOrphan(u)

\* A worker that stops finishes its requests before it closes the pool.
Life ==
  \/ \E w \in Workers :
       Opening(w) \/ Stop(w) \/ (InProgress(w) = {} /\ Close(w))
  \/ \E x \in Sessions : Backend(x)

Next ==
  \/ Serving /\ UNCHANGED startVars
  \/ Life /\ UNCHANGED meVars
  \/ \E w \in Workers : Perish(w)

\* Beside the fairness of StartSpec: a connection that is free goes to those
\* who wait for one, and what was sent on it returns or fails.
Spec ==
  /\ Init /\ [][Next]_vars
  /\ \A w \in Workers : WF_vars(Send(w) /\ UNCHANGED meVars)
                       /\ WF_vars(Serve(w) /\ UNCHANGED meVars)
  /\ \A x \in Sessions : WF_vars(Backend(x) /\ UNCHANGED meVars)
  /\ \A r \in Requests : WF_vars(Acquire(r) /\ UNCHANGED startVars)
                        /\ WF_vars(Query(r) /\ UNCHANGED startVars)

-----------------------------------------------------------------------------
(* Properties.                                                             *)

\* Every variable has its type, and no pool lends more than it has.
IdentityTypeOK ==
  /\ TypeOK
  /\ mode \in Modes
  /\ step \in [Requests -> {"idle"} \cup Queries \cup Answers]
  /\ using \subseteq Requests \X Queries
  /\ \A w \in Workers : Cardinality(Busy(w)) <= PoolMax
  /\ orphans \subseteq Requests \X Inserts
  /\ person \in [Requests -> People \cup {Nobody}]
  /\ name \in [Requests -> Names \cup {Nobody}]
  /\ housed \in BOOLEAN
  /\ identities \in [People -> Names \cup {Nobody}]
  /\ known \subseteq Requests
  /\ faulted \subseteq Requests

\* A person is one and the same to all who ask, whatever the JWTs of its visits
\* say, whichever worker answers, and whoever was the first: all that were ever
\* answered were told the name that is stored.
NamesAgree == \A r \in Requests :
  name[r] # Nobody => name[r] = identities[person[r]]

\* A person's name is a register that is written once, by a handler or by an
\* INSERT that outlived its own, and answers tell what it holds.
PersonName == INSTANCE WriteOnce WITH
  Keys   <- People,
  Values <- Names,
  Askers <- Requests,
  held   <- [p \in People |-> {identities[p]} \ {Nobody}],
  told   <- [r \in Requests |->
               IF name[r] = Nobody THEN {} ELSE {<<person[r], name[r]>>}]

\* The first name that is stored for a person is the one that every answer
\* gives, to whichever visit and worker, and it is never another one: neither
\* the JWT of a later visit nor a late INSERT overwrites it.
ImplementsWriteOnce == PersonName!Spec

\* A visit, of whom the credential names or of Dev, is answered 500 only if the
\* database failed it, or if it came before the person had a row and another
\* first visit was faster.
FailsOnlyAtFirst == \A r \in Requests :
  step[r] = "failed" /\ r \notin faulted /\ person[r] # Nobody =>
    /\ r \notin known
    /\ identities[person[r]] # Nobody

\* A request that was taken is answered, unless its worker dies: no handler
\* waits for a connection that another waiting handler holds.
RequestsAnswered == \A r \in Requests :
  (step[r] \in Queries) ~> (step[r] \in Answers)

=============================================================================
