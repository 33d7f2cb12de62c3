------------------------------ MODULE Startup -------------------------------
(***************************************************************************)
(* The life of the worker processes: the lifespan of app/main.py and       *)
(* init_db and close_db of app/db.py, which applies the schema under a     *)
(* PostgreSQL advisory lock.                                               *)
(*                                                                         *)
(* The lock belongs to a database session, not to the worker.  A worker    *)
(* that dies leaves its session behind: the backend finishes the statement *)
(* it is executing, or goes on waiting for the lock, and notices only then *)
(* that nobody is there, ends the session and with it frees the lock.      *)
(***************************************************************************)
EXTENDS Naturals, Sequences, FiniteSets

CONSTANTS
  Workers,        \* worker processes of all instances
  LastStatement,  \* the number of schema statements, 14
  MaxStarts       \* bound: how often a worker process is started

ASSUME StartupAssumption ==
  /\ LastStatement \in Nat
  /\ MaxStarts \in Nat

VARIABLES
  worker,   \* what each process is doing
  starts,   \* how many were started so far
  session,  \* the database session each process started with, 0 before
  next,     \* the schema statement it is to send next
  waiting,  \* sessions in which pg_advisory_lock has not returned
  holder,   \* the session that holds the lock, if any
  stmt,     \* the schema statement each session is executing, 0 for none
  built     \* the schema statements that took effect

startVars == <<worker, starts, session, next, waiting, holder, stmt, built>>

Statements == 1 .. LastStatement

\* One session for each start.
Sessions == 1 .. MaxStarts

\* Worker w lives and waits for what session x returns.
Drives(w, x) == session[w] = x /\ worker[w] # "down"

StartInit ==
  /\ worker = [w \in Workers |-> "down"]
  /\ starts = 0
  /\ session = [w \in Workers |-> 0]
  /\ next = [w \in Workers |-> 1]
  /\ waiting = {}
  /\ holder = {}
  /\ stmt = [x \in Sessions |-> 0]
  /\ built = {}

-----------------------------------------------------------------------------
(* _init_postgres.                                                         *)

\* The pool is made, and a connection of it asks for the lock.
Start(w) ==
  /\ worker[w] = "down" /\ starts < MaxStarts
  /\ worker' = [worker EXCEPT ![w] = "locking"]
  /\ starts' = starts + 1
  /\ session' = [session EXCEPT ![w] = starts + 1]
  /\ next' = [next EXCEPT ![w] = 1]
  /\ waiting' = waiting \cup {starts + 1}
  /\ UNCHANGED <<holder, stmt, built>>

\* pg_advisory_xact_lock: the lock ends with the statement that took it.
HolderAfterGrant_Transaction(x) == {}

\* pg_advisory_lock: the lock is the session's until it is unlocked or ends.
HolderAfterGrant(x) == {x}

\* The lock is granted; the worker, if it still lives, begins with the schema.
Grant(x) ==
  /\ x \in waiting /\ holder = {}
  /\ waiting' = waiting \ {x}
  /\ holder' = HolderAfterGrant(x)
  /\ worker' = [w \in Workers |-> IF Drives(w, x) THEN "creating" ELSE worker[w]]
  /\ UNCHANGED <<starts, session, next, stmt, built>>

\* The loop sends its next statement.
Send(w) ==
  /\ worker[w] = "creating" /\ next[w] \in Statements
  /\ stmt[session[w]] = 0
  /\ stmt' = [stmt EXCEPT ![session[w]] = next[w]]
  /\ UNCHANGED <<worker, starts, session, next, waiting, holder, built>>

\* CREATE TABLE IF NOT EXISTS, executed.
Execute(x) ==
  /\ stmt[x] # 0
  /\ built' = built \cup {stmt[x]}
  /\ stmt' = [stmt EXCEPT ![x] = 0]
  /\ next' = [w \in Workers |-> IF Drives(w, x) THEN next[w] + 1 ELSE next[w]]
  /\ UNCHANGED <<worker, starts, session, waiting, holder>>

\* A statement that fails ends the loop as if it were complete.
AfterFailure_Serves == "serving"

\* A statement that fails ends the start-up, and with it the process.
AfterFailure == "down"

\* The database refuses a statement: the finally clause unlocks.
Refuse(w) ==
  /\ worker[w] = "creating" /\ stmt[session[w]] # 0
  /\ stmt' = [stmt EXCEPT ![session[w]] = 0]
  /\ holder' = holder \ {session[w]}
  /\ worker' = [worker EXCEPT ![w] = AfterFailure]
  /\ UNCHANGED <<starts, session, next, waiting, built>>

\* The lock is taken on a connection that is kept open beside the pool, and
\* never unlocked.
HolderAfterUnlock_Kept(w) == holder

HolderAfterUnlock(w) == holder \ {session[w]}

\* All statements are done: the worker unlocks and begins to serve.
Serve(w) ==
  /\ worker[w] = "creating" /\ next[w] > LastStatement
  /\ holder' = HolderAfterUnlock(w)
  /\ worker' = [worker EXCEPT ![w] = "serving"]
  /\ UNCHANGED <<starts, session, next, waiting, stmt, built>>

-----------------------------------------------------------------------------
(* The end of a worker and of its session.                                 *)

\* SIGTERM: no new requests.
Stop(w) ==
  /\ worker[w] = "serving"
  /\ worker' = [worker EXCEPT ![w] = "stopping"]
  /\ UNCHANGED <<starts, session, next, waiting, holder, stmt, built>>

\* The requests are done, and close_db closes the pool.
Close(w) ==
  /\ worker[w] = "stopping"
  /\ worker' = [worker EXCEPT ![w] = "down"]
  /\ UNCHANGED <<starts, session, next, waiting, holder, stmt, built>>

\* The process dies.  Its session does not know yet.
Die(w) ==
  /\ worker[w] # "down"
  /\ worker' = [worker EXCEPT ![w] = "down"]
  /\ UNCHANGED <<starts, session, next, waiting, holder, stmt, built>>

\* The backend of a dead worker finds its client gone.
EndSession(x) ==
  /\ x \in holder /\ stmt[x] = 0 /\ ~\E w \in Workers : Drives(w, x)
  /\ holder' = holder \ {x}
  /\ UNCHANGED <<worker, starts, session, next, waiting, stmt, built>>

-----------------------------------------------------------------------------

Opening(w) == Start(w) \/ Send(w) \/ Refuse(w) \/ Serve(w)

Backend(x) == Grant(x) \/ Execute(x) \/ EndSession(x)

StartNext ==
  \/ \E w \in Workers : Opening(w) \/ Stop(w) \/ Close(w) \/ Die(w)
  \/ \E x \in Sessions : Backend(x)

\* The lock is handed on, statements are executed, dead sessions noticed, and
\* a worker that starts goes on.  Nobody need start one.
StartSpec ==
  /\ StartInit /\ [][StartNext]_startVars
  /\ \A w \in Workers : WF_startVars(Send(w)) /\ WF_startVars(Serve(w))
  /\ \A x \in Sessions : WF_startVars(Backend(x))

-----------------------------------------------------------------------------
(* Properties.                                                             *)

\* Every variable has its type.
TypeOK ==
  /\ worker \in [Workers -> {"down", "locking", "creating", "serving", "stopping"}]
  /\ starts \in 0 .. MaxStarts
  /\ session \in [Workers -> 0 .. MaxStarts]
  /\ next \in [Workers -> 1 .. LastStatement + 1]
  /\ waiting \subseteq Sessions
  /\ holder \subseteq Sessions
  /\ stmt \in [Sessions -> 0 .. LastStatement]
  /\ built \subseteq Statements

\* No two sessions are ever in the middle of a schema statement, not even when
\* one of them is that of a dead worker: "CREATE TABLE IF NOT EXISTS" does not
\* serialise with itself.
OneBuilder == \A x, y \in Sessions : stmt[x] # 0 /\ stmt[y] # 0 => x = y

\* A worker that serves requests finds the whole schema, whoever built it and
\* however many have died over it.
SchemaBeforeService ==
  \A w \in Workers : worker[w] \in {"serving", "stopping"} => built = Statements

\* A worker that starts comes to serve, unless it dies or is refused: the lock
\* is not lost with a worker that held it or waited for it.
StartsUp == \A w \in Workers :
  (worker[w] = "locking") ~> (worker[w] \in {"serving", "stopping", "down"})

=============================================================================
