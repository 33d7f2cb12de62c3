----------------------------- MODULE Reactions ------------------------------
(***************************************************************************)
(* add_reaction of app/services/messaging.py, beside send_message: one     *)
(* INSERT, at which the handler suspends, and then publish and the answer. *)
(*                                                                         *)
(* A retry of a reaction is a request of its own for the same message and  *)
(* the same person.  Requests that differ in their symbol have nothing to  *)
(* do with each other: all of them here have the same one.  The id of a    *)
(* message is known to clients only once its row exists.                   *)
(***************************************************************************)
EXTENDS Messaging, FiniteSets

CONSTANTS
  Reacts,   \* POST /channels/{id}/reactions
  Target,   \* the message each reacts to
  Humans,   \* people
  Agents,   \* agents
  Reactor,  \* who makes each of these requests
  ServedBy, \* the worker that serves it
  Null      \* SQL's NULL

ASSUME ReactionAssumption ==
  /\ Target \in [Reacts -> Requests]
  /\ Reactor \in [Reacts -> Humans \cup Agents]
  /\ ServedBy \in [Reacts -> Workers]
  /\ Humans \cap Agents = {} /\ Null \notin Humans \cup Agents

VARIABLES
  reactions,  \* the reactions stored
  sent,       \* the INSERT statements the database has not executed yet
  answer,     \* where each handler is, and the kind of its answer
  told        \* history: the reactions announced by reaction.added

reactionVars == <<reactions, sent, answer, told>>
allVars == <<vars, reactionVars>>

ReactionInit ==
  /\ Init
  /\ reactions = {}
  /\ sent = {}
  /\ answer = [r \in Reacts |-> "idle"]
  /\ told = {}

-----------------------------------------------------------------------------

\* sender_human_id and sender_agent_container_id: one of them is NULL.
Columns(r) == IF Reactor[r] \in Agents THEN <<Null, Reactor[r]>>
                                       ELSE <<Reactor[r], Null>>

\* UNIQUE NULLS NOT DISTINCT.
Violates_NullsEqual(r) ==
  \E q \in reactions : Target[q] = Target[r] /\ Columns(q) = Columns(r)

\* UNIQUE (message_id, symbol, sender_human_id, sender_agent_container_id):
\* a NULL is equal to nothing.
Violates(r) ==
  \E q \in reactions : /\ Target[q] = Target[r]
                       /\ \A i \in 1 .. 2 : /\ Columns(q)[i] = Columns(r)[i]
                                            /\ Columns(q)[i] # Null

\* The request arrives and its INSERT is sent.
React(r) ==
  /\ answer[r] = "idle" /\ Target[r] \in rows
  /\ answer' = [answer EXCEPT ![r] = "inserting"]
  /\ sent' = sent \cup {r}
  /\ UNCHANGED <<reactions, told, vars>>

\* A repeated reaction takes the place of the first.
Stored_Replaces(r) == {q \in reactions : Target[q] # Target[r]
                                         \/ Columns(q) # Columns(r)} \cup {r}

Stored(r) == IF Violates(r) THEN reactions ELSE reactions \cup {r}

\* The database executes the INSERT and commits, or rejects it.
InsertReaction(r) ==
  /\ r \in sent
  /\ sent' = sent \ {r}
  /\ reactions' = Stored(r)
  /\ UNCHANGED <<answer, told, vars>>

\* What is stored is announced; a unique violation means "already reacted".
ToldAfter(r) == IF r \in reactions THEN told \cup {r} ELSE told

\* The INSERT returned or raised a unique violation; both are answered ok.
FinishReaction(r) ==
  /\ answer[r] = "inserting" /\ r \notin sent
  /\ told' = ToldAfter(r)
  /\ answer' = [answer EXCEPT ![r] = "ok"]
  /\ UNCHANGED <<reactions, sent, vars>>

\* The connection breaks: any other exception is raised again, and answered
\* 500.  The INSERT may have been executed, may still be, or may be lost.
FailReaction(r) ==
  /\ answer[r] = "inserting"
  /\ answer' = [answer EXCEPT ![r] = "error"]
  /\ UNCHANGED <<reactions, sent, told, vars>>

\* A worker dies in the middle of its requests of both kinds.
CrashWorker(w) ==
  /\ Crash(w)
  /\ answer' = [r \in Reacts |->
       IF ServedBy[r] = w /\ answer[r] = "inserting" THEN "lost" ELSE answer[r]]
  /\ UNCHANGED <<reactions, sent, told>>

SendNext ==
  \E r \in Requests : Lookup(r) \/ Insert(r) \/ Finish(r) \/ LoseConnection(r)

ReactionNext ==
  \/ SendNext /\ UNCHANGED reactionVars
  \/ \E r \in Reacts :
       React(r) \/ InsertReaction(r) \/ FinishReaction(r) \/ FailReaction(r)
  \/ \E w \in Workers : CrashWorker(w)

\* As in Messaging: the database executes the statement that a living handler
\* waits for, and the event loop resumes the handler.
ReactionSpec ==
  /\ ReactionInit /\ [][ReactionNext]_allVars
  /\ \A r \in Requests : /\ WF_allVars(phase[r] = "inserting" /\ Insert(r)
                                       /\ UNCHANGED reactionVars)
                         /\ WF_allVars(Finish(r) /\ UNCHANGED reactionVars)
  /\ \A r \in Reacts : /\ WF_allVars(answer[r] = "inserting" /\ InsertReaction(r))
                       /\ WF_allVars(FinishReaction(r))

-----------------------------------------------------------------------------
(* Properties.                                                             *)

\* Every variable has its type, those of Messaging included; no reaction is
\* announced that is not stored.
ReactionTypeOK ==
  /\ TypeOK
  /\ reactions \subseteq Reacts
  /\ sent \subseteq Reacts
  /\ answer \in [Reacts -> {"idle", "inserting", "ok", "error", "lost"}]
  /\ told \subseteq reactions

\* Requests for the same reaction.
Same(r, q) == Target[r] = Target[q] /\ Reactor[r] = Reactor[q]

\* Whoever is told ok has had its reaction announced, by its own request or by
\* an earlier one for the same reaction: not even a retry whose first attempt
\* was cut off between its INSERT and its event is told ok in silence.
OkIsTold ==
  \A r \in Reacts : answer[r] = "ok" => \E q \in told : Same(q, r)

=============================================================================
