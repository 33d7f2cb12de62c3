----------------------------- MODULE Directory ------------------------------
(***************************************************************************)
(* The workspace of one tenant, its channels and their members:            *)
(* app/services/membership.py, app/routers/channels.py, app/routers/me.py  *)
(* and the DM channels of app/routers/dms.py.                              *)
(*                                                                         *)
(* A handler suspends at every statement, each of which commits by itself; *)
(* a step executes the statement a handler waits for and runs the handler  *)
(* to the next one.  Nothing ties the statements of a handler together: it *)
(* may be cut off between any two, or with its last one in doubt.          *)
(*                                                                         *)
(* uuid4 gives every row a fresh id: a workspace and a channel are named   *)
(* by the request that inserted them.  The name of a DM channel is made    *)
(* from the sorted ids of its two sides: it is the set of the two.         *)
(***************************************************************************)
EXTENDS FiniteSets

CONSTANTS
  Visits,   \* requests that need the tenant's workspace only
  Creates,  \* POST /channels
  Title,    \* the name each of these asks for
  Joins,    \* POST /channels/{id}/members
  Dms,      \* requests that send or read a direct message
  People,   \* agents and humans
  Actor,    \* who makes each DM request
  Peer,     \* and the counterpart it names
  Nowhere   \* no workspace, no channel

Requests == Visits \cup Creates \cup Joins \cup Dms

ASSUME DirectoryAssumption ==
  /\ Actor \in [Dms -> People] /\ Peer \in [Dms -> People]
  /\ DOMAIN Title = Creates
  /\ Visits \cap Creates = {} /\ (Visits \cup Creates) \cap Dms = {}
  /\ Joins \cap (Visits \cup Creates \cup Dms) = {}
  /\ Nowhere \notin Requests

VARIABLES
  workspaces,  \* the workspace rows of the tenant
  channels,    \* the channel rows
  members,     \* the channel_members rows
  announced,   \* history: the member rows announced by member.added
  step,        \* the statement each handler waits for, or its answer
  ws,          \* the workspace each handler found or created
  chan         \* the channel each handler answers with

vars == <<workspaces, channels, members, announced, step, ws, chan>>

Answered == {"done", "conflict", "failed"}

Init ==
  /\ workspaces = {}
  /\ channels = {}
  /\ members = {}
  /\ announced = {}
  /\ step = [r \in Requests |-> "idle"]
  /\ ws = [r \in Requests |-> Nowhere]
  /\ chan = [r \in Requests |-> Nowhere]

\* The name of the channel a request is about.  A title may be any string,
\* that of a DM channel included.
Name(r) == IF r \in Dms THEN {Actor[r], Peer[r]} ELSE Title[r]

\* The channels a SELECT by workspace and name returns.
Named(w, name) == {c \in channels : c.ws = w /\ c.name = name}

-----------------------------------------------------------------------------
(* ensure_workspace_for_tenant.                                            *)

\* The statement that follows once the workspace is known.
AfterWorkspace(r) ==
  IF r \in Visits THEN "done"
  ELSE IF r \in Creates THEN "insert_channel" ELSE "select_channel"

\* SELECT ... LIMIT 1, without an order: any of the tenant's workspaces.
SelectWorkspace(r) ==
  /\ r \notin Joins /\ step[r] = "idle"
  /\ \/ \E w \in workspaces :
          /\ ws' = [ws EXCEPT ![r] = w]
          /\ step' = [step EXCEPT ![r] = AfterWorkspace(r)]
     \/ /\ workspaces = {}
        /\ step' = [step EXCEPT ![r] = "insert_workspace"]
        /\ UNCHANGED ws
  /\ UNCHANGED <<workspaces, channels, members, announced, chan>>

\* No constraint keeps a tenant from having two.
InsertWorkspace(r) ==
  /\ step[r] = "insert_workspace"
  /\ workspaces' = workspaces \cup {r}
  /\ ws' = [ws EXCEPT ![r] = r]
  /\ step' = [step EXCEPT ![r] = AfterWorkspace(r)]
  /\ UNCHANGED <<channels, members, announced, chan>>

-----------------------------------------------------------------------------
(* create_channel, and _resolve_dm_channel around it.                      *)

\* The first handler to find a DM channel completes its membership.
AfterFound_Joins(r) == "add_actor"

\* A channel that is found is answered with as it is.
AfterFound(r) == "done"

SelectChannel(r) ==
  /\ step[r] = "select_channel"
  /\ \/ \E c \in Named(ws[r], Name(r)) :
          /\ chan' = [chan EXCEPT ![r] = c.id]
          /\ step' = [step EXCEPT ![r] = AfterFound(r)]
     \/ /\ Named(ws[r], Name(r)) = {}
        /\ step' = [step EXCEPT ![r] = "insert_channel"]
        /\ UNCHANGED chan
  /\ UNCHANGED <<workspaces, channels, members, announced, ws>>

\* A table without UNIQUE (workspace_id, name).
Taken_Never(r) == FALSE

\* The unique constraint on (workspace_id, name).
Taken(r) == Named(ws[r], Name(r)) # {}

\* INSERT INTO channels; a violated constraint is answered 409.
InsertChannel(r) ==
  /\ step[r] = "insert_channel"
  /\ \/ /\ Taken(r)
        /\ step' = [step EXCEPT ![r] = "conflict"]
        /\ UNCHANGED <<channels, chan>>
     \/ /\ ~Taken(r)
        /\ channels' = channels \cup {[id |-> r, ws |-> ws[r], name |-> Name(r)]}
        /\ chan' = [chan EXCEPT ![r] = r]
        /\ step' = [step EXCEPT ![r] = IF r \in Dms THEN "add_actor" ELSE "done"]
  /\ UNCHANGED <<workspaces, members, announced, ws>>

\* The workspace's id where the channel's belongs.
MemberRow_InWorkspace(r) ==
  [channel |-> ws[r], by |-> r, side |-> step[r],
   who |-> IF step[r] = "add_actor" THEN Actor[r] ELSE Peer[r]]

\* The row that add_member inserts for one side of the pair.
MemberRow(r) ==
  [channel |-> chan[r], by |-> r, side |-> step[r],
   who |-> IF step[r] = "add_actor" THEN Actor[r] ELSE Peer[r]]

\* The counterpart is left to join by itself.
AfterMember_ActorOnly(r) == "done"

AfterMember(r) == IF step[r] = "add_actor" THEN "add_peer" ELSE "done"

\* add_member: INSERT, then publish member.added.
AddMember(r) ==
  /\ step[r] \in {"add_actor", "add_peer"}
  /\ members' = members \cup {MemberRow(r)}
  /\ announced' = announced \cup {MemberRow(r)}
  /\ step' = [step EXCEPT ![r] = AfterMember(r)]
  /\ UNCHANGED <<workspaces, channels, ws, chan>>

\* The endpoint adds anybody to any channel, members included.
Join(r) ==
  /\ r \in Joins /\ step[r] = "idle"
  /\ \E c \in channels, p \in People :
       LET row == [channel |-> c.id, by |-> r, side |-> "join", who |-> p]
       IN  /\ members' = members \cup {row}
           /\ announced' = announced \cup {row}
           /\ chan' = [chan EXCEPT ![r] = c.id]
  /\ step' = [step EXCEPT ![r] = "done"]
  /\ UNCHANGED <<workspaces, channels, ws>>

-----------------------------------------------------------------------------

\* The handler is cut off: the worker dies, or the statement fails with its
\* connection.  The statement it waits for was executed, or was not.  (A
\* request whose first statement fails is one that was never made.)
Fail(r) ==
  /\ step[r] \notin {"idle"} \cup Answered
  /\ step' = [step EXCEPT ![r] = "failed"]
  /\ \/ UNCHANGED <<workspaces, channels, members>>
     \/ /\ step[r] = "insert_workspace"
        /\ workspaces' = workspaces \cup {r}
        /\ UNCHANGED <<channels, members>>
     \/ /\ step[r] = "insert_channel" /\ ~Taken(r)
        /\ channels' = channels \cup {[id |-> r, ws |-> ws[r], name |-> Name(r)]}
        /\ UNCHANGED <<workspaces, members>>
     \/ /\ step[r] \in {"add_actor", "add_peer"}
        /\ members' = members \cup {MemberRow(r)}
        /\ UNCHANGED <<workspaces, channels>>
  /\ UNCHANGED <<announced, ws, chan>>

Advance(r) ==
  \/ SelectWorkspace(r)
  \/ InsertWorkspace(r)
  \/ SelectChannel(r)
  \/ InsertChannel(r)
  \/ AddMember(r)
  \/ Join(r)

Next == \E r \in Requests : Advance(r) \/ Fail(r)

Spec == Init /\ [][Next]_vars

-----------------------------------------------------------------------------
(* Properties.                                                             *)

Steps == {"idle", "insert_workspace", "select_channel", "insert_channel",
          "add_actor", "add_peer"} \cup Answered

\* Every variable has its type, and a handler that is past its workspace has
\* one that exists.
TypeOK ==
  /\ workspaces \subseteq Requests
  /\ \A c \in channels : c.id \in Requests /\ c.ws \in workspaces
  /\ \A m \in members : m.by \in Requests /\ m.who \in People
                        /\ \E c \in channels : c.id = m.channel
  /\ announced \subseteq members
  /\ step \in [Requests -> Steps]
  /\ ws \in [Requests -> workspaces \cup {Nowhere}]
  /\ chan \in [Requests -> {c.id : c \in channels} \cup {Nowhere}]

\* Two requests about the same pair of people that found the same workspace
\* are answered with the same channel, however their statements overlapped.
SidesMeet ==
  \A r, q \in Dms : /\ step[r] = "done" /\ step[q] = "done"
                    /\ Name(r) = Name(q) /\ ws[r] = ws[q]
                    => chan[r] = chan[q]

\* A workspace's channel of a name is a register that is written once, by the
\* one INSERT that the constraint lets in, and answers tell what it holds.
ChannelOf == INSTANCE WriteOnce WITH
  Keys   <- Requests \X {Name(r) : r \in Creates \cup Dms},
  Values <- Creates \cup Dms,
  Askers <- Creates \cup Dms,
  held   <- [k \in Requests \X {Name(r) : r \in Creates \cup Dms} |->
               {c.id : c \in Named(k[1], k[2])}],
  told   <- [r \in Creates \cup Dms |->
               IF step[r] = "done" THEN {<<<<ws[r], Name(r)>>, chan[r]>>} ELSE {}]

\* Of one name a workspace has one channel, for ever the same: creators and
\* both sides of a pair are answered with it, whoever inserted it, whether
\* that handler came to an end or not, and however their statements overlap.
ImplementsWriteOnce == ChannelOf!Spec

\* The rows a DM channel was given by the handlers that resolved it.
Sides(c) == {m \in members : m.channel = c.id /\ m.by \in Dms}

\* The handler that made a DM channel is the only one to fill it: no side
\* joins it twice, and no third party.
FilledByMaker ==
  \A c \in channels : \A m \in Sides(c) :
    /\ m.by = c.id
    /\ m.who \in Name(c.id)
    /\ \A n \in Sides(c) \ {m} : n.side # m.side

\* A DM channel lacks a side, or the announcement of one, only while its maker
\* is at work on it or if it was cut off.  (It is never completed then.)
HalfMadeIfCutOff ==
  \A c \in channels : c.id \in Dms =>
    \/ \A side \in {"add_actor", "add_peer"} :
         \E m \in announced : m.channel = c.id /\ m.side = side
    \/ step[c.id] \in {"add_actor", "add_peer", "failed"}

\* app/routers/dms.py, "sort so either side resolves to the same channel":
\* two answered requests about the same pair have the same channel.
SidesAlwaysMeet ==
  \A r, q \in Dms : /\ step[r] = "done" /\ step[q] = "done"
                    /\ Name(r) = Name(q)
                    => chan[r] = chan[q]

=============================================================================
