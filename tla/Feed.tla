-------------------------------- MODULE Feed --------------------------------
(***************************************************************************)
(* From send_message to an agent on the channel.  The message is committed *)
(* (Timeline), announced on the bus of the worker that took it and         *)
(* streamed to the clients of that worker (EventBus); a client that        *)
(* connects polls the inbox for what it missed (Inbox), which lists the    *)
(* messages that mention its agent and no other.                           *)
(*                                                                         *)
(* The client is external, and modelled from contract/WORKSPACE_API.md:    *)
(* it keeps one stream, asks for the agent's topic and the channel, polls  *)
(* "at connect to backfill" until an answer is empty, and polls again      *)
(* whenever it has no stream.                                              *)
(***************************************************************************)
EXTENDS EventBus

CONSTANTS
  Messages,    \* the messages sent to the channel
  Mentions,    \* those of them that mention the agent
  Rank,        \* the order of their ids
  InboxLimit,  \* LIMIT 200
  MaxClock,    \* bound: ticks of the clock
  MaxPolls,    \* bound: answers to one client, more than there can be
  Clients,     \* clients of the agent
  ClientOf,    \* whose stream each one is
  Agent,       \* the topic of the agent
  Channel      \* the topic of the channel

ASSUME FeedAssumption ==
  /\ ClientOf \in [Streams -> Clients]
  /\ Agent \in AgentTopics /\ Channel \in ChannelTopics
  /\ IsFiniteSet(Messages) /\ Cardinality(Messages) <= MaxPublished
  /\ Mentions \subseteq Messages
  /\ Rank \in [Messages -> Nat]
  /\ \A m, n \in Messages : Rank[m] = Rank[n] => m = n
  /\ InboxLimit \in Nat \ {0}
  /\ MaxClock \in Nat
  /\ MaxPolls \in Nat /\ MaxPolls > Cardinality(Messages)

VARIABLES
  clock,       \* what now_iso() returns
  created_at,  \* the timestamp of each message
  rows,        \* the messages committed
  mark,        \* the timestamp each client presents as `since`
  polls,       \* the answers each client was given
  late,        \* history: mentions committed behind that timestamp
  server,      \* the worker that each message was sent to, if it was
  cut,         \* messages whose handler is gone
  announced,   \* the message.created event of each message, if any
  backfill     \* history: what was stored when the client of each stream had
               \* polled to the end since it connected, if it has

mailVars == <<clock, created_at, rows, mark, polls, late>>
feedVars == <<server, cut, announced, backfill>>
vars == <<busVars, mailVars, feedVars>>

\* The writers and the inbox, without readers of the history.
Mail == INSTANCE Inbox WITH
  since <- mark, Pollers <- Clients, MaxPages <- MaxPolls,
  Readers <- {}, Limits <- {}, MaxLimit <- 1,
  walk <- <<>>, cursor <- <<>>, pages <- <<>>, present <- <<>>

FeedInit ==
  /\ Init
  /\ Mail!InboxInit
  /\ server = [m \in Messages |-> <<>>]
  /\ cut = {}
  /\ announced = [m \in Messages |-> <<>>]
  /\ backfill = [s \in Streams |-> <<>>]

-----------------------------------------------------------------------------
(* send_message.                                                           *)

Tick == Mail!Tick /\ Mail!Overtake /\ UNCHANGED <<busVars, feedVars>>

\* A worker takes the request and sends its INSERT.
Send(m, w) ==
  /\ server[m] = <<>>
  /\ server' = [server EXCEPT ![m] = <<w>>]
  /\ Mail!Stamp(m) /\ Mail!Overtake
  /\ UNCHANGED <<busVars, cut, announced, backfill>>

\* The INSERT is executed, whether or not its handler still waits for it.
Store(m) == Mail!Commit(m) /\ Mail!Overtake /\ UNCHANGED <<busVars, feedVars>>

\* The handlers that have sent their INSERT and not returned.
Handled(m) == server[m] # <<>> /\ m \notin cut /\ announced[m] = <<>>

\* The event is published before the INSERT is awaited.
Returned_Early(m) == TRUE

Returned(m) == m \in rows

\* The INSERT returned: the message is announced and the request answered.
Announce(m) ==
  LET w == server[m][1]
  IN  /\ Handled(m) /\ Returned(m)
      /\ Publish(w, Channel)
      /\ announced' = [announced EXCEPT ![m] =
           <<[at |-> w, topic |-> Channel, n |-> published[w][Channel] + 1]>>]
      /\ UNCHANGED <<mailVars, server, cut, backfill>>

\* The handler loses its database connection.
CutOff(m) ==
  /\ Handled(m)
  /\ cut' = cut \cup {m}
  /\ UNCHANGED <<busVars, mailVars, server, announced, backfill>>

CrashServer(w) ==
  /\ Crash(w)
  /\ cut' = cut \cup {m \in Messages : Handled(m) /\ server[m] = <<w>>}
  /\ UNCHANGED <<mailVars, server, announced, backfill>>

-----------------------------------------------------------------------------
(* The client.                                                             *)

\* The stream a client believes to have.
Has(c, s) == ClientOf[s] = c /\ Open(s) /\ s \notin gone

Reconnect(s) ==
  /\ ~\E x \in Streams : Has(ClientOf[s], x)
  /\ Connect(s, {Agent, Channel})
  /\ UNCHANGED <<mailVars, feedVars>>

Backfilled == {s \in Streams : backfill[s] # <<>>}

\* The client polls while it has no stream, or has not caught up with it.
Polling(c) == \A s \in Streams : Has(c, s) => s \notin Backfilled

Poll(c) ==
  /\ Polling(c) /\ Mail!Poll(c)
  /\ UNCHANGED <<busVars, feedVars>>

\* An empty answer ends the backfill.
CaughtUp(c) ==
  /\ Mail!Matching(c) = {}
  /\ \E s \in Streams \ Backfilled :
       Has(c, s) /\ backfill' = [backfill EXCEPT ![s] = <<rows>>]
  /\ UNCHANGED <<busVars, mailVars, server, cut, announced>>

\* What else the streams do.
Stream(s) ==
  /\ Wake(s) \/ Heartbeat(s) \/ Sent(s) \/ Disconnect(s) \/ Cleanup(s)
  /\ UNCHANGED <<mailVars, feedVars>>

-----------------------------------------------------------------------------

FeedNext ==
  \/ Tick
  \/ \E m \in Messages : \E w \in Workers : Send(m, w)
  \/ \E m \in Messages : Store(m) \/ Announce(m) \/ CutOff(m)
  \/ \E w \in Workers : CrashServer(w)
  \/ \E s \in Streams : Reconnect(s) \/ Stream(s)
  \/ \E c \in Clients : Poll(c) \/ CaughtUp(c)

FeedSpec == FeedInit /\ [][FeedNext]_vars

-----------------------------------------------------------------------------
(* Properties.                                                             *)

\* Every variable has its type; an event is announced once, by the worker that
\* took the message.
FeedTypeOK ==
  /\ TypeOK
  /\ Mail!InboxTypeOK
  /\ server \in [Messages -> {<<>>} \cup {<<w>> : w \in Workers}]
  /\ cut \subseteq Messages
  /\ announced \in [Messages -> Seq(Event)]
  /\ \A m, n \in Messages : announced[m] # <<>> =>
       Len(announced[m]) = 1 /\ (m # n => announced[m] # announced[n])
  /\ \A s \in Streams : backfill[s] = <<>> \/ \E R \in SUBSET rows : backfill[s] = <<R>>

\* What an inbox polled by timestamp may miss, and nothing else.
Behind(c, m) == m \in late[c] \/ Mail!CutInTie(c, m)

\* The poll at connect backfills: every mention that is stored when a client has
\* polled to the end is in one of its answers, whichever worker took the message
\* and whether it was announced or its handler was cut off, unless it was
\* committed late or cut within a tie.
NothingLost ==
  \A s \in Backfilled : \A m \in backfill[s][1] \cap Mentions :
    m \in Mail!Given(ClientOf[s]) \/ Behind(ClientOf[s], m)

\* Backfill and stream leave no hole between them: once a client has polled to
\* the end since it connected, and as long as it is on the channel's list, each
\* mention that was stored by then, or that the client's worker has announced,
\* was in an answer or is on the stream, but for what a poll by timestamp cannot
\* find.
GivenOrStreamed ==
  \A s \in (Backfilled \cap subscribers[Channel]) \ gone, m \in rows \cap Mentions :
    m \in backfill[s][1] \/ (announced[m] # <<>> /\ announced[m][1].at = Home[s]) =>
      \/ m \in Mail!Given(ClientOf[s]) \/ Behind(ClientOf[s], m)
      \/ \E j \in DOMAIN Trail(s) : announced[m] = <<Trail(s)[j]>>

\* wiki/DECISIONS.md:153-156, "Cross-instance misses are backfilled by the
\* client's /inbox poll on reconnect": a message that another worker announced
\* while the client had stream x is in an answer once the client has polled to
\* the end on a later stream s, unless it was committed late or cut within a
\* tie.  The inbox lists mentions only, so it is not.
MissesAreBackfilled ==
  \A s \in Backfilled, x \in Streams, m \in Messages : \A i \in DOMAIN announced[m] :
    LET e == announced[m][i]
        c == ClientOf[s]
    IN  (/\ ClientOf[x] = c /\ phase[x] # "new" /\ Home[x] # e.at
         /\ since[x][e.at][e.topic] < e.n /\ e.n <= since[s][e.at][e.topic])
          => m \in Mail!Given(c) \/ Behind(c, m)

\* Whatever is on its way to a client is a message that is stored: a client
\* that hears of it can read it.
HeardIsStored ==
  \A s \in Streams : \A i \in DOMAIN Trail(s) :
    \E m \in rows : announced[m] = <<Trail(s)[i]>>

=============================================================================
