# A verification of the Monolith workspace API

TLA+ models, TLC runs and TLAPS proofs about the service in `src/app`: a
FastAPI application in which people and agents share channels, direct messages
and tool calls. It stores messages in PostgreSQL, fans them out over
server-sent events from an in-process bus, and lets one agent call a tool of
another through that bus.

`PROJECT.json` lists the components, the runs, the hazards, the theorems, and
for every modelled definition the source lines it stands for.

## 1. Inventory

| Part (source) | State | Operations | Who calls it | What is hard about it | What makes it correct |
|---|---|---|---|---|---|
| Event bus (`event_bus.py` 14-73) | `_subscribers`: topic to set of bounded queues, one per worker process | subscribe, unsubscribe, publish | every write (publish), every stream | full queues; several processes; a queue is in several topics | order, no hole, nothing missed while subscribed, no queue left behind |
| SSE stream (`services/realtime.py`, `routers/stream.py`) | its queue, the frame being written, where the generator is suspended | connect, wake up, heartbeat, write, disconnect, clean-up | clients | `wait_for(queue.get())` races an arriving event; a client leaves at any await | what is queued is read, what is left is reaped |
| Tool-call rendezvous (`routers/agents.py`, `event_bus.py` 75-107) | `_pending_tool_calls`: call id to future, one per worker | invoke, timer, resume, post a result, crash | caller, the target's bridge | timer against result; repeated, late and misrouted posts; a bus that drops the target | one answer per call; the answer is the accepted one; a refused call never runs |
| Message writes (`services/messaging.py` 50-128, `routers/messages.py`) | the messages table, with UNIQUE (channel, key) | send, retry | clients; publishes to the bus | check-then-insert over two autocommitted statements; cut-offs; overlapping retries | one message per key, agreeing answers, one announcement |
| Channel history (`services/messaging.py` 130-180) | the same table; the cursor the client holds | read a page | clients, beside writers | timestamps are taken before the INSERT; ties; page limits | nothing twice, nothing stored is skipped, paging ends |
| Directory (`services/membership.py`, `routers/channels.py`, `routers/dms.py`, `routers/me.py`) | workspaces, channels, channel_members | ensure workspace, create channel, add member, resolve DM | most endpoints | check-then-insert with and without a constraint; three statements without a transaction | both sides of a pair meet; a DM has its two sides |
| Inbox (`routers/messages.py` 89-143) | none of its own; the client's `since` | poll | bridges | ties on the timestamp, late commits, LIMIT 200 | what mentions an agent is listed, once |
| Reactions (`services/messaging.py` 183-230) | reactions table | add | clients | UNIQUE over a column that is NULL | one reaction per person, message and symbol |
| Authentication (`auth.py`, `routers/me.py`) | human_identities; the configuration | decide who asks, insert at the first visit | every endpoint | check-then-insert under a unique constraint that nothing catches | one name for a person; only a first visit may fail |
| Database access, start-up (`db.py`, the lifespan in `main.py`) | pool, schema, advisory lock | init, execute, fetch, close | everything | two workers start at once; a session outlives the worker that holds the lock; a pool at its limit | one builder of the schema at a time; no service without it; every request is answered |
| HTTP shell (`main.py`, `config.py`, `models.py`, `health.py`) | none | start and stop a worker, `/ready`, routing, validation | - | see start-up | see start-up |
| Feed: the first two, the inbox and the writers together | theirs; what the client believes | send, store, announce, reconnect, poll | the service and its clients | an event is lost to other workers, full queues and cut-off handlers | what a client hears of is stored; a mention it does not hear of is in its inbox |

How they interact: a write commits its row with a statement of its own and then
calls `publish` on its worker's bus, which puts the event in the queues of that
worker's streams. A tool call is a `publish` on the topic `agent:<id>` whose
return value, the number of queues reached, decides between waiting and 404;
the bridge that reads the event posts the result to another endpoint, perhaps
of another worker. History and inbox read the rows again; a client is meant to
combine them with the stream, and `Feed` is about whether it can. Every request
but `/health` and the authentication of people needs connections of the pool
that the worker's start-up made.

## 2. What runs concurrently, and what a step is

A worker is one asyncio event loop, so code between two suspensions is atomic.
The critical sections of `event_bus._lock` contain no `await`: the lock is
always free when asked for, acquiring it never suspends, and
subscribe, unsubscribe and publish are one step each. What does suspend: the
generator (waiting for its queue; having yielded a frame), `wait_for` in
`invoke_tool`, and every database statement. With `execute` and `fetchrow` each
statement commits by itself, so a handler that makes two is two steps, and other
handlers, of the same worker or of another, run in between. A crash takes a
worker's bus, streams, futures and waiting requests; the database stays, and so
does a session in the middle of a statement.

Python's `asyncio.wait_for` (3.12, as in the Dockerfile) is modelled from its
own semantics: the timer cancels the task; if what it awaits is done in the same
turn, the value is kept by the queue or future, and the task sees the timeout
all the same.

## 3. Modules

| Module | What it is |
|---|---|
| `Subscription` | abstract: what a stream of events is to its client |
| `EventBus` | the bus of every worker, composed with the streams that drain it |
| `ToolCallContract` | abstract: what a caller of a tool is promised |
| `ToolCall` | extends `EventBus` with `invoke_tool` and `report_tool_call_result` |
| `IdempotentLog` | abstract: what an idempotent write promises |
| `Messaging` | `send_message`, statement by statement |
| `History` | abstract: what paging through a channel is |
| `Timeline` | `read_channel`, beside writers |
| `Inbox` | extends `Timeline` with `check_messages` |
| `Reactions` | extends `Messaging` with `add_reaction` |
| `WriteOnce` | abstract: registers that are written once and told to whoever asks |
| `Directory` | workspaces, channels, members and DM channels, statement by statement |
| `Feed` | extends `EventBus` with `send_message`'s events and their clients, and composes it with an instance of `Inbox` |
| `Startup` | the life of the workers: `init_db` under the advisory lock, service, the end |
| `Identity` | extends `Startup` with requests: `get_auth_context`, `GET /me`, `GET /ready`, over the connection pool |
| `EventBusProofs`, `ToolCallProofs`, `WritesProofs`, `TimelineProofs`, `InboxProofs`, `DirectoryProofs`, `IdentityProofs`, `FeedProofs` | the theorems |
| `MC...` | constants for TLC |

Definitions with a suffix (`Wake_Lost`, `Found_AnyRow`, ...) are plausible slips
of the definition that follows; `PROJECT.json` pairs each with the property that
notices it.

### The abstract specifications

Each says what a component is to those who use it, in as few variables as they
can see, and a PROPERTY of a run and a theorem say that the component implements
it. They are stronger than the invariants they replaced in the runs, as they bind
every step: what was told once stays true.

| Abstract | Says | Refinement mapping |
|---|---|---|
| `Subscription` | a client that has joined reads of each topic it asked for the event that is next there, every time | a stream has joined once it is not "new"; queue, frame and subscriber lists are hidden. Implies InOrder |
| `ToolCallContract` | a call has one answer, and a result only if that was accepted | in `ToolCall` |
| `IdempotentLog` | a key has one entry, and all answers are about it | in `Messaging` |
| `History` | turning a page shows the messages that come next in the order of time and id, and ends the reading only when there are none after them; messages may appear behind a reader | a message's time exists once it is committed; a reader is over when its walk is; cursors, limits and the look-ahead row are hidden. Implies PagesMoveForward |
| `WriteOnce` | a register is written once; whoever asks is told, once, what it holds | in `Identity` the register of a person is its row's name (implies NamesAgree); in `Directory` the register of a workspace and a name is the id of its channel, and those who are told are creators and both sides of a pair (implies SidesMeet). Statements, orphaned INSERTs and cut-offs are hidden |

InOrder, PagesMoveForward, NamesAgree and SidesMeet are kept as definitions: the
theorems that state them hold, and the runs check what implies them.

### EventBus

`subscribers[t]`, `queue[s]` are `_subscribers` and the `asyncio.Queue` of a
stream; the queues of different workers are kept apart by `Home[s]`. `phase[s]`
is where the generator is: "waiting" in `queue.get()`, or "sending" after a
yield; `frame[s]` is what it yielded. `Publish` puts the event in every queue
with room and takes full ones off that topic. `Wake`, `Heartbeat` and `Sent` are
the three ways round the generator's loop; `Sent` goes on with the next event
without waiting, as `queue.get()` does on a queue that is not empty.
`Disconnect` is the client's, `Cleanup` the `finally` clause, some time later.
`Crash` closes all streams of a worker. `since` and `received` are history
variables.

### ToolCall

`Invoke` is `invoke_tool` up to its first suspension; it uses the bus's
`Publish` and looks at `Delivered`. `TimerFires` is the timer of `wait_for`,
`Resume` the rest of the handler, `PostResult` the other endpoint with
`resolve_tool_call`, served by any worker. The event for a call is identified by
the record in `invocation`. The handler of a crashed worker answers nobody:
"aborted". A bridge may post for any call whose event it has read, as often as
the bound allows, whatever it posted before.

### Messaging

`Lookup` executes the SELECT; the INSERT is then in flight, `Insert` executes it
at any later time, also when its handler has lost its connection or its worker
died. `Finish` is the rest of the handler: publish and 201, or 500 when the
unique constraint rejected the row. A retry is another request for the same
slot.

### Timeline

`Stamp` takes the timestamp, `Commit` executes the INSERT; between the two other
rows may be stamped and committed. `Read` is a request: it chooses a limit,
clamps it, selects the rows beyond the cursor, and answers with the first of
them and the next cursor. The cursor is the pair of timestamp and id it encodes.

### Inbox

`Poll` is a request of `check_messages`: it selects the mentions later than
`since[p]`, of which the answer is the oldest `InboxLimit`. The order of equal
timestamps is the database's to choose, and so it is any. The client presents
the last timestamp it was given, the only cursor the endpoint has. `Overtake`
conjoins to a step of `Timeline` what it means for the inbox: a mention that
becomes visible behind the timestamp presented is `late`. Only mentions are
listed, as in the SELECT: the comment above it also names the channels an agent is
the sole member of, and the contract (`contract/WORKSPACE_API.md:108-109`) messages
"addressed to or mentioning" it, of which the statement selects the second kind.

### Reactions

`React` sends the INSERT, `InsertReaction` executes it at any later time,
`FinishReaction` publishes and answers, `FailReaction` is a connection that
breaks, `CrashWorker` a worker that dies with its requests of both kinds.
`Columns` is the pair of sender columns, one of them NULL; `Violates` compares
them as SQL does. A client can react to a message once its row exists, which
may be before its `message.created` is published.

### Directory

`step[r]` is the statement handler `r` waits for; a step executes it and runs to
the next. Rows are named by the request that inserted them. `Fail` cuts a
handler off, with its last statement executed or not. A title may be any string,
and so may be the name of a DM channel.

### Feed

The variables are those of `EventBus` and, through `Mail == INSTANCE Inbox`,
those of the writers and the inbox (`mark` is its `since`; there are no readers
of the history). `Send` is the stamp of a message at the worker that took it,
`Store` its INSERT, `Announce` the publish that follows, for a handler that was
not cut off. The client is the one `contract/WORKSPACE_API.md` describes: it
keeps one stream (`Reconnect`) and polls (`Poll`) while it has none, and after
a connect until an answer is empty (`CaughtUp`), from when on it trusts the
stream. `announced[m]` is the event of a message, so that an event in a
queue can be traced back to a row, and `backfill[s]` what was stored when the
client had polled to the end after stream `s` came: both are history variables.
`Mentions` are the messages that mention the agent. The channel carries the others
too, but no poll returns them. Idempotency keys are left to `Messaging`: a
message here is a write that is not a replay.

### Startup and Identity

`session[w]` is the database session in which a worker applies the schema;
`waiting`, `holder` and `stmt` belong to sessions, not to workers. `Die` leaves
the session alone: a statement goes on to be executed, and only a session that
executes none finds its client gone (`EndSession`), which frees the lock.
`Refuse` is a statement that fails: the `finally` clause unlocks and the start-up
ends. `Stop` and `Close` are the end of the lifespan.

In `Identity` every statement of a handler is two steps: `Acquire` takes a
connection and sends it, the statement itself returns and gives the connection
back. `Admitted` is `get_auth_context`: what a credential of each kind gets under
each configuration (`mode`: authentication off; on, tokens decoded unverified;
on, verification asked for and not implemented). A token whose payload is JSON but no
object is decoded and then asked for a claim, which is a 500 (`auth.py:137`). An INSERT whose handler is gone
stays in `orphans` and may be executed later.

## 4. Runs

| Run | Asks | Instance, and why it is enough |
|---|---|---|
| `feed` (484 078 states) | FeedTypeOK, NothingLost, GivenOrStreamed, HeardIsStored, NoGap, NothingMissed, ImplementsSubscription | two workers, two streams in turn of one client of the first, a queue of one, a message that mentions the agent and one that does not, three moments of time, answers of one: each goes to the other worker, is dropped, cut off before its event or committed late, and the mention is found by the poll or is one that no poll finds. Two mentions in a tie are left to `reading`, and to the theorems, which hold for any messages |
| `feed_backfill` | MissesAreBackfilled, violated | the same |
| `bus_two_workers` | InstanceFanout, violated | a stream on each of two workers, one event |
| `bus_slow_consumer` | DroppedMustReconnect, violated | one stream with a queue of one, two events |
| `tool_calls` (23 869 states) | CallTypeOK, PendingMatchesWaiters, AcceptedIsKept, AnswerIsGenuine, RefusedNeverRuns, WaitsForSomebody, ImplementsContract, QueuedReachesBridge, LeaversAreReaped | two calls to an agent with one bridge, on two workers, beside a channel, two different results, two posts per call: a post is late, repeated or misrouted, and with a queue of one the second call finds the bridge full and drops it. The six invariants are proved for any number of bridges, so that one is full while another is not is left to the proof |
| `tool_timeout_race` | AcceptedReachesCaller, violated | one bridge, two workers |
| `writes` (164 853 states) | AcksAgree, AnnouncedOnce, StoredIsAnnounced, ImplementsLog, ReactionTypeOK, OkIsTold | three attempts at one message and one at another, on two workers: an attempt may lose the race while the third replays the winner; a person reacts to the message and repeats the request on the other worker |
| `send_retry_error` | RetriesAreSafe, violated | the same sends, no reactions |
| `reading` (195 466 states) | ImplementsHistory, NothingSkipped, WalkEnds, InboxTypeOK, PollsMoveForward, MissedOnlyIfLateOrTied, InboxCatchesUp | four messages, three of them mentions of the polling agent, three ticks, pages and answers of at most two, page sizes asked for below and above the range: ties within a page or an answer, across its boundary, and late commits on both sides of the cursor |
| `directory` (241 795 states) | TypeOK, ImplementsWriteOnce, FilledByMaker, HalfMadeIfCutOff | both sides of a pair, one plain visit, one channel with the pair's name, one join |
| `dm_two_channels` | SidesAlwaysMeet, violated | both sides of a pair |
| `service` (140 721 states) | IdentityTypeOK, OneBuilder, SchemaBeforeService, ImplementsWriteOnce, FailsOnlyAtFirst, StartsUp, RequestsAnswered | two workers, started twice in all, so that one starts beside the session of a dead one or while the other serves; two schema statements, so that one can die between them; two first visits of one person with different names, on both workers, and a third request of any other kind that wants the one connection of its pool; all three configurations, and tokens of every kind |

Bounds: `MaxPublished` (events per worker and topic), `MaxPosts` (posts per
call), `MaxStarts` (starts of workers), `MaxClock`, and `MaxPages` and
`MaxPolls`, pages of one walk and answers of one poller. The last two exceed the
number of messages, so they stop neither, which is proved: a page or an answer
that is counted has a message in it that none before had (PagesAreFewAlways,
AnswersAreFewAlways). Each step that
a bound stops is one that nobody is obliged to take. Deadlock is not checked:
every client may have left and every request may have been answered, and then
the system rightly stops. Waiting that should end is stated as a liveness
property instead. Symmetry is declared only in runs without liveness, over
streams of one worker and one client, which the modules do not tell apart. FeedTypeOK, InboxTypeOK, ReactionTypeOK and
IdentityTypeOK include the TypeOK of the module they extend.

### What the violated runs show

* `bus_two_workers`: the bus is a module variable and the image starts two
  workers, so "subscribers on the same instance receive it"
  (`wiki/DECISIONS.md:153-154`) fails for a write the other worker served.
* `bus_slow_consumer`: the docstring of `publish` says slow consumers "must
  reconnect"; they are taken off one topic while their stream stays open and
  their heartbeats go on, so nothing tells them to.
* `feed_backfill`: "Cross-instance misses are backfilled by the client's `/inbox`
  poll on reconnect" (`wiki/DECISIONS.md:154-156`), which is why the loss of a message
  posted to another instance "is acceptable" (`wiki/ARCHITECTURE.md:107-112`). The
  inbox lists messages that mention the agent (`routers/messages.py:109-124`): a
  message of the channel that mentions nobody, announced by the other worker while
  the client had a stream, is in no answer, however often the client polls. NothingLost
  is what does hold.
* `tool_timeout_race`: a bridge is told 200 and the caller `tool_call_timeout`,
  when result and timer meet in one turn of the loop.
* `send_retry_error`: of two overlapping sends with one key one is answered 500,
  not with the original message.
* `dm_two_channels`: two first requests make two workspaces, and the two sides
  of a pair a channel in each.

## 5. Fairness

* Streams: weak fairness of `Wake`, `Sent` and `Cleanup`. The loop runs every
  task that is ready, and the server finalises a generator whose client has
  gone. `Sent` supposes that a client which stays connected reads its socket; one
  that does not is never `gone` and promised nothing. No heartbeat is needed.
* Tool calls: weak fairness of `TimerFires` and `Resume`. Bridges, posts, and
  the streams themselves are under no obligation: the contract's bounded answer
  rests on the timer alone. QueuedReachesBridge and LeaversAreReaped are
  implications whose premise is the fairness of the streams.
* Messages: weak fairness of the INSERT a living handler waits for and of
  `Finish`. A statement whose handler is gone may never be executed.
* Start-up: what a living worker sends (`Send`, `Serve`) and what the database
  does by itself: hand on the lock, execute a statement, notice a dead client. No
  worker need be started, and a supervisor is not modelled but by that.
* Requests: weak fairness of `Acquire` and of the statement that was sent. The pool
  serves those who wait in turn; weak fairness asks less, and is enough as the
  requests are finitely many.
* Reactions: the same as for messages. None of their properties needs it.
* History: a client that has begun to page goes on, and a bridge polls its inbox
  again and again (the contract: "at a 10s interval"). `Directory` and `Feed` have no
  fairness and no liveness: every property of them is one of safety.

## 6. Proofs

The theorems hold for every value of the constants that the modules' ASSUMEs
allow: any number of workers, streams, topics, requests, messages and people,
any queue size and page size. The bounds on counters are parameters of them as
well.

* `EventBusProofs`. `BusInv` is TypeOK, NoZombieSubscriber, StreamInv and
  DeliveryInv, in this order, as each needs the ones before. NoGap is not
  inductive alone: that the next event leaves no hole is NothingMissed (the
  stream had all that was published before, as it is still subscribed), that it
  is in order needs that nothing in a trail is newer than what was published
  (SourceInv), and a trail can be split into received, frame and queue only
  because of StreamInv. `Cut` is the lemma of all steps that publish
  nothing: they keep a trail or shorten it. `ImplementsSubscriptionAlways` maps
  the end of `Sent` to the reading of one event and every other step to a
  publication, a joining, a leaving or a stutter. That the event is the next one
  of its topic is read off the invariant: NoGap says that the trail before it has
  all the earlier ones, InOrder that it has none of the later (HeardSoFar), and
  AskedInv that the topic is one that was asked for.
* `ToolCallProofs`. `CallInv` adds FutureInv: how the future, the value, the
  dictionary and the timer go together in each phase. It gives
  PendingMatchesWaiters, AcceptedIsKept and AnswerIsGenuine. `ReachInv` adds that
  the event of a call is one that was published, so no later event is taken for
  it; with `BusInv`, whose proof is reused, it gives RefusedNeverRuns and
  WaitsForSomebody. `ContractSafety` maps every step to one of the contract or to
  a stutter; a crash is the one step that settles several calls.
  `CallSubscription` reuses the refinement of the bus for one that is driven by
  tool calls.
* `WritesProofs`, on messages. `IInv` is TypeOK, UniqueRows and HandlerInv. The lookup is
  stale when the INSERT runs; the argument rests on the constraint, and on no
  answer being given before its row exists. `Refinement` shows that
  `send_message` implements `IdempotentLog`.
* `TimelineProofs`. `WalkInv` says where a reader's cursor lies: at or behind
  nothing that is yet to be listed and at or behind all that has been. Rows have
  their timestamps before they are committed, so keys that matter never change.
  `PageSize` counts: the page is what LIMIT leaves of the rows, all of them when
  there is no further row. `ImplementsHistoryAlways` maps a read to the turning of
  a page: what lies beyond the cursor is what lies after all that was listed, as
  the cursor is the key of a listed row and none listed is later (AheadIsBeyond).
  `CountInv` says that every page but the last lists a message that none before
  did; from it, by cardinalities, the bound on pages is never in the way.
* `InboxProofs` adds `PollInv` to Timeline's invariant, which holds beside polls
  because a poll changes none of its variables: what was given is visible and
  at or before `since`, and what is visible, addressed to the agent and at or before
  `since` was given, came late or was cut off within a tie. The answer is the
  oldest of what matches, so what it leaves out is later than its last
  timestamp or equal to it. As polls leave Timeline's variables alone, its theorems
  hold beside them (`HistoryBesideInbox`, `WalksBesideInbox`).
* `WritesProofs`, on reactions. An INSERT of a living handler is executed before the handler
  goes on, and what it stored stays: `OkIsTold` follows, provided that the
  constraint compares nothing (Violates is false, since of the two sender columns
  one is always NULL).
* `DirectoryProofs`. `IInv` has what each handler knows at each statement
  (Progress), the unique constraint, that the maker of a channel is past its
  INSERT, and that a handler inserts members into its own channel only.
  `ImplementsWriteOnceAlways` follows the register of a workspace and a name: the
  constraint lets an INSERT in only while the register is free (InsertWrites), cut
  off or not, and a handler that is answered owns the channel of its workspace and
  name, which is what the register holds (Owns, AnswerTells). The answer of a
  creator writes and tells in one step.
* `IdentityProofs`. `StartInv` ties a worker to its session and a session to the
  lock: sessions of living workers are different, statements are executed in the
  session that holds the lock, and what a worker counts as done took effect. It is
  proved for `Startup` alone, and again under `Identity`, most of whose steps leave
  it alone. `ServiceInv` adds what a handler knows at each statement: a name is
  answered only when it is stored, and a row stays, so a visit that finds the
  constraint violated looked before the row was there. The pool's bound is a count
  of `Busy`, which `Acquire` raises by one and everything else lowers.
  `SchemaInOrderAlways` needs what `StartInv` does not say, that all before a
  statement in execution took effect, also when its worker is dead (OrderInv): the
  tables refer to one another, so an interrupted start must leave a beginning of
  the schema. `ImplementsWriteOnceAlways` is the refinement of `WriteOnce`: an INSERT,
  whoever waits for it, writes the name or finds it written (StoredWrites), and an
  answer tells what is stored at the end of the step (AnswerTells).
* `FeedProofs`. `FeedIsBus` maps every step of the composition to one of the bus or
  to a stutter, which carries `BusInv` over unchanged. `MailInv` is what an inbox
  that was polled up to `mark` has seen: given, late or tied. The two are
  joined by AnnouncedInv (the events of a channel belong to stored messages, one
  each) and BackfillInv (a mention that was stored when the client had polled to the
  end lies at or before the client's timestamp, and whatever was announced before the
  stream came was stored by then). BackfillInv is inductive because a
  timestamp presented never goes back and a message is announced under a number beyond
  all that any stream has as its `since`; `NothingLost` is its conjunction with
  `MailInv`. Nothing is assumed of `Mentions` but that they are among the messages. `FeedSubscription` carries the refinement of the
  bus over. `GivenOrStreamed` is what the parts add up to for a client that is
  connected and has polled to the end: each mention that was stored by then, or that
  its worker announced, was in an answer (NothingLost, if the event is not later than
  the subscription) or is on the stream (NothingMissed, if it is), but for what a poll
  by timestamp cannot find.

Stated by theorems alone, with no run of their own, are NoZombieSubscriber,
SchemaInOrder, PagesAreFew, AnswersAreFew and the four invariants that an abstract
specification implies.

Only model-checked: QueuedReachesBridge, LeaversAreReaped, StoredIsAnnounced,
WalkEnds, InboxCatchesUp, StartsUp, RequestsAnswered and the liveness half of
ImplementsContract, because TLAPS proves no liveness
under fairness and nothing about ENABLED. Induction over data and RECURSIVE
operators are out of its reach too; no module uses either. The violated
properties are refuted by TLC and have no theorem.

## 7. Not modelled, and why

* Payloads, frame and cursor formats, logging, request validation, the wording
  of errors. A cursor that does not decode is answered 400 and changes nothing.
* The 403 checks of streams, DMs and channels, which compare the caller's id with
  a stored one; token formats, hashes and the fall-backs of single claims; what a
  machine token may be used for. A claim of the wrong type (a `sub` that is no string,
  an `org_id` that is no UUID) is a failure of binding it to a statement, below. `require_agent`, which no route uses.
* How the driver binds parameters: a statement is what its SQL says. A parameter that
  does not bind is answered 500, as a connection that breaks is. A session is the database's own, as on a
  direct endpoint: behind a pooler in transaction mode, which `wiki/RUNBOOK.md:147`
  mentions, a session-level advisory lock need not be held by the connection that
  asked for it, and OneBuilder says nothing. The SQLite
  backend, one connection in the memory of one process, is the tests' own.
  `transaction()` is used by no handler.
* The length of time: a heartbeat or the 60 seconds may be over at any moment.
* In `Feed`, `agent.typing` and member events, and clients that follow several
  channels: each topic is a queue discipline of its own, which `EventBus` covers.
* The 400 for an unknown reaction symbol and a `since` that is no timestamp
  (ignored by the code): neither changes state. Requests for different symbols
  touch different rows.
* In `Directory`, the guess whether a counterpart is an agent, the cut of a DM
  name at 60 characters, and lists of channels.

### Observations without a run

* Of several first visits of one person that overlap, one is answered 200 and
  each other one that looked before the row was there 500, as nothing catches
  the violated constraint; its next visit finds the row. FailsOnlyAtFirst says
  that no other visit that was admitted fails so; a token that is no object is not.
* The name in a later token is ignored: the first visit decides, also if the tokens
  of its rivals say otherwise (ImplementsWriteOnce).
* A handler that asked the pool for a second connection inside `transaction()`
  could wait for itself; none does, and `Released_Nested` shows what RequestsAnswered
  would say of one.
* A message that another worker took, that a full queue dropped or whose handler
  was cut off is not on the client's stream. The poll finds it if it mentions the
  agent, but the contract asks for a poll at connect only, and nothing makes a client
  reconnect; if it mentions nobody, only the history of the channel has it.
* A worker that dies at the schema delays the others until its backend notices.

* A worker that dies between commit and publish leaves a message nobody is told
  of; its retry is answered with it as a replay and does not announce it either.
  StoredIsAnnounced names this as its only exception, so
  it does not bear on it; the inbox does, for those it mentions (NothingLost).
* A reader that has read to the end misses a message stamped earlier and
  committed later: it lies behind the cursor. NothingSkipped is what does hold.
* A handler cut off within `_resolve_dm_channel` leaves a DM channel without a
  side, which every later request finds and none completes, though "exactly two
  members" is what `dms.py:6` says of it: HalfMadeIfCutOff says only that nothing else
  leaves one; anybody may be added
  to a DM with the members endpoint, so it may have more than two.
* A channel created under the name of a DM is found in its place, without
  members.
* A result posted to another worker than the one that waits is answered 404.
* A repeated reaction is stored and announced again: the UNIQUE constraint that
  should prevent it (`wiki/DATA_MODEL.md:84-87`) contains a column that is NULL, and
  NULLs are distinct. The `return True` on a violation is therefore never taken on
  PostgreSQL, and OkIsTold is about a handler that inserts and publishes. Were it, a retry of a request that was cut off between INSERT and publish would
  be told ok without anybody being told of the reaction; the slip
  `Violates_NullsEqual` breaks OkIsTold in just this way.
* A reaction may be announced before the message it belongs to, and on the
  channel of the path, which nothing compares with the message's.
* An INSERT for a channel or a message that does not exist violates a foreign key
  and is answered 500, not 404.
* An inbox polled by timestamp misses what is cut within a tie, and what is
  committed late, for good; MissedOnlyIfLateOrTied says that it misses no more.
* `tool_call.completed` and `agent.typing` of the contract are never published.
* `RUNBOOK.md:37-38` calls a heartbeat of 0 unset; the code takes 0.5 seconds.
* `dm_threads` is never written.

## 8. Plan

Done, in this order: the bus with its streams; tool calls and their contract;
message writes and the log; the history and the inbox beside it; the directory;
reactions beside the writes; start-up, authentication and `/me`; the feed that
joins writers, bus and inbox; the abstract specifications of the streams, the
history and the registers, with their refinements.

Next:

1. An abstract specification of the whole feed, of which GivenOrStreamed is the
   part that is stated so far, and the history in `Feed`: a client that reads it
   after a reconnect.
2. Liveness of `Feed`: a client that stays connected and polls is given every
   mention that is not late or tied, under the fairness of streams and pollers.
3. `Directory` under the pool and the start-up of `Identity`, as both insert the
   workspace.
