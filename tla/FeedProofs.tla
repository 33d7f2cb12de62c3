----------------------------- MODULE FeedProofs -----------------------------
(***************************************************************************)
(* Proofs about Feed, for any workers, streams, messages and limits: the   *)
(* bus keeps its promises when it is driven by the writers, what a client  *)
(* hears of is stored, and what it does not hear of its inbox gives it.    *)
(***************************************************************************)
EXTENDS Feed, EventBusProofs, FiniteSetTheorems

-----------------------------------------------------------------------------
(* The messages and the inbox.                                             *)

\* The mentions that the timestamp of client c has passed it was given, or they
\* are of the two kinds that a poll by timestamp misses.
PassedInv(c) ==
  /\ \A i \in DOMAIN polls[c] : polls[c][i] \subseteq rows
  /\ \A m \in rows \cap Mentions :
       created_at[m] <= mark[c] => m \in Mail!Given(c) \/ Behind(c, m)

MailInv ==
  /\ clock \in Nat \ {0}
  /\ created_at \in [Messages -> Nat]
  /\ rows \subseteq Messages
  /\ \A m \in rows : created_at[m] # 0
  /\ mark \in [Clients -> Nat]
  /\ polls \in [Clients -> Seq(SUBSET Mentions)]
  /\ late \in [Clients -> SUBSET Mentions]
  /\ \A c \in Clients : PassedInv(c)

\* What the rest of the system may count on: a row stays, with its timestamp,
\* and what a client has passed stays passed.
MailStep ==
  /\ rows \subseteq rows'
  /\ \A m \in rows : created_at'[m] = created_at[m]
  /\ \A c \in Clients : mark[c] <= mark'[c]

\* The instance counts as the module does.
LEMMA SameCardinality == \A S : Mail!Cardinality(S) = Cardinality(S)
BY DEF Cardinality, Mail!Cardinality

LEMMA InitMail == Mail!InboxInit => MailInv
<1>1. DOMAIN <<>> = {} /\ <<>> \in Seq(SUBSET Mentions)
  BY EmptySeq
<1> SUFFICES ASSUME Mail!InboxInit PROVE MailInv
  OBVIOUS
<1>2. /\ clock = 1 /\ rows = {}
      /\ created_at = [m \in Messages |-> 0]
      /\ mark = [c \in Clients |-> 0]
      /\ polls = [c \in Clients |-> <<>>]
      /\ late = [c \in Clients |-> {}]
  BY DEF Mail!InboxInit, Mail!Init
<1>3. \A c \in Clients : PassedInv(c)
  BY <1>1, <1>2 DEF PassedInv
<1> QED BY <1>1, <1>2, <1>3 DEF MailInv

LEMMA SameMail ==
  ASSUME MailInv, UNCHANGED mailVars PROVE MailInv' /\ MailStep
<1>1. UNCHANGED <<clock, created_at, rows, mark, polls, late>>
  BY DEF mailVars
<1>2. ASSUME NEW c \in Clients PROVE PassedInv(c)'
  <2>1. PassedInv(c)
    BY DEF MailInv
  <2>2. Mail!Given(c)' = Mail!Given(c)
    BY <1>1 DEF Mail!Given
  <2>3. \A m : Behind(c, m)' = Behind(c, m)
    BY <1>1 DEF Behind, Mail!CutInTie
  <2> QED BY <1>1, <2>1, <2>2, <2>3 DEF PassedInv
<1> QED BY <1>1, <1>2 DEF MailInv, MailStep

\* A step of a writer.
LEMMA WriterMail ==
  ASSUME MailInv, Mail!Overtake,
         \/ Mail!Tick
         \/ \E m \in Messages : Mail!Stamp(m) \/ Mail!Commit(m)
  PROVE  MailInv' /\ MailStep
<1>1. /\ clock' \in Nat \ {0}
      /\ created_at' \in [Messages -> Nat]
      /\ rows \subseteq rows' /\ rows' \subseteq Messages
      /\ \A m \in rows : created_at'[m] = created_at[m]
      /\ \A m \in rows' : created_at'[m] = created_at[m] /\ created_at[m] # 0
  <2>1. CASE Mail!Tick
    BY <2>1 DEF Mail!Tick, MailInv
  <2>2. ASSUME NEW m \in Messages, Mail!Stamp(m) PROVE <1>1
    BY <2>2 DEF Mail!Stamp, MailInv
  <2>3. ASSUME NEW m \in Messages, Mail!Commit(m) PROVE <1>1
    BY <2>3 DEF Mail!Commit, MailInv
  <2> QED BY <2>1, <2>2, <2>3
<1>2. /\ mark' = mark /\ polls' = polls
      /\ late' = [c \in Clients |-> late[c] \cup
           {m \in (rows' \ rows) \cap Mentions : created_at[m] <= mark[c]}]
  BY DEF Mail!Overtake
<1>3. ASSUME NEW c \in Clients PROVE PassedInv(c)'
  <2>1. \A i \in DOMAIN polls[c] : \A m \in polls[c][i] :
          m \in rows /\ created_at'[m] = created_at[m]
    BY <1>1 DEF MailInv, PassedInv
  <2>2. Mail!Given(c)' = Mail!Given(c)
    BY <1>2 DEF Mail!Given
  <2>3. \A m \in rows : Mail!CutInTie(c, m) => Mail!CutInTie(c, m)'
    BY <1>1, <1>2, <2>1 DEF Mail!CutInTie
  <2>4. late'[c] = late[c] \cup
          {m \in (rows' \ rows) \cap Mentions : created_at[m] <= mark[c]}
    BY <1>2
  <2>5. ASSUME NEW m \in rows' \cap Mentions, created_at'[m] <= mark[c]
        PROVE  m \in Mail!Given(c) \/ m \in late'[c] \/ Mail!CutInTie(c, m)'
    <3>1. CASE m \in rows
      BY <1>1, <2>3, <2>4, <2>5, <3>1 DEF MailInv, PassedInv, Behind
    <3>2. CASE m \notin rows
      BY <1>1, <2>4, <2>5, <3>2
    <3> QED BY <3>1, <3>2
  <2>6. \A i \in DOMAIN polls[c] : polls[c][i] \subseteq rows'
    BY <1>1, <2>1
  <2> QED BY <1>2, <2>2, <2>5, <2>6 DEF PassedInv, Behind
<1>4. late' \in [Clients -> SUBSET Mentions]
  BY <1>2 DEF MailInv
<1>5. \A c \in Clients : mark[c] <= mark'[c]
  BY <1>2 DEF MailInv
<1> QED BY <1>1, <1>2, <1>3, <1>4, <1>5 DEF MailInv, MailStep

LEMMA PollMail ==
  ASSUME MailInv, NEW c \in Clients, Mail!Poll(c) PROVE MailInv' /\ MailStep
<1> DEFINE S == Mail!Matching(c)
           old == polls[c]
           K == Len(old) + 1
<1>1. PICK P \in (SUBSET S) \ {{}} :
        /\ Mail!Oldest(P, S)
        /\ Mail!Cardinality(P) = IF Mail!Cardinality(S) < InboxLimit
                                 THEN Mail!Cardinality(S) ELSE InboxLimit
        /\ polls' = [polls EXCEPT ![c] = Append(@, P)]
        /\ \E m \in P : /\ \A n \in P : created_at[n] <= created_at[m]
                        /\ mark' = [mark EXCEPT ![c] = created_at[m]]
  BY DEF Mail!Poll
<1>2. PICK x \in P : /\ \A n \in P : created_at[n] <= created_at[x]
                     /\ mark' = [mark EXCEPT ![c] = created_at[x]]
  BY <1>1
<1>3. UNCHANGED <<clock, created_at, rows, late>>
  BY DEF Mail!Poll, Mail!vars, Mail!writerVars
<1>4. /\ rows \subseteq Messages /\ IsFiniteSet(Messages)
      /\ \A m \in rows : created_at[m] \in Nat
      /\ mark[c] \in Nat
      /\ S \subseteq rows \cap Mentions
      /\ \A m \in S : created_at[m] > mark[c]
      /\ \A m \in (rows \cap Mentions) \ S : created_at[m] <= mark[c]
  BY FeedAssumption DEF MailInv, Mail!Matching
<1>5. \A m \in P, n \in S \ P : created_at[m] <= created_at[n]
  BY <1>1 DEF Mail!Oldest
<1> HIDE DEF S
<1>6. P = S \/ Mail!Cardinality(P) = InboxLimit
  <2>1. IsFiniteSet(S)
    BY <1>4, FS_Subset
  <2>2. Mail!Cardinality(P) = Cardinality(P) /\ Mail!Cardinality(S) = Cardinality(S)
    BY SameCardinality
  <2> QED BY <1>1, <2>1, <2>2, FS_Subset
<1>7. mark'[c] = created_at[x] /\ created_at[x] > mark[c]
  BY <1>2, <1>4 DEF MailInv
<1>8. /\ Append(old, P) \in Seq(SUBSET Mentions)
      /\ polls'[c] = Append(old, P)
      /\ DOMAIN Append(old, P) = 1 .. K
      /\ DOMAIN old \subseteq 1 .. K /\ K \in 1 .. K
      /\ \A i \in DOMAIN old : Append(old, P)[i] = old[i]
      /\ Append(old, P)[K] = P
      /\ \A i \in 1 .. K : i \in DOMAIN old \/ i = K
  <2>1. old \in Seq(SUBSET Mentions) /\ P \in SUBSET Mentions
    BY <1>4 DEF MailInv
  <2>2. /\ Append(old, P) \in Seq(SUBSET Mentions)
        /\ Len(Append(old, P)) = Len(old) + 1
        /\ \A i \in 1 .. Len(old) : Append(old, P)[i] = old[i]
        /\ Append(old, P)[Len(old) + 1] = P
    BY <2>1, AppendProperties
  <2>3. /\ DOMAIN old = 1 .. Len(old) /\ Len(old) \in Nat
        /\ DOMAIN Append(old, P) = 1 .. Len(Append(old, P))
    BY <2>1, <2>2, LenProperties
  <2>4. polls'[c] = Append(old, P)
    BY <1>1 DEF MailInv
  <2> QED BY <2>2, <2>3, <2>4
<1>9. ASSUME NEW d \in Clients \ {c} PROVE PassedInv(d)'
  <2>1. mark'[d] = mark[d] /\ polls'[d] = polls[d] /\ late'[d] = late[d]
    BY <1>1, <1>2, <1>3 DEF MailInv
  <2>2. Mail!Given(d)' = Mail!Given(d)
    BY <2>1 DEF Mail!Given
  <2>3. \A m : Mail!CutInTie(d, m) => Mail!CutInTie(d, m)'
    BY <1>3, <2>1 DEF Mail!CutInTie
  <2>4. PassedInv(d)
    BY DEF MailInv
  <2> QED BY <1>3, <2>1, <2>2, <2>3, <2>4 DEF PassedInv, Behind
<1>10. PassedInv(c)'
  <2>1. PassedInv(c)
    BY DEF MailInv
  <2> HIDE DEF K
  <2>2. \A i \in DOMAIN polls'[c] : polls'[c][i] \subseteq rows
    BY <1>4, <1>8, <2>1 DEF PassedInv
  <2>3. /\ \A m \in Mail!Given(c) : m \in Mail!Given(c)'
        /\ \A m \in P : m \in Mail!Given(c)'
    BY <1>8 DEF Mail!Given
  <2>4. \A m : Mail!CutInTie(c, m) => Mail!CutInTie(c, m)'
    BY <1>3, <1>8 DEF Mail!CutInTie
  <2>5. ASSUME NEW m \in rows \cap Mentions, created_at[m] <= created_at[x]
        PROVE  m \in Mail!Given(c)' \/ m \in late[c] \/ Mail!CutInTie(c, m)'
    <3>1. CASE m \in P
      BY <2>3, <3>1
    <3>2. CASE m \notin S
      BY <1>4, <2>1, <2>3, <2>4, <3>2 DEF PassedInv, Behind
    <3>3. CASE m \in S \ P
      <4>1. Mail!Cardinality(P) = InboxLimit
        BY <1>6, <3>3
      <4>2. created_at[x] = created_at[m]
        BY <1>1, <1>4, <1>5, <2>5, <3>3
      <4> QED BY <1>2, <1>3, <1>8, <4>1, <4>2 DEF Mail!CutInTie
    <3> QED BY <3>1, <3>2, <3>3
  <2> QED BY <1>3, <1>7, <2>2, <2>5 DEF PassedInv, Behind
<1>11. mark' \in [Clients -> Nat] /\ \A d \in Clients : mark[d] <= mark'[d]
  BY <1>2, <1>4, <1>7 DEF MailInv
<1>12. polls' \in [Clients -> Seq(SUBSET Mentions)]
  BY <1>1, <1>8 DEF MailInv
<1> QED BY <1>3, <1>9, <1>10, <1>11, <1>12 DEF MailInv, MailStep

-----------------------------------------------------------------------------
(* The handlers of send_message.                                           *)

\* Event n of the channel at worker w.
Notice(w, n) == [at |-> w, topic |-> Channel, n |-> n]

\* A message is announced once, when it is stored, by the worker that took it
\* and under a number of its own.
AnnouncedInv ==
  /\ server \in [Messages -> {<<>>} \cup {<<w>> : w \in Workers}]
  /\ cut \subseteq Messages
  /\ announced \in [Messages -> Seq(Event)]
  /\ \A m \in Messages : announced[m] # <<>> =>
       /\ m \in rows
       /\ \E w \in Workers : \E n \in 1 .. published[w][Channel] :
            announced[m] = <<Notice(w, n)>>
  /\ \A m, n \in Messages :
       announced[m] # <<>> /\ announced[m] = announced[n] => m = n

\* Streams announce nothing but messages, and a stream subscribes to what
\* has been published.
HeardInv ==
  /\ HeardIsStored
  /\ \A s \in Streams, w \in Workers :
       since[s][w][Channel] <= published[w][Channel]

\* When a client has polled to the end, its timestamp has passed the mentions
\* stored; and what was announced before its stream came was stored by then.
BackfillInv ==
  /\ backfill \in [Streams -> {<<>>} \cup {<<R>> : R \in SUBSET Messages}]
  /\ \A s \in Backfilled :
       /\ phase[s] # "new"
       /\ backfill[s][1] \subseteq rows
       /\ \A m \in backfill[s][1] \cap Mentions : created_at[m] <= mark[ClientOf[s]]
       /\ \A m \in Messages : \A w \in Workers, n \in Nat :
            announced[m] = <<Notice(w, n)>> /\ n <= since[s][w][Channel]
              => m \in backfill[s][1]

\* The inductive invariant.
FeedInv == BusInv /\ MailInv /\ AnnouncedInv /\ HeardInv /\ BackfillInv

LEMMA ChannelIsTopic == Agent \in Topics /\ Channel \in Topics
BY FeedAssumption DEF Topics

LEMMA NoticeIsOne ==
  ASSUME NEW w, NEW n
  PROVE  <<Notice(w, n)>> # <<>> /\ <<Notice(w, n)>>[1] = Notice(w, n)
<1>1. Len(<<Notice(w, n)>>) = 1 /\ Len(<<>>) = 0
  OBVIOUS
<1> QED BY <1>1

LEMMA NoticeParts ==
  \A v, w, i, n : Notice(v, i) = Notice(w, n) => v = w /\ i = n
<1> SUFFICES ASSUME NEW v, NEW w, NEW i, NEW n, Notice(v, i) = Notice(w, n)
             PROVE  v = w /\ i = n
  OBVIOUS
<1>1. Notice(v, i).at = v /\ Notice(w, n).at = w
      /\ Notice(v, i).n = i /\ Notice(w, n).n = n
  BY DEF Notice
<1> QED BY <1>1

LEMMA InitFeed == FeedInit => FeedInv
<1> SUFFICES ASSUME FeedInit PROVE FeedInv
  OBVIOUS
<1>1. BusInv /\ MailInv
  BY InitBus, InitMail DEF FeedInit
<1>2. AnnouncedInv
  BY DEF FeedInit, AnnouncedInv
<1>4. BackfillInv
  <2>1. backfill = [s \in Streams |-> <<>>] /\ Backfilled = {}
    BY DEF FeedInit, Backfilled
  <2> QED BY <2>1 DEF BackfillInv
<1>3. HeardInv
  <2>1. \A s \in Streams : Trail(s) = <<>>
    <3>1. <<>> \o <<>> = <<>>
      BY EmptySeq, ConcatEmptySeq
    <3> QED BY <3>1 DEF FeedInit, Init, Trail
  <2>2. DOMAIN <<>> = {}
    OBVIOUS
  <2>3. \A s \in Streams, w \in Workers :
          since[s][w][Channel] <= published[w][Channel]
    BY ChannelIsTopic DEF FeedInit, Init
  <2> QED BY <2>1, <2>2, <2>3 DEF HeardInv, HeardIsStored
<1> QED BY <1>1, <1>2, <1>3, <1>4 DEF FeedInv

\* What a step is for the bus.
LEMMA AnnounceIsPublish ==
  ASSUME FeedInv, NEW m \in Messages, Announce(m)
  PROVE  \E w \in Workers :
           /\ server[m] = <<w>>
           /\ Publish(w, Channel)
           /\ announced' = [announced EXCEPT ![m] =
                              <<Notice(w, published[w][Channel] + 1)>>]
<1>1. PICK w \in Workers : server[m] = <<w>>
  BY DEF Announce, Handled, FeedInv, AnnouncedInv
<1>2. server[m][1] = w
  BY <1>1
<1> QED BY <1>1, <1>2 DEF Announce, Notice

\* Every step of the composition is a step of the bus or changes nothing there.
LEMMA FeedIsBus == FeedInv /\ [FeedNext]_vars => [Next]_busVars
<1> SUFFICES ASSUME FeedInv, [FeedNext]_vars PROVE [Next]_busVars
  OBVIOUS
<1>1. CASE UNCHANGED vars
  BY <1>1 DEF vars
<1>2. CASE Tick
  BY <1>2 DEF Tick
<1>3. ASSUME NEW m \in Messages, NEW w \in Workers, Send(m, w)
      PROVE  [Next]_busVars
  BY <1>3 DEF Send
<1>4. ASSUME NEW m \in Messages, Store(m) \/ CutOff(m) PROVE [Next]_busVars
  BY <1>4 DEF Store, CutOff
<1>5. ASSUME NEW m \in Messages, Announce(m) PROVE [Next]_busVars
  BY <1>5, AnnounceIsPublish, ChannelIsTopic DEF Next
<1>6. ASSUME NEW w \in Workers, CrashServer(w) PROVE [Next]_busVars
  BY <1>6 DEF CrashServer, Next
<1>7. ASSUME NEW s \in Streams, Reconnect(s) PROVE [Next]_busVars
  <2>1. {Agent, Channel} \in EndpointTopics
    BY <1>7 DEF Reconnect, Connect
  <2> QED BY <1>7, <2>1 DEF Reconnect, StreamNext, Next
<1>8. ASSUME NEW s \in Streams, Stream(s) PROVE [Next]_busVars
  BY <1>8 DEF Stream, StreamNext, Next
<1>9. ASSUME NEW c \in Clients, Poll(c) \/ CaughtUp(c) PROVE [Next]_busVars
  BY <1>9 DEF Poll, CaughtUp
<1> QED BY <1>1, <1>2, <1>3, <1>4, <1>5, <1>6, <1>7, <1>8, <1>9 DEF FeedNext

\* What it is for the inbox.
LEMMA FeedIsMail ==
  ASSUME FeedInv, [FeedNext]_vars PROVE MailInv' /\ MailStep
<1>1. ASSUME UNCHANGED mailVars PROVE MailInv' /\ MailStep
  BY <1>1, SameMail DEF FeedInv
<1>2. CASE UNCHANGED vars
  BY <1>1, <1>2 DEF vars
<1>3. CASE Tick
  BY <1>3, WriterMail DEF Tick, FeedInv
<1>4. ASSUME NEW m \in Messages, NEW w \in Workers, Send(m, w)
      PROVE  MailInv' /\ MailStep
  BY <1>4, WriterMail DEF Send, FeedInv
<1>5. ASSUME NEW m \in Messages, Store(m) PROVE MailInv' /\ MailStep
  BY <1>5, WriterMail DEF Store, FeedInv
<1>6. ASSUME NEW c \in Clients, Poll(c) PROVE MailInv' /\ MailStep
  BY <1>6, PollMail DEF Poll, FeedInv
<1>7. ASSUME NEW m \in Messages, Announce(m) \/ CutOff(m)
      PROVE  MailInv' /\ MailStep
  BY <1>1, <1>7 DEF Announce, CutOff
<1>8. ASSUME NEW w \in Workers, CrashServer(w) PROVE MailInv' /\ MailStep
  BY <1>1, <1>8 DEF CrashServer
<1>9. ASSUME NEW s \in Streams, Reconnect(s) \/ Stream(s)
      PROVE  MailInv' /\ MailStep
  BY <1>1, <1>9 DEF Reconnect, Stream
<1>10. ASSUME NEW c \in Clients, CaughtUp(c) PROVE MailInv' /\ MailStep
  BY <1>1, <1>10 DEF CaughtUp
<1> QED BY <1>2, <1>3, <1>4, <1>5, <1>6, <1>7, <1>8, <1>9, <1>10 DEF FeedNext

\* No step makes a stream new again.
LEMMA NeverNewAgain ==
  ASSUME TypeOK, [Next]_busVars, NEW s \in Streams, phase[s] # "new"
  PROVE  phase'[s] # "new"
<1>1. CASE UNCHANGED busVars
  BY <1>1 DEF busVars
<1>2. ASSUME NEW w \in Workers, NEW t \in Topics, Publish(w, t)
      PROVE  phase'[s] # "new"
  BY <1>2 DEF Publish
<1>3. ASSUME NEW q \in Streams, StreamNext(q) PROVE phase'[s] # "new"
  BY <1>3 DEF StreamNext, Connect, Wake, Heartbeat, Sent, Disconnect, Cleanup,
              TakeHead, TypeOK
<1>4. ASSUME NEW w \in Workers, Crash(w) PROVE phase'[s] # "new"
  BY <1>4 DEF Crash
<1> QED BY <1>1, <1>2, <1>3, <1>4 DEF Next

\* What a step that announces nothing leaves as it is.
Silent ==
  /\ UNCHANGED <<published, announced>>
  /\ \A s \in Streams : Cut(s)
  /\ \A s \in Streams : \/ since'[s] = since[s]
                        \/ phase[s] = "new" /\ since'[s] = published

LEMMA BusSame ==
  ASSUME TypeOK, UNCHANGED busVars, UNCHANGED announced PROVE Silent
<1>1. UNCHANGED <<published, since, received, frame, queue, gone>>
  BY DEF busVars
<1>2. \A s \in Streams : Trail(s)' = Trail(s)
  BY <1>1 DEF Trail
<1> QED BY <1>1, <1>2, SameIsCut DEF Silent

LEMMA FeedSilent ==
  ASSUME FeedInv, [FeedNext]_vars, ~\E m \in Messages : Announce(m)
  PROVE  Silent
<1>1. TypeOK /\ StreamInv
  BY DEF FeedInv, BusInv
<1>2. ASSUME QuietStep, UNCHANGED announced PROVE Silent
  BY <1>2 DEF QuietStep, Silent
<1>3. CASE UNCHANGED vars
  BY <1>1, <1>3, BusSame DEF vars, feedVars
<1>4. CASE Tick
  BY <1>1, <1>4, BusSame DEF Tick, feedVars
<1>5. ASSUME NEW m \in Messages, NEW w \in Workers, Send(m, w) PROVE Silent
  BY <1>1, <1>5, BusSame DEF Send
<1>6. ASSUME NEW m \in Messages, Store(m) \/ CutOff(m) PROVE Silent
  BY <1>1, <1>6, BusSame DEF Store, CutOff, feedVars
<1>7. ASSUME NEW w \in Workers, CrashServer(w) PROVE Silent
  BY <1>1, <1>2, <1>7, CrashQuiet DEF CrashServer
<1>8. ASSUME NEW s \in Streams, Reconnect(s) PROVE Silent
  <2>1. Connect(s, {Agent, Channel}) /\ UNCHANGED announced
    BY <1>8 DEF Reconnect, feedVars
  <2>2. \A q \in Streams : Trail(q)' = Trail(q)
    BY <2>1 DEF Connect, Trail
  <2>3. \A q \in Streams : \/ since'[q] = since[q]
                           \/ phase[q] = "new" /\ since'[q] = published
    BY <1>1, <2>1 DEF Connect, TypeOK
  <2>4. UNCHANGED published
    BY <2>1 DEF Connect
  <2> QED BY <1>1, <2>1, <2>2, <2>3, <2>4, SameIsCut DEF Silent
<1>9. ASSUME NEW s \in Streams, Stream(s) PROVE Silent
  BY <1>1, <1>2, <1>9, StreamQuiet DEF Stream, feedVars
<1>10. ASSUME NEW c \in Clients, Poll(c) \/ CaughtUp(c) PROVE Silent
  BY <1>1, <1>10, BusSame DEF Poll, CaughtUp, feedVars
<1> QED BY <1>3, <1>4, <1>5, <1>6, <1>7, <1>8, <1>9, <1>10 DEF FeedNext

\* The records of the handlers keep their types.
LEMMA FeedTypes ==
  ASSUME FeedInv, [FeedNext]_vars
  PROVE  /\ server' \in [Messages -> {<<>>} \cup {<<w>> : w \in Workers}]
         /\ cut' \subseteq Messages
<1> USE DEF FeedInv, AnnouncedInv
<1>1. CASE UNCHANGED vars
  BY <1>1 DEF vars, feedVars
<1>2. CASE Tick
  BY <1>2 DEF Tick, feedVars
<1>3. ASSUME NEW m \in Messages, NEW w \in Workers, Send(m, w)
      PROVE  /\ server' \in [Messages -> {<<>>} \cup {<<v>> : v \in Workers}]
             /\ cut' \subseteq Messages
  BY <1>3 DEF Send
<1>4. ASSUME NEW m \in Messages, Store(m) \/ Announce(m) \/ CutOff(m)
      PROVE  server' = server /\ cut' \subseteq Messages
  BY <1>4 DEF Store, Announce, CutOff, feedVars
<1>5. ASSUME NEW w \in Workers, CrashServer(w)
      PROVE  server' = server /\ cut' \subseteq Messages
  BY <1>5 DEF CrashServer
<1>6. ASSUME NEW s \in Streams, Reconnect(s) \/ Stream(s)
      PROVE  server' = server /\ cut' = cut
  BY <1>6 DEF Reconnect, Stream, feedVars
<1>7. ASSUME NEW c \in Clients, Poll(c) \/ CaughtUp(c)
      PROVE  server' = server /\ cut' = cut
  BY <1>7 DEF Poll, CaughtUp, feedVars
<1> QED BY <1>1, <1>2, <1>3, <1>4, <1>5, <1>6, <1>7 DEF FeedNext

-----------------------------------------------------------------------------
(* The invariant.                                                          *)

LEMMA SilentAnnounced ==
  ASSUME FeedInv, [FeedNext]_vars, Silent PROVE AnnouncedInv'
<1>1. rows \subseteq rows'
  BY FeedIsMail DEF MailStep
<1>2. UNCHANGED <<published, announced>>
  BY DEF Silent
<1> QED BY <1>1, <1>2, FeedTypes DEF FeedInv, AnnouncedInv

LEMMA AnnounceAnnounced ==
  ASSUME FeedInv, [FeedNext]_vars, NEW m \in Messages, Announce(m)
  PROVE  AnnouncedInv'
<1>1. PICK w \in Workers :
        /\ Publish(w, Channel)
        /\ announced' = [announced EXCEPT ![m] =
                           <<Notice(w, published[w][Channel] + 1)>>]
  BY AnnounceIsPublish
<1>2. UNCHANGED rows /\ m \in rows
  BY DEF Announce, Returned, mailVars
<1> DEFINE k == published[w][Channel] + 1
<1>3. /\ \A v \in Workers :
           published[v][Channel] \in Nat /\ published'[v][Channel] \in Nat
      /\ \A v \in Workers : published[v][Channel] <= published'[v][Channel]
      /\ published'[w][Channel] = k
  BY <1>1, ChannelIsTopic DEF Publish, FeedInv, BusInv, TypeOK
<1>4. /\ announced'[m] = <<Notice(w, k)>>
      /\ \A n \in Messages \ {m} : announced'[n] = announced[n]
      /\ announced' \in [Messages -> Seq(Event)]
  <2>1. Notice(w, k) \in Event
    BY <1>3, ChannelIsTopic, EventType DEF Notice
  <2> QED BY <1>1, <2>1 DEF FeedInv, AnnouncedInv
<1>5. k \in 1 .. published'[w][Channel]
  BY <1>3
<1>6. ASSUME NEW n \in Messages \ {m}, announced[n] # <<>>
      PROVE  /\ n \in rows
             /\ \E v \in Workers : \E i \in 1 .. published'[v][Channel] :
                  announced[n] = <<Notice(v, i)>>
             /\ announced[n] # <<Notice(w, k)>>
  <2>1. PICK v \in Workers : \E i \in 1 .. published[v][Channel] :
          announced[n] = <<Notice(v, i)>>
    BY <1>6 DEF FeedInv, AnnouncedInv
  <2>2. PICK i \in 1 .. published[v][Channel] : announced[n] = <<Notice(v, i)>>
    BY <2>1
  <2>3. i \in 1 .. published'[v][Channel]
    BY <1>3
  <2>4. ASSUME announced[n] = <<Notice(w, k)>> PROVE FALSE
    <3>1. Notice(v, i) = Notice(w, k)
      BY <2>2, <2>4, NoticeIsOne
    <3>2. v = w /\ i = k
      BY <3>1, NoticeParts
    <3> QED BY <1>3, <3>2
  <2>5. n \in rows
    BY <1>6 DEF FeedInv, AnnouncedInv
  <2> QED BY <2>2, <2>3, <2>4, <2>5
<1> HIDE DEF k
<1>7. \A n \in Messages : announced'[n] # <<>> =>
        /\ n \in rows
        /\ \E v \in Workers : \E i \in 1 .. published'[v][Channel] :
             announced'[n] = <<Notice(v, i)>>
  BY <1>2, <1>4, <1>5, <1>6
<1>8. ASSUME NEW x \in Messages, NEW y \in Messages, announced'[x] # <<>>,
             announced'[x] = announced'[y]
      PROVE  x = y
  <2>1. \A a, b \in Messages :
          announced[a] # <<>> /\ announced[a] = announced[b] => a = b
    BY DEF FeedInv, AnnouncedInv
  <2>2. CASE x = m
    BY <1>4, <1>6, <1>8, <2>2
  <2>3. CASE y = m
    BY <1>4, <1>6, <1>8, <2>3
  <2>4. CASE x # m /\ y # m
    BY <1>4, <1>8, <2>1, <2>4
  <2> QED BY <2>2, <2>3, <2>4
<1> QED BY <1>2, <1>4, <1>7, <1>8, FeedTypes DEF AnnouncedInv

LEMMA SilentHeard ==
  ASSUME FeedInv, [FeedNext]_vars, Silent, TypeOK' PROVE HeardInv'
<1>1. TypeOK
  BY DEF FeedInv, BusInv
<1>2. rows \subseteq rows'
  BY FeedIsMail DEF MailStep
<1>3. UNCHANGED <<published, announced>>
  BY DEF Silent
<1>4. ASSUME NEW s \in Streams, NEW i \in DOMAIN Trail(s)'
      PROVE  \E m \in rows' : announced'[m] = <<Trail(s)'[i]>>
  <2>1. i \in DOMAIN Trail(s) /\ Trail(s)'[i] = Trail(s)[i]
    BY <1>1, <1>4, TrailDomain, TrailDomainNext DEF Silent, Cut
  <2>2. PICK m \in rows : announced[m] = <<Trail(s)[i]>>
    BY <2>1 DEF FeedInv, HeardInv, HeardIsStored
  <2> QED BY <1>2, <1>3, <2>1, <2>2
<1>5. ASSUME NEW s \in Streams, NEW w \in Workers
      PROVE  since'[s][w][Channel] <= published'[w][Channel]
  <2>1. published[w][Channel] \in Nat
    BY <1>1, ChannelIsTopic DEF TypeOK
  <2> QED BY <1>3, <2>1 DEF Silent, FeedInv, HeardInv
<1> QED BY <1>4, <1>5 DEF HeardInv, HeardIsStored

LEMMA AnnounceHeard ==
  ASSUME FeedInv, [FeedNext]_vars, NEW m \in Messages, Announce(m)
  PROVE  HeardInv'
<1> DEFINE e(w) == Notice(w, published[w][Channel] + 1)
<1>1. PICK w \in Workers :
        /\ Publish(w, Channel)
        /\ announced' = [announced EXCEPT ![m] = <<e(w)>>]
  BY AnnounceIsPublish
<1>2. UNCHANGED rows /\ m \in rows /\ announced[m] = <<>>
  BY DEF Announce, Returned, Handled, mailVars
<1>3. TypeOK
  BY DEF FeedInv, BusInv
<1>4. e(w) = [at |-> w, topic |-> Channel, n |-> published[w][Channel] + 1]
  BY DEF Notice
<1>5. e(w) \in Event
  BY <1>3, <1>4, ChannelIsTopic, EventType DEF TypeOK
<1>6. /\ announced'[m] = <<e(w)>>
      /\ \A n \in Messages \ {m} : announced'[n] = announced[n]
  BY <1>1 DEF FeedInv, AnnouncedInv
<1>7. ASSUME NEW s \in Streams, NEW i \in DOMAIN Trail(s)
      PROVE  \E n \in rows : announced'[n] = <<Trail(s)[i]>>
  <2>1. PICK n \in rows : announced[n] = <<Trail(s)[i]>>
    BY <1>7 DEF FeedInv, HeardInv, HeardIsStored
  <2>2. <<Trail(s)[i]>> # <<>>
    <3>1. Len(<<Trail(s)[i]>>) = 1 /\ Len(<<>>) = 0
      OBVIOUS
    <3> QED BY <3>1
  <2>3. n # m /\ n \in Messages
    BY <1>2, <2>1, <2>2 DEF FeedInv, MailInv
  <2> QED BY <1>6, <2>1, <2>3
<1>8. ASSUME NEW s \in Streams, NEW i \in DOMAIN Trail(s)'
      PROVE  \E n \in rows' : announced'[n] = <<Trail(s)'[i]>>
  <2>1. Trail(s)' = Append(Trail(s), e(w)) \/ Trail(s)' = Trail(s)
    BY <1>1, <1>3, <1>4, ChannelIsTopic, PublishTrail
  <2> HIDE DEF e
  <2>2. CASE Trail(s)' = Trail(s)
    BY <1>2, <1>7, <1>8, <2>2
  <2>3. CASE Trail(s)' = Append(Trail(s), e(w))
    <3>1. Trail(s) \in Seq(Event)
      BY <1>3, TrailType
    <3>2. /\ Len(Append(Trail(s), e(w))) = Len(Trail(s)) + 1
          /\ \A j \in 1 .. Len(Trail(s)) : Append(Trail(s), e(w))[j] = Trail(s)[j]
          /\ Append(Trail(s), e(w))[Len(Trail(s)) + 1] = e(w)
          /\ Append(Trail(s), e(w)) \in Seq(Event)
      BY <1>5, <3>1, AppendProperties
    <3>3. /\ DOMAIN Trail(s) = 1 .. Len(Trail(s)) /\ Len(Trail(s)) \in Nat
          /\ DOMAIN Append(Trail(s), e(w)) = 1 .. Len(Append(Trail(s), e(w)))
      BY <3>1, <3>2, LenProperties
    <3>4. \/ i \in DOMAIN Trail(s) /\ Trail(s)'[i] = Trail(s)[i]
          \/ Trail(s)'[i] = e(w)
      BY <1>8, <2>3, <3>2, <3>3
    <3> QED BY <1>2, <1>6, <1>7, <3>4
  <2> QED BY <2>1, <2>2, <2>3
<1>9. ASSUME NEW s \in Streams, NEW v \in Workers
      PROVE  since'[s][v][Channel] <= published'[v][Channel]
  <2>1. /\ published[v][Channel] \in Nat /\ since[s][v][Channel] \in Nat
        /\ published[v][Channel] <= published'[v][Channel]
        /\ published'[v][Channel] \in Nat
        /\ since' = since
    BY <1>1, <1>3, ChannelIsTopic DEF Publish, TypeOK
  <2> QED BY <2>1 DEF FeedInv, HeardInv
<1> QED BY <1>8, <1>9 DEF HeardInv, HeardIsStored

\* The timestamp of an announced message that a client has passed stays passed.
LEMMA StaysPassed ==
  ASSUME FeedInv, [FeedNext]_vars, NEW c \in Clients, NEW m \in rows,
         created_at[m] <= mark[c]
  PROVE  created_at'[m] <= mark'[c]
<1>1. /\ created_at'[m] = created_at[m] /\ mark[c] <= mark'[c]
      /\ created_at[m] \in Nat /\ mark[c] \in Nat /\ mark'[c] \in Nat
  BY FeedIsMail DEF MailStep, MailInv, FeedInv
<1> QED BY <1>1

LEMMA AnnouncedIsRow ==
  ASSUME FeedInv, NEW m \in Messages, NEW w, NEW n, announced[m] = <<Notice(w, n)>>
  PROVE  m \in rows
BY NoticeIsOne DEF FeedInv, AnnouncedInv

\* What the record of a stream says stays true while the record stays.
LEMMA BackfillStays ==
  ASSUME FeedInv, [FeedNext]_vars, Silent, NEW s \in Backfilled
  PROVE  /\ phase'[s] # "new"
         /\ backfill[s][1] \subseteq rows'
         /\ \A m \in backfill[s][1] \cap Mentions :
              created_at'[m] <= mark'[ClientOf[s]]
         /\ \A m \in Messages : \A w \in Workers, n \in Nat :
              announced'[m] = <<Notice(w, n)>> /\ n <= since'[s][w][Channel]
                => m \in backfill[s][1]
<1>1. TypeOK /\ [Next]_busVars
  BY FeedIsBus DEF FeedInv, BusInv
<1>2. s \in Streams /\ ClientOf[s] \in Clients
  BY FeedAssumption DEF Backfilled
<1>3. /\ phase[s] # "new"
      /\ backfill[s][1] \subseteq rows
      /\ \A m \in backfill[s][1] \cap Mentions : created_at[m] <= mark[ClientOf[s]]
      /\ \A m \in Messages : \A w \in Workers, n \in Nat :
           announced[m] = <<Notice(w, n)>> /\ n <= since[s][w][Channel]
             => m \in backfill[s][1]
  BY DEF FeedInv, BackfillInv
<1>4. phase'[s] # "new"
  BY <1>1, <1>2, <1>3, NeverNewAgain
<1>5. rows \subseteq rows'
  BY FeedIsMail DEF MailStep
<1>6. since'[s] = since[s] /\ announced' = announced
  BY <1>2, <1>3 DEF Silent
<1>7. \A m \in backfill[s][1] \cap Mentions : created_at'[m] <= mark'[ClientOf[s]]
  BY <1>2, <1>3, StaysPassed
<1> QED BY <1>3, <1>4, <1>5, <1>6, <1>7

LEMMA SilentBackfill ==
  ASSUME FeedInv, [FeedNext]_vars, Silent PROVE BackfillInv'
<1>1. CASE backfill' = backfill
  <2>1. Backfilled' = Backfilled
    BY <1>1 DEF Backfilled
  <2>2. backfill \in [Streams -> {<<>>} \cup {<<R>> : R \in SUBSET Messages}]
    BY DEF FeedInv, BackfillInv
  <2> QED BY <1>1, <2>1, <2>2, BackfillStays DEF BackfillInv
<1>2. ASSUME NEW c \in Clients, CaughtUp(c) PROVE BackfillInv'
  <2>1. PICK s \in Streams \ Backfilled :
          Has(c, s) /\ backfill' = [backfill EXCEPT ![s] = <<rows>>]
    BY <1>2 DEF CaughtUp
  <2>2. phase[s] # "new" /\ ClientOf[s] = c
    BY <2>1 DEF Has, Open
  <2>3. UNCHANGED <<rows, created_at, mark, phase>> /\ Mail!Matching(c) = {}
    BY <1>2 DEF CaughtUp, mailVars, busVars
  <2>4. /\ backfill \in [Streams -> {<<>>} \cup {<<R>> : R \in SUBSET Messages}]
        /\ rows \subseteq Messages
    BY DEF FeedInv, BackfillInv, MailInv
  <2>5. /\ backfill' \in [Streams -> {<<>>} \cup {<<R>> : R \in SUBSET Messages}]
        /\ backfill'[s] = <<rows>> /\ backfill'[s][1] = rows
        /\ \A x \in Streams \ {s} : backfill'[x] = backfill[x]
    BY <2>1, <2>4
  <2>6. \A x \in Backfilled' : x = s \/ (x \in Backfilled /\ backfill'[x] = backfill[x])
    BY <2>5 DEF Backfilled
  <2>7. \A m \in rows \cap Mentions : created_at[m] <= mark[c]
    <3>1. \A m \in rows : created_at[m] \in Nat
      BY <2>4 DEF FeedInv, MailInv
    <3>2. mark[c] \in Nat
      BY DEF FeedInv, MailInv
    <3> QED BY <2>3, <3>1, <3>2 DEF Mail!Matching
  <2>8. \A m \in Messages : announced'[m] # <<>> => m \in rows
    BY DEF Silent, FeedInv, AnnouncedInv
  <2>9. \A w, n : <<Notice(w, n)>> # <<>>
    BY NoticeIsOne
  <2>10. /\ phase'[s] # "new"
         /\ backfill'[s][1] \subseteq rows'
         /\ \A m \in backfill'[s][1] \cap Mentions :
              created_at'[m] <= mark'[ClientOf[s]]
         /\ \A m \in Messages : \A w \in Workers, n \in Nat :
              announced'[m] = <<Notice(w, n)>> /\ n <= since'[s][w][Channel]
                => m \in backfill'[s][1]
    BY <2>2, <2>3, <2>5, <2>7, <2>8, <2>9
  <2>11. ASSUME NEW x \in Backfilled'
         PROVE  /\ phase'[x] # "new"
                /\ backfill'[x][1] \subseteq rows'
                /\ \A m \in backfill'[x][1] \cap Mentions :
                     created_at'[m] <= mark'[ClientOf[x]]
                /\ \A m \in Messages : \A w \in Workers, n \in Nat :
                     announced'[m] = <<Notice(w, n)>> /\ n <= since'[x][w][Channel]
                       => m \in backfill'[x][1]
    <3>1. CASE x = s
      BY <2>10, <3>1
    <3>2. CASE x # s
      <4>1. x \in Backfilled /\ backfill'[x] = backfill[x]
        BY <2>6, <3>2
      <4> QED BY <4>1, BackfillStays
    <3> QED BY <3>1, <3>2
  <2> QED BY <2>5, <2>11 DEF BackfillInv
<1>3. backfill' = backfill \/ \E c \in Clients : CaughtUp(c)
  BY DEF FeedNext, vars, feedVars, Tick, Send, Store, Announce, CutOff,
         CrashServer, Reconnect, Stream, Poll
<1> QED BY <1>1, <1>2, <1>3

\* A message announced now was not announced before a stream that is there.
LEMMA AnnounceBackfill ==
  ASSUME FeedInv, [FeedNext]_vars, NEW m \in Messages, Announce(m)
  PROVE  BackfillInv'
<1>1. PICK w \in Workers :
        /\ Publish(w, Channel)
        /\ announced' = [announced EXCEPT ![m] =
                           <<Notice(w, published[w][Channel] + 1)>>]
  BY AnnounceIsPublish
<1>2. UNCHANGED <<backfill, phase, since, rows, created_at, mark>>
  BY <1>1 DEF Announce, Publish, mailVars
<1>3. /\ announced'[m] = <<Notice(w, published[w][Channel] + 1)>>
      /\ \A n \in Messages \ {m} : announced'[n] = announced[n]
  BY <1>1 DEF FeedInv, AnnouncedInv
<1>4. ASSUME NEW s \in Backfilled, NEW x \in Messages, NEW v \in Workers,
             NEW n \in Nat, announced'[x] = <<Notice(v, n)>>,
             n <= since[s][v][Channel]
      PROVE  x \in backfill[s][1]
  <2>1. CASE x # m
    BY <1>3, <1>4, <2>1 DEF FeedInv, BackfillInv
  <2>2. CASE x = m
    <3>1. Notice(v, n) = Notice(w, published[w][Channel] + 1)
      BY <1>3, <1>4, <2>2, NoticeIsOne
    <3>2. v = w /\ n = published[w][Channel] + 1
      BY <3>1, NoticeParts
    <3>3. s \in Streams
      BY DEF Backfilled
    <3>4. /\ since[s][w][Channel] <= published[w][Channel]
          /\ since[s][w][Channel] \in Nat /\ published[w][Channel] \in Nat
      BY <3>3, ChannelIsTopic DEF FeedInv, HeardInv, BusInv, TypeOK
    <3> QED BY <1>4, <3>2, <3>4
  <2> QED BY <2>1, <2>2
<1>5. Backfilled' = Backfilled
  BY <1>2 DEF Backfilled
<1> QED BY <1>2, <1>4, <1>5 DEF FeedInv, BackfillInv

LEMMA NextFeed == FeedInv /\ [FeedNext]_vars => FeedInv'
<1> SUFFICES ASSUME FeedInv, [FeedNext]_vars PROVE FeedInv'
  OBVIOUS
<1>1. BusInv'
  BY FeedIsBus, NextBus DEF FeedInv
<1>2. TypeOK' /\ MailInv'
  BY <1>1, FeedIsMail DEF BusInv
<1>3. CASE \E m \in Messages : Announce(m)
  BY <1>1, <1>2, <1>3, AnnounceAnnounced, AnnounceHeard, AnnounceBackfill
     DEF FeedInv
<1>4. CASE ~\E m \in Messages : Announce(m)
  BY <1>1, <1>2, <1>4, FeedSilent, SilentAnnounced, SilentHeard, SilentBackfill
     DEF FeedInv
<1> QED BY <1>3, <1>4

\* The invariant holds of every behaviour of the composition.
THEOREM FeedInvariance == FeedSpec => []FeedInv
BY InitFeed, NextFeed, PTL DEF FeedSpec

-----------------------------------------------------------------------------
(* The results.                                                            *)

\* A generator that ended left no queue on the bus, whoever drives the bus.
THEOREM FeedNoZombieAlways == FeedSpec => []NoZombieSubscriber
<1>1. FeedInv => NoZombieSubscriber
  BY DEF FeedInv, BusInv
<1> QED BY FeedInvariance, <1>1, PTL

\* A client hears of the messages in the order of their announcement, without
\* a hole, and misses none while it is subscribed.
THEOREM FeedDeliveryAlways == FeedSpec => [](InOrder /\ NoGap /\ NothingMissed)
<1>1. FeedInv => InOrder /\ NoGap /\ NothingMissed
  BY BusInvImplies DEF FeedInv
<1> QED BY FeedInvariance, <1>1, PTL

\* Driven by the writers and the reconnecting clients, the bus still implements
\* the subscription: a client reads the next event of a topic, every time.
THEOREM FeedSubscription == FeedSpec => ImplementsSubscription
<1>1. FeedInit => Sub!Init
  BY InitSubscription DEF FeedInit
<1>2. FeedInv /\ [FeedNext]_vars => [Sub!Next]_(Sub!subVars)
  BY FeedIsBus, NextSubscription DEF FeedInv
<1> QED BY FeedInvariance, <1>1, <1>2, PTL
        DEF FeedSpec, ImplementsSubscription, Sub!Spec

\* Whatever a client hears of is stored.
THEOREM HeardIsStoredAlways == FeedSpec => []HeardIsStored
<1>1. FeedInv => HeardIsStored
  BY DEF FeedInv, HeardInv
<1> QED BY FeedInvariance, <1>1, PTL

\* The poll at connect gives a client every mention stored when it ends, however
\* many workers, streams and messages there are, except what a poll by timestamp
\* cannot find.
THEOREM NothingLostAlways == FeedSpec => []NothingLost
<1>1. FeedInv => NothingLost
  <2> SUFFICES ASSUME FeedInv, NEW s \in Backfilled,
                      NEW m \in backfill[s][1] \cap Mentions
               PROVE  m \in Mail!Given(ClientOf[s]) \/ Behind(ClientOf[s], m)
    BY DEF NothingLost
  <2>1. m \in rows \cap Mentions /\ created_at[m] <= mark[ClientOf[s]]
    BY DEF FeedInv, BackfillInv
  <2>2. ClientOf[s] \in Clients
    BY FeedAssumption DEF Backfilled
  <2> QED BY <2>1, <2>2 DEF FeedInv, MailInv, PassedInv
<1> QED BY FeedInvariance, <1>1, PTL

\* Whatever the order of subscription, commits, publications and polls, no
\* mention that its worker announces falls between the inbox and the stream.
THEOREM GivenOrStreamedAlways == FeedSpec => []GivenOrStreamed
<1>1. FeedInv /\ NothingLost /\ NothingMissed => GivenOrStreamed
  <2> SUFFICES ASSUME FeedInv, NothingLost, NothingMissed,
                      NEW s \in (Backfilled \cap subscribers[Channel]) \ gone,
                      NEW m \in rows \cap Mentions,
                      \/ m \in backfill[s][1]
                      \/ announced[m] # <<>> /\ announced[m][1].at = Home[s]
               PROVE  \/ m \in Mail!Given(ClientOf[s]) \/ Behind(ClientOf[s], m)
                      \/ \E j \in DOMAIN Trail(s) : announced[m] = <<Trail(s)[j]>>
    BY DEF GivenOrStreamed
  <2>1. CASE m \in backfill[s][1]
    BY <2>1 DEF NothingLost
  <2>2. CASE m \notin backfill[s][1]
    <3>1. m \in Messages /\ announced[m] # <<>> /\ announced[m][1].at = Home[s]
      BY <2>2, FeedAssumption
    <3>2. PICK w \in Workers : \E n \in 1 .. published[w][Channel] :
            announced[m] = <<Notice(w, n)>>
      BY <3>1 DEF FeedInv, AnnouncedInv
    <3>3. PICK n \in 1 .. published[w][Channel] : announced[m] = <<Notice(w, n)>>
      BY <3>2
    <3>4. /\ announced[m] = <<[at |-> w, topic |-> Channel, n |-> n]>>
          /\ w = Home[s] /\ n \in Nat /\ n <= published[w][Channel]
      BY <3>1, <3>3 DEF Notice
    <3>5. Channel \in Topics /\ s \in Streams /\ since[s][w][Channel] \in Nat
      BY FeedAssumption DEF Topics, FeedInv, BusInv, TypeOK
    <3>6. n > since[s][w][Channel]
      BY <2>2, <3>1, <3>3, <3>4, <3>5 DEF FeedInv, BackfillInv
    <3>7. HasAll(s, w, Channel)
      BY <3>4, <3>5 DEF NothingMissed
    <3> QED BY <3>4, <3>5, <3>6, <3>7 DEF HasAll
  <2> QED BY <2>1, <2>2
<1> QED BY FeedInvariance, FeedDeliveryAlways, NothingLostAlways, <1>1, PTL

\* Every variable has its type; a message is announced once.
THEOREM FeedTypeCorrect == FeedSpec => []FeedTypeOK
<1>1. FeedInv => FeedTypeOK
  <2> SUFFICES ASSUME FeedInv PROVE FeedTypeOK
    OBVIOUS
  <2>1. TypeOK
    BY DEF FeedInv, BusInv
  <2>2. Mail!InboxTypeOK
    <3>1. DOMAIN <<>> = {} /\ \A S : <<>> \in [{} -> S]
      OBVIOUS
    <3>2. Mail!TypeOK
      BY <3>1 DEF FeedInv, MailInv, Mail!TypeOK
    <3> QED BY <3>2 DEF FeedInv, MailInv, Mail!InboxTypeOK
  <2>3. ASSUME NEW m \in Messages, announced[m] # <<>>
        PROVE  Len(announced[m]) = 1
    <3>1. PICK w \in Workers : \E n \in 1 .. published[w][Channel] :
            announced[m] = <<Notice(w, n)>>
      BY <2>3 DEF FeedInv, AnnouncedInv
    <3> QED BY <3>1
  <2>4. ASSUME NEW s \in Streams
        PROVE  backfill[s] = <<>> \/ \E R \in SUBSET rows : backfill[s] = <<R>>
    <3>1. PICK R \in SUBSET Messages : backfill[s] = <<>> \/ backfill[s] = <<R>>
      BY DEF FeedInv, BackfillInv
    <3>2. CASE backfill[s] # <<>>
      <4>1. backfill[s] = <<R>> /\ backfill[s][1] = R
        BY <3>1, <3>2
      <4>2. R \subseteq rows
        BY <3>2, <4>1 DEF Backfilled, FeedInv, BackfillInv
      <4> QED BY <4>1, <4>2
    <3> QED BY <3>2
  <2> QED BY <2>1, <2>2, <2>3, <2>4 DEF FeedTypeOK, FeedInv, AnnouncedInv
<1> QED BY FeedInvariance, <1>1, PTL

=============================================================================
