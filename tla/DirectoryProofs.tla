-------------------------- MODULE DirectoryProofs ---------------------------
(***************************************************************************)
(* Proofs about Directory, for any sets of requests and people: type       *)
(* correctness, that requests about the same pair and workspace meet in    *)
(* one channel, that only its maker fills a DM channel, and that one is    *)
(* incomplete only while its maker is at work, or if it was cut off.       *)
(***************************************************************************)
EXTENDS Directory, TLAPS

Adding == {"add_actor", "add_peer"}

Unmade == {"idle", "insert_workspace", "select_channel", "insert_channel"}

\* The row that handler r inserts for a side of its own channel.
Row(r, s) == [channel |-> r, by |-> r, side |-> s,
              who |-> IF s = "add_actor" THEN Actor[r] ELSE Peer[r]]

\* The channel of r is the one of its workspace and name.
Owns(r) == \E c \in channels : c.id = chan[r] /\ c.ws = ws[r] /\ c.name = Name(r)

\* What handler r has, by the statement it waits for.
Progress(r) ==
  /\ step[r] = "insert_workspace" => r \notin Joins
  /\ step[r] = "select_channel" => r \in Dms /\ ws[r] \in workspaces
  /\ step[r] = "insert_channel" => r \in Creates \cup Dms /\ ws[r] \in workspaces
  /\ step[r] \in Adding => r \in Dms /\ chan[r] = r
  /\ step[r] \in Adding \cup {"done"} /\ r \in Dms => Owns(r)

\* How far the maker of a DM channel has come with its members.
Filled(r) ==
  \/ step[r] \in {"add_actor", "failed"}
  \/ step[r] = "add_peer" /\ Row(r, "add_actor") \in announced
  \/ Row(r, "add_actor") \in announced /\ Row(r, "add_peer") \in announced

\* The channel named by a request was made by it.
Made == \A c \in channels : /\ step[c.id] \notin Unmade
                            /\ c.id \in Dms => Filled(c.id)

\* The unique constraint.
Unique == \A c, d \in channels : c.ws = d.ws /\ c.name = d.name => c.id = d.id

\* A handler inserts members into its own channel only.
OwnRows == \A m \in members : m.by \in Dms => \E s \in Adding : m = Row(m.by, s)

IInv ==
  /\ TypeOK
  /\ \A r \in Requests : Progress(r)
  /\ Made
  /\ Unique
  /\ OwnRows

-----------------------------------------------------------------------------
(* What a step leaves alone.                                               *)

LEMMA Kinds ==
  /\ \A r \in Joins : r \notin Dms /\ r \notin Creates /\ r \notin Visits
  /\ \A r \in Dms : r \notin Creates /\ r \notin Visits
  /\ \A r \in Dms : Actor[r] \in People /\ Peer[r] \in People
  /\ \A r \in Dms : r \in Requests
BY DirectoryAssumption DEF Requests

\* The other handlers see only more workspaces and channels.
LEMMA OthersProgress ==
  ASSUME IInv, NEW r \in Requests,
         workspaces \subseteq workspaces', channels \subseteq channels',
         \A q \in Requests \ {r} :
           step'[q] = step[q] /\ ws'[q] = ws[q] /\ chan'[q] = chan[q]
  PROVE  \A q \in Requests \ {r} : Progress(q)'
<1> SUFFICES ASSUME NEW q \in Requests \ {r} PROVE Progress(q)'
  OBVIOUS
<1>1. Progress(q) /\ step'[q] = step[q] /\ ws'[q] = ws[q] /\ chan'[q] = chan[q]
  BY DEF IInv
<1>2. Owns(q) => Owns(q)'
  BY <1>1 DEF Owns, Name
<1> QED BY <1>1, <1>2 DEF Progress

\* A channel stays made while members are only added, and by its maker.
LEMMA OthersMade ==
  ASSUME IInv, NEW r \in Requests, announced \subseteq announced',
         \A q \in Requests \ {r} : step'[q] = step[q]
  PROVE  \A c \in channels : c.id # r =>
           step'[c.id] \notin Unmade /\ (c.id \in Dms => Filled(c.id)')
<1> SUFFICES ASSUME NEW c \in channels, c.id # r
             PROVE  step'[c.id] \notin Unmade /\ (c.id \in Dms => Filled(c.id)')
  OBVIOUS
<1>1. c.id \in Requests \ {r}
  BY DEF IInv, TypeOK
<1>2. step'[c.id] = step[c.id] /\ step[c.id] \notin Unmade
  BY <1>1 DEF IInv, Made
<1>3. ASSUME c.id \in Dms PROVE Filled(c.id)'
  <2>1. Filled(c.id)
    BY <1>3 DEF IInv, Made
  <2>2. /\ Row(c.id, "add_actor")' = Row(c.id, "add_actor")
        /\ Row(c.id, "add_peer")' = Row(c.id, "add_peer")
    BY DEF Row
  <2> QED BY <1>2, <2>1, <2>2 DEF Filled
<1> QED BY <1>2, <1>3

\* A step that takes a handler from before the INSERT of its channel to
\* another statement, and inserts no channel and no member.
LEMMA QuietStep ==
  ASSUME IInv, NEW r \in Requests, TypeOK', Progress(r)',
         step[r] \in Unmade, workspaces \subseteq workspaces',
         UNCHANGED <<channels, members, announced>>,
         \A q \in Requests \ {r} :
           step'[q] = step[q] /\ ws'[q] = ws[q] /\ chan'[q] = chan[q]
  PROVE  IInv'
<1>1. \A q \in Requests : Progress(q)'
  BY OthersProgress
<1>2. Made'
  <2>1. \A c \in channels : c.id # r
    BY DEF IInv, Made
  <2> QED BY <2>1, OthersMade DEF Made
<1>3. Unique' /\ OwnRows'
  BY DEF IInv, Unique, OwnRows, Row
<1> QED BY <1>1, <1>2, <1>3 DEF IInv

-----------------------------------------------------------------------------
(* The steps.                                                              *)

LEMMA InitInv == Init => IInv
BY DEF Init, IInv, TypeOK, Progress, Made, Unique, OwnRows, Steps, Adding

LEMMA AfterWorkspaceProgress ==
  ASSUME NEW r \in Requests, r \notin Joins, IInv,
         step' = [step EXCEPT ![r] = AfterWorkspace(r)],
         ws'[r] \in workspaces'
  PROVE  Progress(r)' /\ step'[r] \in Steps
<1>1. step'[r] = AfterWorkspace(r)
  BY DEF IInv, TypeOK
<1>2. CASE r \in Visits
  BY <1>1, <1>2, Kinds DEF AfterWorkspace, Progress, Adding, Steps, Answered
<1>3. CASE r \in Creates
  BY <1>1, <1>3, Kinds, DirectoryAssumption
  DEF AfterWorkspace, Progress, Adding, Steps, Answered
<1>4. CASE r \in Dms
  BY <1>1, <1>4, Kinds DEF AfterWorkspace, Progress, Adding, Steps, Answered
<1> QED BY <1>2, <1>3, <1>4 DEF Requests

LEMMA SelectWorkspaceInv ==
  ASSUME IInv, NEW r \in Requests, SelectWorkspace(r) PROVE IInv'
<1>1. /\ r \notin Joins /\ step[r] = "idle"
      /\ UNCHANGED <<workspaces, channels, members, announced, chan>>
  BY DEF SelectWorkspace
<1>2. CASE \E w \in workspaces :
             /\ ws' = [ws EXCEPT ![r] = w]
             /\ step' = [step EXCEPT ![r] = AfterWorkspace(r)]
  <2>1. ws'[r] \in workspaces'
    BY <1>1, <1>2 DEF IInv, TypeOK
  <2>2. Progress(r)' /\ step'[r] \in Steps
    BY <1>1, <1>2, <2>1, AfterWorkspaceProgress
  <2>3. TypeOK'
    BY <1>1, <1>2, <2>2 DEF IInv, TypeOK
  <2> QED BY <1>1, <1>2, <2>2, <2>3, QuietStep DEF IInv, TypeOK, Unmade
<1>3. CASE /\ step' = [step EXCEPT ![r] = "insert_workspace"]
           /\ UNCHANGED ws
  <2>1. TypeOK'
    BY <1>1, <1>3 DEF IInv, TypeOK, Steps
  <2>2. Progress(r)'
    BY <1>1, <1>3 DEF IInv, TypeOK, Progress, Adding
  <2> QED BY <1>1, <1>3, <2>1, <2>2, QuietStep DEF IInv, TypeOK, Unmade
<1> QED BY <1>2, <1>3 DEF SelectWorkspace

LEMMA InsertWorkspaceInv ==
  ASSUME IInv, NEW r \in Requests, InsertWorkspace(r) PROVE IInv'
<1>1. /\ step[r] = "insert_workspace"
      /\ workspaces' = workspaces \cup {r}
      /\ ws' = [ws EXCEPT ![r] = r]
      /\ step' = [step EXCEPT ![r] = AfterWorkspace(r)]
      /\ UNCHANGED <<channels, members, announced, chan>>
  BY DEF InsertWorkspace
<1>2. r \notin Joins
  BY <1>1 DEF IInv, Progress
<1>3. ws'[r] \in workspaces'
  BY <1>1 DEF IInv, TypeOK
<1>4. Progress(r)' /\ step'[r] \in Steps
  BY <1>1, <1>2, <1>3, AfterWorkspaceProgress
<1>5. TypeOK'
  BY <1>1, <1>4 DEF IInv, TypeOK
<1> QED BY <1>1, <1>4, <1>5, QuietStep DEF IInv, TypeOK, Unmade

LEMMA SelectChannelInv ==
  ASSUME IInv, NEW r \in Requests, SelectChannel(r) PROVE IInv'
<1>1. /\ step[r] = "select_channel"
      /\ UNCHANGED <<workspaces, channels, members, announced, ws>>
      /\ r \in Dms /\ ws[r] \in workspaces
  BY DEF SelectChannel, IInv, Progress
<1>2. ASSUME NEW c \in Named(ws[r], Name(r)),
             chan' = [chan EXCEPT ![r] = c.id],
             step' = [step EXCEPT ![r] = "done"]
      PROVE  IInv'
  <2>1. c \in channels /\ c.ws = ws[r] /\ c.name = Name(r)
    BY <1>2 DEF Named
  <2>2. TypeOK'
    BY <1>1, <1>2, <2>1 DEF IInv, TypeOK, Steps, Answered
  <2>3. Owns(r)'
    BY <1>1, <1>2, <2>1 DEF IInv, TypeOK, Owns, Name
  <2>4. Progress(r)'
    BY <1>1, <1>2, <2>3 DEF IInv, TypeOK, Progress, Adding
  <2> QED BY <1>1, <1>2, <2>2, <2>4, QuietStep DEF IInv, TypeOK, Unmade
<1>3. CASE /\ step' = [step EXCEPT ![r] = "insert_channel"]
           /\ UNCHANGED chan
  <2>1. TypeOK'
    BY <1>1, <1>3 DEF IInv, TypeOK, Steps
  <2>2. Progress(r)'
    BY <1>1, <1>3 DEF IInv, TypeOK, Progress, Adding
  <2> QED BY <1>1, <1>3, <2>1, <2>2, QuietStep DEF IInv, TypeOK, Unmade
<1> QED BY <1>2, <1>3 DEF SelectChannel, AfterFound

\* The INSERT of a channel, answered or in doubt.
LEMMA ChannelInserted ==
  ASSUME IInv, NEW r \in Requests, step[r] = "insert_channel", ~Taken(r),
         channels' = channels \cup {[id |-> r, ws |-> ws[r], name |-> Name(r)]},
         UNCHANGED <<workspaces, members, announced, ws>>,
         chan' \in {chan, [chan EXCEPT ![r] = r]},
         NEW s \in {"add_actor", "done", "failed"},
         step' = [step EXCEPT ![r] = s],
         s # "failed" => chan'[r] = r /\ (s = "add_actor" <=> r \in Dms)
  PROVE  IInv'
<1> DEFINE new == [id |-> r, ws |-> ws[r], name |-> Name(r)]
<1>1. r \in Creates \cup Dms /\ ws[r] \in workspaces
  BY DEF IInv, Progress
<1>2. TypeOK'
  <2>1. \A c \in channels' : c.id \in Requests /\ c.ws \in workspaces'
    BY <1>1 DEF IInv, TypeOK
  <2>2. /\ \A x \in {c.id : c \in channels} : x \in {c.id : c \in channels'}
        /\ r \in {c.id : c \in channels'}
    <3>1. channels \subseteq channels'
      OBVIOUS
    <3>2. new \in channels' /\ new.id = r
      OBVIOUS
    <3> HIDE DEF new
    <3> QED BY <3>1, <3>2
  <2>3. chan' \in [Requests -> {c.id : c \in channels'} \cup {Nowhere}]
    <3>1. chan \in [Requests -> {c.id : c \in channels} \cup {Nowhere}]
      BY DEF IInv, TypeOK
    <3>2. chan \in [Requests -> {c.id : c \in channels'} \cup {Nowhere}]
      BY <2>2, <3>1
    <3> HIDE DEF new
    <3> QED BY <2>2, <3>2
  <2>4. \A m \in members' : /\ m.by \in Requests /\ m.who \in People
                            /\ \E c \in channels' : c.id = m.channel
    BY DEF IInv, TypeOK
  <2>5. step' \in [Requests -> Steps]
    BY DEF IInv, TypeOK, Steps, Answered
  <2> QED BY <2>1, <2>3, <2>4, <2>5 DEF IInv, TypeOK
<1>3. step'[r] = s
  BY DEF IInv, TypeOK
<1>4. s # "failed" => Owns(r)'
  <2>1. new.id = r /\ new.ws = ws[r] /\ new.name = Name(r) /\ new \in channels'
    OBVIOUS
  <2> QED BY <2>1 DEF Owns, Name
<1>5. Progress(r)'
  BY <1>3, <1>4 DEF Progress, Adding
<1>6. \A q \in Requests : Progress(q)'
  <2>1. \A q \in Requests \ {r} :
          step'[q] = step[q] /\ ws'[q] = ws[q] /\ chan'[q] = chan[q]
    BY DEF IInv, TypeOK
  <2> QED BY <1>5, <2>1, OthersProgress
<1>7. Made'
  <2>1. \A c \in channels : c.id # r
    BY DEF IInv, Made, Unmade
  <2>2. \A q \in Requests \ {r} : step'[q] = step[q]
    BY DEF IInv, TypeOK
  <2>3. \A c \in channels : step'[c.id] \notin Unmade
                            /\ (c.id \in Dms => Filled(c.id)')
    BY <2>1, <2>2, OthersMade
  <2>4. step'[r] \notin Unmade
    BY <1>3 DEF Unmade
  <2>5. r \in Dms => Filled(r)'
    BY <1>3 DEF Filled
  <2> QED BY <2>3, <2>4, <2>5 DEF Made
<1>8. Unique'
  <2>1. \A c \in channels : ~(c.ws = ws[r] /\ c.name = Name(r))
    BY DEF Taken, Named
  <2> QED BY <2>1 DEF IInv, Unique
<1>9. OwnRows'
  BY DEF IInv, OwnRows, Row
<1> QED BY <1>2, <1>6, <1>7, <1>8, <1>9 DEF IInv

LEMMA InsertChannelInv ==
  ASSUME IInv, NEW r \in Requests, InsertChannel(r) PROVE IInv'
<1>1. step[r] = "insert_channel" /\ UNCHANGED <<workspaces, members, announced, ws>>
  BY DEF InsertChannel
<1>2. CASE /\ step' = [step EXCEPT ![r] = "conflict"]
           /\ UNCHANGED <<channels, chan>>
  <2>1. TypeOK'
    BY <1>1, <1>2 DEF IInv, TypeOK, Steps, Answered
  <2>2. Progress(r)'
    BY <1>1, <1>2 DEF IInv, TypeOK, Progress, Adding
  <2> QED BY <1>1, <1>2, <2>1, <2>2, QuietStep DEF IInv, TypeOK, Unmade
<1>3. CASE /\ ~Taken(r)
           /\ channels' = channels \cup {[id |-> r, ws |-> ws[r], name |-> Name(r)]}
           /\ chan' = [chan EXCEPT ![r] = r]
           /\ step' = [step EXCEPT ![r] = IF r \in Dms THEN "add_actor" ELSE "done"]
  <2>1. chan'[r] = r
    BY <1>3 DEF IInv, TypeOK
  <2> DEFINE s == IF r \in Dms THEN "add_actor" ELSE "done"
  <2>2. /\ s \in {"add_actor", "done", "failed"} /\ s # "failed"
        /\ s = "add_actor" <=> r \in Dms
        /\ step' = [step EXCEPT ![r] = s]
    BY <1>3
  <2> HIDE DEF s
  <2> QED BY <1>1, <1>3, <2>1, <2>2, ChannelInserted
<1> QED BY <1>2, <1>3 DEF InsertChannel

\* The INSERT of a member, announced or in doubt.
LEMMA MemberInserted ==
  ASSUME IInv, NEW r \in Requests, step[r] \in Adding,
         members' = members \cup {MemberRow(r)},
         UNCHANGED <<workspaces, channels, ws, chan>>,
         NEW s, step' = [step EXCEPT ![r] = s],
         \/ s = "failed" /\ announced' = announced
         \/ s = AfterMember(r) /\ announced' = announced \cup {MemberRow(r)}
  PROVE  IInv'
<1>1. r \in Dms /\ chan[r] = r /\ Owns(r) /\ step'[r] = s
  BY DEF IInv, Progress, TypeOK
<1>2. MemberRow(r) = Row(r, step[r])
  BY <1>1 DEF MemberRow, Row
<1>3. s \in {"add_peer", "done", "failed"}
  BY DEF AfterMember
<1>4. TypeOK'
  <2>1. /\ MemberRow(r).by = r /\ MemberRow(r).who \in People
        /\ MemberRow(r).channel = r
    BY <1>1, <1>2, Kinds DEF Row
  <2>2. \E c \in channels : c.id = r
    BY <1>1 DEF Owns
  <2>3. \A m \in members' : /\ m.by \in Requests /\ m.who \in People
                            /\ \E c \in channels' : c.id = m.channel
    BY <2>1, <2>2 DEF IInv, TypeOK
  <2>4. announced' \subseteq members'
    BY DEF IInv, TypeOK
  <2>5. step' \in [Requests -> Steps]
    BY <1>3 DEF IInv, TypeOK, Steps, Answered
  <2> QED BY <2>3, <2>4, <2>5 DEF IInv, TypeOK
<1>5. Progress(r)'
  <2>1. Owns(r)'
    BY <1>1 DEF Owns, Name
  <2> QED BY <1>1, <1>3, <2>1 DEF Progress, Adding
<1>6. \A q \in Requests \ {r} :
        step'[q] = step[q] /\ ws'[q] = ws[q] /\ chan'[q] = chan[q]
  BY DEF IInv, TypeOK
<1>7. \A q \in Requests : Progress(q)'
  BY <1>5, <1>6, OthersProgress
<1>8. Made'
  <2>1. \A c \in channels : c.id # r => step'[c.id] \notin Unmade
                                        /\ (c.id \in Dms => Filled(c.id)')
    BY <1>6, OthersMade
  <2>2. step'[r] \notin Unmade
    BY <1>1, <1>3 DEF Unmade
  <2>3. ASSUME NEW c \in channels, c.id = r PROVE Filled(r)'
    <3>1. Filled(r)
      BY <1>1, <2>3 DEF IInv, Made
    <3>2. CASE s = "failed"
      BY <1>1, <3>2 DEF Filled
    <3>3. CASE s = AfterMember(r) /\ announced' = announced \cup {Row(r, step[r])}
      <4>1. CASE step[r] = "add_actor"
        BY <1>1, <3>3, <4>1 DEF Filled, AfterMember, Row
      <4>2. CASE step[r] = "add_peer"
        BY <1>1, <3>1, <3>3, <4>2 DEF Filled, AfterMember, Row
      <4> QED BY <4>1, <4>2 DEF Adding
    <3> QED BY <1>2, <3>2, <3>3
  <2> QED BY <2>1, <2>2, <2>3 DEF Made
<1>9. Unique'
  BY DEF IInv, Unique
<1>10. OwnRows'
  <2>1. MemberRow(r).by = r /\ step[r] \in Adding
    BY DEF MemberRow
  <2>2. \A m \in members' : m.by \in Dms => \E t \in Adding : m = Row(m.by, t)
    BY <1>2, <2>1 DEF IInv, OwnRows
  <2> QED BY <2>2 DEF OwnRows, Row
<1> QED BY <1>4, <1>7, <1>8, <1>9, <1>10 DEF IInv

LEMMA JoinInv ==
  ASSUME IInv, NEW r \in Requests, Join(r) PROVE IInv'
<1>1. PICK c \in channels, p \in People :
        LET row == [channel |-> c.id, by |-> r, side |-> "join", who |-> p]
        IN  /\ members' = members \cup {row}
            /\ announced' = announced \cup {row}
            /\ chan' = [chan EXCEPT ![r] = c.id]
  BY DEF Join
<1> DEFINE row == [channel |-> c.id, by |-> r, side |-> "join", who |-> p]
<1>2. /\ r \in Joins /\ r \notin Dms /\ step[r] = "idle"
      /\ step' = [step EXCEPT ![r] = "done"]
      /\ UNCHANGED <<workspaces, channels, ws>>
  BY Kinds DEF Join
<1>3. TypeOK'
  <2>1. \A m \in members' : /\ m.by \in Requests /\ m.who \in People
                            /\ \E d \in channels' : d.id = m.channel
    BY <1>1, <1>2 DEF IInv, TypeOK
  <2>2. announced' \subseteq members'
    BY <1>1 DEF IInv, TypeOK
  <2>3. step' \in [Requests -> Steps]
    BY <1>2 DEF IInv, TypeOK, Steps, Answered
  <2>4. chan' \in [Requests -> {d.id : d \in channels'} \cup {Nowhere}]
    BY <1>1, <1>2 DEF IInv, TypeOK
  <2> QED BY <1>2, <2>1, <2>2, <2>3, <2>4 DEF IInv, TypeOK
<1>4. \A q \in Requests \ {r} :
        step'[q] = step[q] /\ ws'[q] = ws[q] /\ chan'[q] = chan[q]
  BY <1>1, <1>2 DEF IInv, TypeOK
<1>5. Progress(r)'
  BY <1>2 DEF IInv, TypeOK, Progress, Adding
<1>6. \A q \in Requests : Progress(q)'
  BY <1>2, <1>4, <1>5, OthersProgress
<1>7. Made'
  <2>1. \A d \in channels : d.id # r
    BY <1>2 DEF IInv, Made, Unmade
  <2>2. announced \subseteq announced'
    BY <1>1
  <2> QED BY <1>2, <1>4, <2>1, <2>2, OthersMade DEF Made
<1>8. Unique'
  BY <1>2 DEF IInv, Unique
<1>9. OwnRows'
  <2>1. \A m \in members' : m.by \in Dms => m \in members
    BY <1>1, <1>2
  <2> QED BY <2>1 DEF IInv, OwnRows, Row
<1> QED BY <1>3, <1>6, <1>7, <1>8, <1>9 DEF IInv

\* A handler is cut off, its statement not executed or, a workspace, executed.
LEMMA CutOff ==
  ASSUME IInv, NEW r \in Requests, step' = [step EXCEPT ![r] = "failed"],
         workspaces' \in {workspaces, workspaces \cup {r}},
         UNCHANGED <<channels, members, announced, ws, chan>>
  PROVE  IInv'
<1>1. TypeOK'
  BY DEF IInv, TypeOK, Steps, Answered
<1>2. /\ step'[r] = "failed"
      /\ \A q \in Requests \ {r} :
           step'[q] = step[q] /\ ws'[q] = ws[q] /\ chan'[q] = chan[q]
  BY DEF IInv, TypeOK
<1>3. Progress(r)'
  BY <1>2 DEF Progress, Adding
<1>4. \A q \in Requests : Progress(q)'
  BY <1>2, <1>3, OthersProgress
<1>5. Made'
  <2>1. step'[r] \notin Unmade /\ Filled(r)'
    BY <1>2 DEF Unmade, Filled
  <2> QED BY <1>2, <2>1, OthersMade DEF Made
<1>6. Unique' /\ OwnRows'
  BY DEF IInv, Unique, OwnRows, Row
<1> QED BY <1>1, <1>4, <1>5, <1>6 DEF IInv

LEMMA FailInv ==
  ASSUME IInv, NEW r \in Requests, Fail(r) PROVE IInv'
<1>1. step' = [step EXCEPT ![r] = "failed"] /\ UNCHANGED <<announced, ws, chan>>
  BY DEF Fail
<1>2. CASE UNCHANGED <<workspaces, channels, members>>
  BY <1>1, <1>2, CutOff
<1>3. CASE workspaces' = workspaces \cup {r} /\ UNCHANGED <<channels, members>>
  BY <1>1, <1>3, CutOff
<1>4. CASE /\ step[r] = "insert_channel" /\ ~Taken(r)
           /\ channels' = channels \cup {[id |-> r, ws |-> ws[r], name |-> Name(r)]}
           /\ UNCHANGED <<workspaces, members>>
  BY <1>1, <1>4, ChannelInserted
<1>5. CASE /\ step[r] \in {"add_actor", "add_peer"}
           /\ members' = members \cup {MemberRow(r)}
           /\ UNCHANGED <<workspaces, channels>>
  BY <1>1, <1>5, MemberInserted DEF Adding
<1> QED BY <1>2, <1>3, <1>4, <1>5 DEF Fail

LEMMA NextInv == IInv /\ [Next]_vars => IInv'
<1> SUFFICES ASSUME IInv, [Next]_vars PROVE IInv'
  OBVIOUS
<1>1. ASSUME NEW r \in Requests, Advance(r) PROVE IInv'
  <2>1. CASE AddMember(r)
    <3>1. /\ step[r] \in Adding
          /\ step' = [step EXCEPT ![r] = AfterMember(r)]
          /\ members' = members \cup {MemberRow(r)}
          /\ announced' = announced \cup {MemberRow(r)}
          /\ UNCHANGED <<workspaces, channels, ws, chan>>
      BY <2>1 DEF AddMember, Adding
    <3> QED BY <3>1, MemberInserted
  <2> QED BY <1>1, <2>1, SelectWorkspaceInv, InsertWorkspaceInv,
             SelectChannelInv, InsertChannelInv, JoinInv DEF Advance
<1>2. ASSUME NEW r \in Requests, Fail(r) PROVE IInv'
  BY <1>2, FailInv
<1>3. CASE UNCHANGED vars
  BY <1>3 DEF vars, IInv, TypeOK, Progress, Owns, Name, Made, Filled, Unique,
              OwnRows, Row
<1> QED BY <1>1, <1>2, <1>3 DEF Next

-----------------------------------------------------------------------------
(* Theorems.                                                               *)

\* Workspaces, channels, members and handlers keep the invariant above.
THEOREM DirectoryInvariance == Spec => []IInv
BY InitInv, NextInv, PTL DEF Spec

\* Every variable keeps its type: a member row names a channel that exists, a
\* channel a workspace that exists.
THEOREM TypeCorrect == Spec => []TypeOK
<1>1. IInv => TypeOK
  BY DEF IInv
<1> QED BY <1>1, DirectoryInvariance, PTL

\* Requests about one pair in one workspace are answered with one channel,
\* however the statements of any number of them overlap.
THEOREM SidesMeetAlways == Spec => []SidesMeet
<1>1. IInv => SidesMeet
  <2> SUFFICES ASSUME IInv, NEW r \in Dms, NEW q \in Dms,
                      step[r] = "done", step[q] = "done",
                      Name(r) = Name(q), ws[r] = ws[q]
               PROVE  chan[r] = chan[q]
    BY DEF SidesMeet
  <2>1. Owns(r) /\ Owns(q)
    BY Kinds DEF IInv, Progress
  <2> QED BY <2>1 DEF Owns, IInv, Unique
<1> QED BY <1>1, DirectoryInvariance, PTL

\* Only its maker fills a DM channel, with each of its two sides once.
THEOREM FilledByMakerAlways == Spec => []FilledByMaker
<1>1. IInv => FilledByMaker
  <2> SUFFICES ASSUME IInv, NEW c \in channels, NEW m \in Sides(c)
               PROVE  /\ m.by = c.id
                      /\ m.who \in Name(c.id)
                      /\ \A n \in Sides(c) \ {m} : n.side # m.side
    BY DEF FilledByMaker
  <2>1. \A n \in Sides(c) : \E s \in Adding : n = Row(n.by, s) /\ n.by = c.id
    BY DEF Sides, IInv, OwnRows, Row
  <2>2. \A n \in Sides(c) : n = Row(c.id, n.side)
    BY <2>1 DEF Row
  <2>3. m.by = c.id /\ c.id \in Dms
    BY <2>1 DEF Sides
  <2>4. m.who \in Name(c.id)
    BY <2>2, <2>3 DEF Row, Name
  <2> QED BY <2>2, <2>3, <2>4
<1> QED BY <1>1, DirectoryInvariance, PTL

\* A DM channel lacks a side or an announcement only while its maker is at
\* work on it, or if its maker was cut off.
THEOREM HalfMadeIfCutOffAlways == Spec => []HalfMadeIfCutOff
<1>1. IInv => HalfMadeIfCutOff
  <2> SUFFICES ASSUME IInv, NEW c \in channels, c.id \in Dms,
                      step[c.id] \notin {"add_actor", "add_peer", "failed"},
                      NEW side \in {"add_actor", "add_peer"}
               PROVE  \E m \in announced : m.channel = c.id /\ m.side = side
    BY DEF HalfMadeIfCutOff
  <2>1. Row(c.id, side) \in announced
    BY DEF IInv, Made, Filled
  <2> QED BY <2>1 DEF Row
<1> QED BY <1>1, DirectoryInvariance, PTL

-----------------------------------------------------------------------------
(* A workspace's channel of a name is made once: Directory implements      *)
(* WriteOnce.                                                              *)

Seekers == Creates \cup Dms

Keys == Requests \X {Name(r) : r \in Seekers}

Held == [k \in Keys |-> {c.id : c \in Named(k[1], k[2])}]

Told == [r \in Seekers |->
           IF step[r] = "done" THEN {<<<<ws[r], Name(r)>>, chan[r]>>} ELSE {}]

LEMMA InitChannels == Init => ChannelOf!Init
<1> SUFFICES ASSUME Init PROVE ChannelOf!Init
  OBVIOUS
<1>1. \A w, name : {c.id : c \in Named(w, name)} = {}
  BY DEF Init, Named
<1>2. \A r \in Seekers : step[r] = "idle"
  BY DEF Init, Seekers, Requests
<1> QED BY <1>1, <1>2 DEF ChannelOf!Init, Seekers

LEMMA KeyOf ==
  ASSUME TypeOK, NEW r \in Seekers, ws[r] \in workspaces
  PROVE  <<ws[r], Name(r)>> \in Keys
BY DEF TypeOK, Keys

LEMMA HeldIs ==
  ASSUME NEW k \in Keys
  PROVE  /\ Held[k] = {c.id : c \in Named(k[1], k[2])}
         /\ Held'[k] = {c.id : c \in Named(k[1], k[2])'}
<1>1. Keys' = Keys
  BY DEF Keys, Name
<1> QED BY <1>1 DEF Held

\* No channel is made.
LEMMA NothingHeld ==
  ASSUME channels' = channels PROVE UNCHANGED Held
<1>1. \A w, name : Named(w, name)' = Named(w, name)
  BY DEF Named
<1> QED BY <1>1 DEF Held, Keys, Name

\* A step of a handler that is not answered by it.
LEMMA NothingTold ==
  ASSUME TypeOK, NEW r \in Requests, step[r] # "done",
         \/ r \notin Seekers
         \/ step'[r] # "done",
         \A q \in Requests \ {r} :
           step'[q] = step[q] /\ ws'[q] = ws[q] /\ chan'[q] = chan[q]
  PROVE  UNCHANGED Told
<1>1. \A q \in Seekers : q \in Requests
  BY DEF Seekers, Requests
<1>2. \A q \in Seekers \ {r} :
        step'[q] = step[q] /\ ws'[q] = ws[q] /\ chan'[q] = chan[q]
  BY <1>1
<1> QED BY <1>2 DEF Told, Name

\* An answer tells of the one channel that the answered handler's workspace
\* has of the name.
LEMMA AnswerTells ==
  ASSUME IInv, IInv', NEW r \in Seekers, step[r] # "done", step'[r] = "done",
         ws'[r] = ws[r], ws[r] \in workspaces,
         Owns(r)',
         \A q \in Requests \ {r} :
           step'[q] = step[q] /\ ws'[q] = ws[q] /\ chan'[q] = chan[q]
  PROVE  ChannelOf!Tell(r)
<1>1. PICK k \in Keys : k = <<ws[r], Name(r)>> /\ k[1] = ws[r] /\ k[2] = Name(r)
  <2>1. <<ws[r], Name(r)>> \in Keys
    BY KeyOf DEF IInv
  <2> QED BY <2>1
<1>2. chan'[r] \in {c.id : c \in Named(k[1], k[2])'}
  <2>1. \E c \in channels' : c.id = chan'[r] /\ c.ws = ws[r] /\ c.name = Name(r)
    BY DEF Owns, Name
  <2> QED BY <1>1, <2>1 DEF Named
<1>3. Told[r] = {}
  BY DEF Told
<1>4. Told' = [Told EXCEPT ![r] = {<<k, chan'[r]>>}]
  <2>1. \A q \in Seekers \ {r} :
          step'[q] = step[q] /\ ws'[q] = ws[q] /\ chan'[q] = chan[q]
    BY DEF Seekers, Requests
  <2> QED BY <1>1, <2>1 DEF Told, Name
<1>5. chan'[r] \in Held'[k]
  BY <1>1, <1>2, HeldIs
<1>6. \E j \in Keys : \E v \in Held'[j] : Told' = [Told EXCEPT ![r] = {<<j, v>>}]
  BY <1>1, <1>4, <1>5
<1> QED BY <1>3, <1>6 DEF ChannelOf!Tell, Told, Held, Keys, Seekers

\* The INSERT that the unique constraint lets in writes the register.
LEMMA InsertWrites ==
  ASSUME IInv, NEW r \in Seekers, ws[r] \in workspaces, ~Taken(r),
         channels' = channels \cup {[id |-> r, ws |-> ws[r], name |-> Name(r)]}
  PROVE  \E k \in Keys : ChannelOf!Write(k)
<1> DEFINE k == <<ws[r], Name(r)>>
           new == [id |-> r, ws |-> ws[r], name |-> Name(r)]
<1>1. k \in Keys /\ k[1] = ws[r] /\ k[2] = Name(r)
  BY KeyOf DEF IInv
<1>2. new.id = r /\ new.ws = ws[r] /\ new.name = Name(r)
  OBVIOUS
<1>3. \A j \in Keys : j # k => j[1] # ws[r] \/ j[2] # Name(r)
  BY DEF Keys
<1> HIDE DEF k, new
<1>4. Held[k] = {}
  BY <1>1 DEF Held, Taken, Named
<1>5. \A w, name : Named(w, name)' =
        Named(w, name) \cup {c \in {new} : new.ws = w /\ new.name = name}
  BY DEF Named, new
<1>6. ASSUME NEW j \in Keys PROVE Held'[j] = IF j = k THEN {r} ELSE Held[j]
  <2>1. Held'[j] = {c.id : c \in Named(j[1], j[2])'}
    BY HeldIs
  <2>2. Held[j] = {c.id : c \in Named(j[1], j[2])}
    BY HeldIs
  <2>3. CASE j = k
    <3>1. Named(j[1], j[2]) = {}
      BY <1>1, <2>3 DEF Taken
    <3>2. Named(j[1], j[2])' = {new}
      BY <1>1, <1>2, <1>5, <2>3, <3>1
    <3> QED BY <1>2, <2>1, <2>3, <3>2
  <2>4. CASE j # k
    <3>1. Named(j[1], j[2])' = Named(j[1], j[2])
      BY <1>2, <1>3, <1>5, <2>4
    <3> QED BY <2>1, <2>2, <2>4, <3>1
  <2> QED BY <2>3, <2>4
<1>7. Held' = [Held EXCEPT ![k] = {r}]
  <2>1. DOMAIN Held' = Keys /\ DOMAIN Held = Keys
    BY DEF Held, Keys, Name
  <2>2. Held' = [j \in Keys |-> Held'[j]] /\ Held = [j \in Keys |-> Held[j]]
    BY <2>1 DEF Held, Keys, Name
  <2>3. Held' = [j \in Keys |-> IF j = k THEN {r} ELSE Held[j]]
    BY <1>6, <2>2
  <2> QED BY <2>1, <2>3
<1>8. ChannelOf!Write(k)
  BY <1>4, <1>7 DEF ChannelOf!Write, Held, Keys, Seekers
<1> QED BY <1>1, <1>8 DEF ChannelOf!Write

\* A handler that is not answered: nobody is told, and if it inserted its
\* channel the register was free.
LEMMA Unanswered ==
  ASSUME IInv, NEW r \in Requests, step[r] # "done",
         r \notin Seekers \/ step'[r] # "done",
         \A q \in Requests \ {r} :
           step'[q] = step[q] /\ ws'[q] = ws[q] /\ chan'[q] = chan[q],
         \/ channels' = channels
         \/ /\ step[r] = "insert_channel" /\ ~Taken(r)
            /\ channels' = channels \cup {[id |-> r, ws |-> ws[r], name |-> Name(r)]}
  PROVE  ChannelOf!Next
<1>1. UNCHANGED Told
  BY NothingTold DEF IInv
<1>2. UNCHANGED Held \/ \E k \in Keys : ChannelOf!Write(k)
  <2>1. CASE channels' = channels
    BY <2>1, NothingHeld
  <2>2. CASE step[r] = "insert_channel"
    <3>1. r \in Seekers /\ ws[r] \in workspaces
      BY <2>2 DEF IInv, Progress, Seekers
    <3> QED BY <3>1, NothingHeld, InsertWrites
  <2> QED BY <2>1, <2>2
<1> QED BY <1>1, <1>2 DEF ChannelOf!Next, Told, Held, Keys, Seekers

\* A handler that is answered with the channel it found, made or completed.
LEMMA SeekerAnswered ==
  ASSUME IInv, IInv', NEW r \in Seekers, ws' = ws, ws[r] \in workspaces,
         step' = [step EXCEPT ![r] = "done"],
         Owns(r)',
         \A q \in Requests \ {r} : chan'[q] = chan[q],
         \/ /\ step[r] # "done" /\ channels' = channels
         \/ /\ step[r] = "insert_channel" /\ ~Taken(r)
            /\ channels' = channels \cup {[id |-> r, ws |-> ws[r], name |-> Name(r)]}
  PROVE  ChannelOf!Next
<1>1. r \in Requests /\ step[r] # "done" /\ step'[r] = "done"
  BY DEF Seekers, Requests, IInv, TypeOK
<1>2. \A q \in Requests \ {r} :
        step'[q] = step[q] /\ ws'[q] = ws[q] /\ chan'[q] = chan[q]
  BY DEF IInv, TypeOK
<1>3. ChannelOf!Tell(r)
  BY <1>1, <1>2, AnswerTells
<1>4. UNCHANGED Held \/ \E k \in Keys : ChannelOf!Write(k)
  BY NothingHeld, InsertWrites
<1> QED BY <1>3, <1>4 DEF ChannelOf!Next, Held, Keys, Seekers

LEMMA AdvanceRefines ==
  ASSUME IInv, IInv', NEW r \in Requests, Advance(r) PROVE ChannelOf!Next
<1>1. CASE SelectWorkspace(r) \/ InsertWorkspace(r)
  <2>1. /\ step[r] # "done" /\ channels' = channels
        /\ r \notin Joins /\ UNCHANGED chan
    BY <1>1 DEF SelectWorkspace, InsertWorkspace, IInv, Progress
  <2>2. /\ \A q \in Requests \ {r} :
             step'[q] = step[q] /\ ws'[q] = ws[q] /\ chan'[q] = chan[q]
        /\ step'[r] \in {"insert_workspace", AfterWorkspace(r)}
    BY <1>1 DEF SelectWorkspace, InsertWorkspace, IInv, TypeOK
  <2>3. r \notin Seekers \/ step'[r] # "done"
    BY <2>1, <2>2, DirectoryAssumption DEF AfterWorkspace, Seekers, Requests
  <2> QED BY <2>1, <2>2, <2>3, Unanswered
<1>2. CASE SelectChannel(r)
  <2>1. /\ step[r] = "select_channel" /\ r \in Dms /\ ws[r] \in workspaces
        /\ UNCHANGED <<channels, ws>>
    BY <1>2 DEF SelectChannel, IInv, Progress
  <2>2. /\ \A q \in Requests \ {r} : step'[q] = step[q] /\ chan'[q] = chan[q]
        /\ \/ step' = [step EXCEPT ![r] = "done"]
           \/ step'[r] = "insert_channel"
    BY <1>2 DEF SelectChannel, AfterFound, IInv, TypeOK
  <2>3. CASE step' = [step EXCEPT ![r] = "done"]
    <3>1. step'[r] = "done" /\ Owns(r)'
      BY <2>1, <2>3 DEF IInv, TypeOK, Progress
    <3> QED BY <2>1, <2>2, <2>3, <3>1, SeekerAnswered DEF Seekers
  <2>4. CASE step'[r] = "insert_channel"
    BY <2>1, <2>2, <2>4, Unanswered
  <2> QED BY <2>2, <2>3, <2>4
<1>3. CASE InsertChannel(r)
  <2>1. /\ step[r] = "insert_channel" /\ r \in Seekers
        /\ ws[r] \in workspaces /\ UNCHANGED ws
    BY <1>3 DEF InsertChannel, IInv, Progress, Seekers
  <2>2. \A q \in Requests \ {r} :
          step'[q] = step[q] /\ ws'[q] = ws[q] /\ chan'[q] = chan[q]
    BY <1>3 DEF InsertChannel, IInv, TypeOK
  <2>3. CASE step'[r] # "done"
    <3>1. \/ channels' = channels
          \/ /\ ~Taken(r)
             /\ channels' = channels \cup {[id |-> r, ws |-> ws[r], name |-> Name(r)]}
      BY <1>3 DEF InsertChannel
    <3> QED BY <2>1, <2>2, <2>3, <3>1, Unanswered
  <2>4. CASE step'[r] = "done"
    <3>1. /\ ~Taken(r) /\ r \notin Dms
          /\ channels' = channels \cup {[id |-> r, ws |-> ws[r], name |-> Name(r)]}
          /\ chan' = [chan EXCEPT ![r] = r]
          /\ step' = [step EXCEPT ![r] = "done"]
      BY <1>3, <2>4 DEF InsertChannel, IInv, TypeOK
    <3>2. Owns(r)'
      <4> DEFINE new == [id |-> r, ws |-> ws[r], name |-> Name(r)]
      <4>1. /\ new.id = r /\ new.ws = ws[r] /\ new.name = Name(r)
            /\ new \in channels'
        BY <3>1
      <4>2. chan'[r] = r
        BY <3>1 DEF IInv, TypeOK
      <4> QED BY <2>1, <4>1, <4>2 DEF Owns, Name
    <3> QED BY <2>1, <2>2, <3>1, <3>2, SeekerAnswered
  <2> QED BY <2>3, <2>4
<1>4. CASE AddMember(r)
  <2>1. /\ step[r] \in Adding /\ r \in Dms /\ Owns(r)
        /\ UNCHANGED <<workspaces, channels, ws, chan>>
        /\ step' = [step EXCEPT ![r] = AfterMember(r)]
    BY <1>4 DEF AddMember, IInv, Progress, Adding
  <2>2. \A q \in Requests \ {r} : step'[q] = step[q]
    BY <2>1 DEF IInv, TypeOK
  <2>3. ws[r] \in workspaces /\ Owns(r)'
    BY <2>1 DEF Owns, Name, IInv, TypeOK
  <2>4. CASE AfterMember(r) = "done"
    BY <2>1, <2>3, <2>4, SeekerAnswered DEF Seekers, Adding
  <2>5. CASE AfterMember(r) # "done"
    <3>1. step'[r] # "done" /\ step[r] # "done"
      BY <2>1, <2>5 DEF IInv, TypeOK, Adding
    <3> QED BY <2>1, <2>2, <3>1, Unanswered
  <2> QED BY <2>4, <2>5
<1>5. CASE Join(r)
  <2>1. /\ r \notin Seekers /\ step[r] # "done" /\ channels' = channels
    BY <1>5, Kinds DEF Join, Seekers
  <2>2. \A q \in Requests \ {r} :
          step'[q] = step[q] /\ ws'[q] = ws[q] /\ chan'[q] = chan[q]
    BY <1>5 DEF Join, IInv, TypeOK
  <2> QED BY <2>1, <2>2, Unanswered
<1> QED BY <1>1, <1>2, <1>3, <1>4, <1>5 DEF Advance

LEMMA FailRefines ==
  ASSUME IInv, NEW r \in Requests, Fail(r) PROVE ChannelOf!Next
<1>1. /\ step[r] # "done" /\ step' = [step EXCEPT ![r] = "failed"]
      /\ UNCHANGED <<ws, chan>>
  BY DEF Fail, Answered
<1>2. /\ step'[r] # "done"
      /\ \A q \in Requests \ {r} :
           step'[q] = step[q] /\ ws'[q] = ws[q] /\ chan'[q] = chan[q]
  BY <1>1 DEF IInv, TypeOK
<1>3. \/ channels' = channels
      \/ /\ step[r] = "insert_channel" /\ ~Taken(r)
         /\ channels' = channels \cup {[id |-> r, ws |-> ws[r], name |-> Name(r)]}
  BY DEF Fail
<1> QED BY <1>1, <1>2, <1>3, Unanswered

LEMMA NextChannels ==
  IInv /\ IInv' /\ [Next]_vars => [ChannelOf!Next]_(ChannelOf!wVars)
<1> SUFFICES ASSUME IInv, IInv', [Next]_vars
             PROVE  [ChannelOf!Next]_(ChannelOf!wVars)
  OBVIOUS
<1>1. CASE Next
  BY <1>1, AdvanceRefines, FailRefines DEF Next
<1>2. CASE UNCHANGED vars
  <2>1. UNCHANGED <<Held, Told>>
    BY <1>2, NothingHeld DEF vars, Told, Name
  <2> QED BY <2>1 DEF ChannelOf!wVars, Held, Told, Keys, Seekers
<1> QED BY <1>1, <1>2

\* A workspace's channel of a name is inserted once, by one of any number of
\* creators and sides of a pair, cut off or not, and is what all are answered.
THEOREM ImplementsWriteOnceAlways == Spec => ImplementsWriteOnce
<1>1. Init => ChannelOf!Init
  BY InitChannels
<1>2. IInv /\ IInv' /\ [Next]_vars => [ChannelOf!Next]_(ChannelOf!wVars)
  BY NextChannels
<1> QED BY <1>1, <1>2, DirectoryInvariance, PTL
        DEF Spec, ImplementsWriteOnce, ChannelOf!Spec

=============================================================================
