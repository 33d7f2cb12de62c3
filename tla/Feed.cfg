CONSTANTS
  w1 = w1
  a1 = a1
  m1 = m1
  Workers = {w1, w2}
  Streams = {s1, s2}
  Home <- HomeOne
  AgentTopics = {ta}
  ChannelTopics = {tc}
  QueueMax = 1
  MaxPublished = 2
  Messages = {m1, m2}
  Mentions <- OneMention
  Rank <- RankOf
  InboxLimit = 1
  MaxClock = 2
  MaxPolls = 3
  Clients = {a1}
  ClientOf <- OneClient
  Agent = ta
  Channel = tc
SPECIFICATION FeedSpec
SYMMETRY FeedSymmetry
INVARIANTS FeedTypeOK NothingLost GivenOrStreamed HeardIsStored NoGap NothingMissed
PROPERTY ImplementsSubscription
\* Every message may have been announced and every client may have left.
CHECK_DEADLOCK FALSE
