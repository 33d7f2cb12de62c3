CONSTANTS
  w1 = w1
  Workers = {w1, w2}
  Streams = {s1}
  Home <- HomeOne
  AgentTopics = {a1}
  ChannelTopics = {}
  QueueMax = 1
  MaxPublished = 2
  Calls = {k1, k2}
  Results = {r1, r2}
  MaxPosts = 2
SPECIFICATION CallSpec
INVARIANT AcceptedReachesCaller
\* Every call may have been answered and every client may have left.
CHECK_DEADLOCK FALSE
