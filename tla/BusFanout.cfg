CONSTANTS
  w1 = w1
  w2 = w2
  s1 = s1
  s2 = s2
  Workers = {w1, w2}
  Streams = {s1, s2}
  Home <- HomeTwo
  AgentTopics = {a1}
  ChannelTopics = {}
  QueueMax = 1
  MaxPublished = 1
SPECIFICATION Spec
INVARIANT InstanceFanout
\* The clients may all have left and every event may have been published.
CHECK_DEADLOCK FALSE
