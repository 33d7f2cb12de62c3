CONSTANTS
  w1 = w1
  w2 = w2
  s1 = s1
  s2 = s2
  Workers = {w1}
  Streams = {s1}
  Home <- HomeOne
  AgentTopics = {a1}
  ChannelTopics = {}
  QueueMax = 1
  MaxPublished = 2
SPECIFICATION Spec
PROPERTY DroppedMustReconnect
\* The clients may all have left and every event may have been published.
CHECK_DEADLOCK FALSE
