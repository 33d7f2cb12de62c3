CONSTANTS
  w1 = w1
  Workers = {w1, w2}
  Streams = {s1}
  Home <- HomeOne
  AgentTopics = {a1}
  ChannelTopics = {c1}
  QueueMax = 1
  MaxPublished = 2
  Calls = {k1, k2}
  Results = {r1, r2}
  MaxPosts = 2
SPECIFICATION CallSpec
INVARIANTS CallTypeOK PendingMatchesWaiters AcceptedIsKept AnswerIsGenuine RefusedNeverRuns WaitsForSomebody
PROPERTIES ImplementsContract QueuedReachesBridge LeaversAreReaped
\* Every call may have been answered and every client may have left.
CHECK_DEADLOCK FALSE
