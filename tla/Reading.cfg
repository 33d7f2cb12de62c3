CONSTANTS
  m1 = m1
  m2 = m2
  m3 = m3
  m4 = m4
  Messages = {m1, m2, m3, m4}
  Rank <- RankOf
  Readers = {r1}
  Limits <- AskedLimits
  MaxLimit = 2
  MaxClock = 3
  MaxPages = 5
  Mentions = {m1, m2, m3}
  Pollers = {a1}
  InboxLimit = 2
SPECIFICATION InboxSpec
INVARIANTS NothingSkipped InboxTypeOK PollsMoveForward MissedOnlyIfLateOrTied
PROPERTIES ImplementsHistory WalkEnds InboxCatchesUp
\* Every message may have been written and every walk finished.
CHECK_DEADLOCK FALSE
