CONSTANTS
  p1 = p1
  p2 = p2
  p3 = p3
  p4 = p4
  k1 = k1
  k2 = k2
  w1 = w1
  w2 = w2
  Requests = {p1, p2, p3, p4}
  Slots = {k1, k2}
  SlotOf <- Attempts
  Workers = {w1, w2}
  WorkerOf <- Balanced
  Absent = Absent
  x1 = x1
  x2 = x2
  h1 = h1
  Reacts = {x1, x2}
  Target <- TargetOf
  Humans = {h1}
  Agents = {}
  Reactor <- ReactorOf
  ServedBy <- ServedByOf
  Null = Null
SPECIFICATION ReactionSpec
INVARIANTS AcksAgree AnnouncedOnce ReactionTypeOK OkIsTold
PROPERTIES StoredIsAnnounced ImplementsLog
\* Every request may have been answered.
CHECK_DEADLOCK FALSE
