CONSTANTS
  p1 = p1
  p2 = p2
  p3 = p3
  p4 = p4
  k1 = k1
  k2 = k2
  w1 = w1
  w2 = w2
  Requests = {p1, p2, p3, p4}
  Slots = {k1, k2}
  SlotOf <- Attempts
  Workers = {w1, w2}
  WorkerOf <- Balanced
  Absent = Absent
SPECIFICATION Spec
INVARIANT RetriesAreSafe
\* Every request may have been answered.
CHECK_DEADLOCK FALSE
