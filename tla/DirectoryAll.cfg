CONSTANTS
  c1 = c1
  d1 = d1
  d2 = d2
  p1 = p1
  p2 = p2
  Visits = {v1}
  Creates = {c1}
  Joins = {j1}
  Dms = {d1, d2}
  People = {p1, p2}
  Title <- TitleOf
  Actor <- ActorOf
  Peer <- PeerOf
  Nowhere = Nowhere
SPECIFICATION Spec
INVARIANTS TypeOK FilledByMaker HalfMadeIfCutOff
PROPERTY ImplementsWriteOnce
\* Every request may have been answered.
CHECK_DEADLOCK FALSE
