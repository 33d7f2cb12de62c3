CONSTANTS
  c1 = c1
  d1 = d1
  d2 = d2
  p1 = p1
  p2 = p2
  Visits = {}
  Creates = {}
  Joins = {}
  Dms = {d1, d2}
  People = {p1, p2}
  Title <- NoTitle
  Actor <- ActorOf
  Peer <- PeerOf
  Nowhere = Nowhere
SPECIFICATION Spec
INVARIANT SidesAlwaysMeet
\* Every request may have been answered.
CHECK_DEADLOCK FALSE
