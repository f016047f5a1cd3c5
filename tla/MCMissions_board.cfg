SPECIFICATION Spec
CONSTANTS
  p = p
  u = u
  v = v
  m1 = m1
  t1 = t1
  t2 = t2
  NoUser = NoUser
  PosterOf <- OnePoster
  Users = {p, u, v}
  Missions = {m1}
  Taps = {t1}
  Connections = 3
  BlockPairs <- Pairs
  Watched = {u}
  MaxCrashes = 1
INVARIANTS
  TypeOK
  SelectionConsistent
  ChecksHoldUnderLock
  PagesAgree
PROPERTIES
  DecisionIsFinal
  ImplementsLifecycle
  SelectionSettles
CHECK_DEADLOCK FALSE
