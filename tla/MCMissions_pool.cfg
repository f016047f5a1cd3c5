SPECIFICATION Spec
CONSTANTS
  p = p
  u = u
  v = v
  m1 = m1
  t1 = t1
  t2 = t2
  NoUser = NoUser
  PosterOf <- OnePoster
  Users = {p, u, v}
  Missions = {m1}
  Taps = {t1}
  Connections = 2
  BlockPairs <- NoPairs
  Watched = {}
  MaxCrashes = 0
PROPERTY SelectionSettles
CHECK_DEADLOCK FALSE
