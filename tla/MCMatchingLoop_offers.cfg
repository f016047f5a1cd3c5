SPECIFICATION SafeSpec
CONSTANTS
  r1 = r1
  r2 = r2
  c1 = c1
  c2 = c2
  k1 = k1
  k2 = k2
  NoCraftsman = NoCraftsman
  NoClient = NoClient
  NoRequest = NoRequest
  Requests = {r1, r2}
  Clients = {c1, c2}
  Craftsmen = {k1, k2}
  ClientOf <- TwoClients
  TightRequests = {r2}
  StandardSteps = 2
  TightSteps = 5
  Joiners = {}
  Blockers = {}
  ResetUsers = {}
  MaxCrashes = 0
SYMMETRY CraftsmenSymmetry
INVARIANTS
  OffersWithdrawn
  CancelNotified
  RelayedToOwnClient
CHECK_DEADLOCK FALSE
