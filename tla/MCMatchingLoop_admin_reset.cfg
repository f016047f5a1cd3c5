SPECIFICATION SafeSpec
CONSTANTS
  r1 = r1
  r2 = r2
  c1 = c1
  c2 = c2
  k1 = k1
  k2 = k2
  NoCraftsman = NoCraftsman
  NoClient = NoClient
  NoRequest = NoRequest
  Requests = {r1}
  Clients = {c1}
  Craftsmen = {k1}
  ClientOf <- SingleRequest
  TightRequests = {}
  StandardSteps = 2
  TightSteps = 5
  Joiners = {}
  Blockers = {}
  ResetUsers = {c1}
  MaxCrashes = 0
INVARIANT CancelNotified
CHECK_DEADLOCK FALSE
