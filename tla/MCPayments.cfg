SPECIFICATION Spec
CONSTANTS
  p1 = p1
  p2 = p2
  p3 = p3
  p4 = p4
  p5 = p5
  k1 = k1
  k2 = k2
  k3 = k3
  c1 = c1
  Payments = {p1, p2, p3, p4, p5}
  Users = {k1, k2, k3, c1}
  Craftsmen = {k1, k2, k3}
  PayerOf <- MCPayerOf
  CountryOf <- MCCountryOf
  Configured = {"CFA"}
  Production = TRUE
  TiersOnSale = {"free", "bronze", "silver"}
  MaxByHand = 1
  MaxCrashes = 1
INVARIANTS
  TypeOK
  PaidPlanIsEnjoyed
PROPERTIES
  ImplementsPurchase
  SubscriptionResolves
CHECK_DEADLOCK FALSE
