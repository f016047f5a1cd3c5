SPECIFICATION Spec
CONSTANTS
  k1 = k1
  taxi = taxi
  plumber = plumber
  NoCategory = NoCategory
  Craftsmen = {k1}
  Categories = {taxi, plumber}
  Regulated = {taxi}
  CategoryOf <- Driver
  MaxHandlers = 3
  MaxCrashes = 1
INVARIANTS
  TypeOK
  IndexMatchesKey
  OnlyEligibleAreFound
PROPERTIES
  DeactivationTakesHold
CHECK_DEADLOCK FALSE
