SPECIFICATION Spec
CONSTANTS
  h1 = h1
  h2 = h2
  Handlers = {h1, h2}
  MaxCrashes = 1
SYMMETRY MCSymmetry
INVARIANTS
  TypeOK
  LadderHolds
