SPECIFICATION Spec
CONSTANTS
  mine = mine
  other = other
  u1 = u1
  u2 = u2
  nothing = nothing
  Devices = {mine, other}
  Owners = {mine}
  Accounts = {u1, u2}
  NoAccount = nothing
SYMMETRY MCSymmetry
INVARIANTS
  TypeOK
  VerifiedSessionIsOwners
