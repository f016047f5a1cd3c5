SPECIFICATION AftermathSpec
CONSTANTS
  r1 = r1
  r2 = r2
  c1 = c1
  c2 = c2
  k1 = k1
  t1 = t1
  t2 = t2
  whatsapp = whatsapp
  call = call
  nothing = nothing
  NoCraftsman = nothing
  NoContact = nothing
  Requests = {r1, r2}
  Clients = {c1}
  Craftsmen = {k1}
  ClientOf <- MCClientOf
  Channels = {whatsapp, call}
  Taps = {t1, t2}
SYMMETRY MCSymmetry
INVARIANTS
  AftermathTypeOK
  RowsConsistent
  DeletedHasNoJob
  RatingsCounted
  ContactsHeardOnce
PROPERTIES
  HistoryIsFinal
  ImplementsLifecycle
CHECK_DEADLOCK FALSE
