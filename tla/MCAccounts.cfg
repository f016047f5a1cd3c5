SPECIFICATION Spec
CONSTANTS
  u = u
  w = w
  d1 = d1
  d2 = d2
  l1 = l1
  t1 = t1
  t2 = t2
  q1 = q1
  a1 = a1
  a2 = a2
  nothing = nothing
  silence = silence
  NoAnswer = silence
  NoPhoto = nothing
  Users = {u, w}
  Craftsmen = {u}
  Regulated = {u}
  TestPhones = {w}
  Cards = {d1, d2}
  Licenses = {l1}
  OwnerOf <- MCOwnerOf
  Answers <- MCAnswers
  Taps = {t1, t2}
  Reports = {q1}
  ReportedOf <- MCReportedOf
  Admins = {a1, a2}
  MaxCrashes = 1
SYMMETRY MCSymmetry
INVARIANTS
  TypeOK
  DocumentsFollowAccount
  NobodyStuck
  ReportsMatchSuspensions
CHECK_DEADLOCK FALSE
