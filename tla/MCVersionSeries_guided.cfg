SPECIFICATION Spec
CONSTANTS
  Doc = {d1, d2, d3, d4, d5}
  Series = {s1, s2}
  User = {a, u1, u2}
  Admin = {a}
  Guided = TRUE
  Absent = Absent
  NoDoc = NoDoc
  Nobody = Nobody
SYMMETRY Interchangeable
CHECK_DEADLOCK FALSE
INVARIANTS
  AtMostOneLatest
  PwcMatchesSeries
PROPERTIES
  LockedWhileCheckedOut
  LostPwcLocksSeries
