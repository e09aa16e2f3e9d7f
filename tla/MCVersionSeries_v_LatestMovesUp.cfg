SPECIFICATION Spec
CONSTANTS
  Doc = {d1, d2, d3, d4}
  Series = {s1}
  User = {u1, u2}
  Admin = {}
  Guided = TRUE
  Absent = Absent
  NoDoc = NoDoc
  Nobody = Nobody
SYMMETRY Interchangeable
CHECK_DEADLOCK FALSE
PROPERTY LatestMovesUp
