SPECIFICATION Spec
CONSTANTS
  Doc = {d1, d2, d3, d4, d5}
  Series = {s1}
  User = {u1, u2}
  Admin = {}
  Guided = FALSE
  Absent = Absent
  NoDoc = NoDoc
  Nobody = Nobody
SYMMETRY Interchangeable
CHECK_DEADLOCK FALSE
INVARIANTS
  TypeOK
  AtMostOneLatest
  LatestIsNewest
  LabelsDistinct
  LiveXorArchived
  SeriesNamesPwc
PROPERTIES
  SupersededNeverRewritten
  DeletePromotesNothing
