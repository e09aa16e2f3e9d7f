SPECIFICATION Spec
CONSTANTS
  Doc = {d1, d2, d3, d4}
  Series = {s1}
  User = {u1, u2}
  Admin = {}
  Guided = TRUE
  Absent = Absent
  NoDoc = NoDoc
  Nobody = Nobody
  Calls = {"createDocument", "createPwc", "checkOut", "cancelCheckOut", "checkIn", "setContentStream", "saveVersion", "deleteVersion", "deleteSeries", "restore", "destroy", "getAllVersions"}
  Major = {FALSE}
  Faulty = TRUE
  Budget = 5
SYMMETRY Interchangeable
CHECK_DEADLOCK FALSE
INVARIANTS
  TypeOK
  OneLatestUnlessMixed
  NothingLost
  SeriesNamesPwc
  PwcNamed
  OnlyListingDeadlocks
