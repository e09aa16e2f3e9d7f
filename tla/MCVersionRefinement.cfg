SPECIFICATION SeenSpec
CONSTANTS
  Doc = {d1, d2, d3}
  Series = {s1, s2}
  User = {u1}
  Admin = {}
  Guided = FALSE
  Absent = Absent
  NoDoc = NoDoc
  Nobody = Nobody
  Calls = {"createDocument", "createPwc", "checkOut", "cancelCheckOut", "checkIn", "setContentStream", "saveVersion", "deleteVersion", "deleteSeries", "restore", "destroy"}
  Major = {FALSE, TRUE}
  Faulty = FALSE
  Budget = 5
CHECK_DEADLOCK FALSE
PROPERTIES
  RefinesWholeCalls
