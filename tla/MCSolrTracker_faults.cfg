SPECIFICATION Spec
CONSTANTS
  Caller = {c1, c2}
  Obj = {o1, o2}
  Ids = {1, 2, 3}
  LastMilli = 2
  DeltaItems = 2
  FullItems = 2
  Kinds = {"CREATED", "UPDATED", "SECURITY", "DELETED"}
  Indexing = {FALSE}
  Forced = FALSE
  Cron = FALSE
  Admin = {"INIT"}
  Faults = {"crash", "read", "store", "request", "timeout"}
  Budget = 2
  NoToken = NoToken
  Nobody = Nobody
  Nothing = Nothing
CHECK_DEADLOCK FALSE
SYMMETRY Interchangeable
CONSTRAINT InOrder
INVARIANTS
  TypeOK
  Delivered
