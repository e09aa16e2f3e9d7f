SPECIFICATION Spec
CONSTANTS
  Caller = {c1, c2}
  Obj = {o1, o2}
  Ids = {1, 2, 3}
  LastMilli = 2
  DeltaItems = 2
  FullItems = 3
  Kinds = {"CREATED", "UPDATED", "DELETED"}
  Indexing = {TRUE}
  Forced = TRUE
  Cron = TRUE
  Admin = {"FULL"}
  Faults = {"crash", "read"}
  Budget = 2
  NoToken = NoToken
  Nobody = Nobody
  Nothing = Nothing
CHECK_DEADLOCK FALSE
SYMMETRY Interchangeable
CONSTRAINT InOrder
INVARIANTS
  IndexedUpToToken
  SyncWhenQuiet
PROPERTIES
  FollowsFeed
