SPECIFICATION FairSpec
CONSTANTS
  Caller = {c1}
  Obj = {o1}
  Ids = {1, 2, 3}
  LastMilli = 2
  DeltaItems = 2
  FullItems = 2
  Kinds = {"CREATED", "UPDATED", "DELETED"}
  Indexing = {TRUE}
  Forced = TRUE
  Cron = TRUE
  Admin = {"FULL"}
  Faults = {"crash"}
  Budget = 2
  NoToken = NoToken
  Nobody = Nobody
  Nothing = Nothing
CHECK_DEADLOCK FALSE
PROPERTIES
  Converges
  OrderedFullEnds
