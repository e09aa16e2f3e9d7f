SPECIFICATION FairSpec
CONSTANTS
  root = root
  f1 = f1
  d1 = d1
  Folder = {root, f1}
  Document = {d1}
  Root = root
  Tree <- Nested
  User = {u1, u2}
  Manager = {u1}
  Ace = {read}
  NoAce = NoAce
  Unset = Unset
  TopInherits = TRUE
  Uncached = Uncached
  Budget = 3
CHECK_DEADLOCK FALSE
INVARIANTS
  TypeOK
  OutdatedIsDue
PROPERTIES
  Heals
