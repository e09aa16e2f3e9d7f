SPECIFICATION Spec
CONSTANTS
  User = {u1, u2}
  Object = {1, 2, 3, 4, 5}
  NoObject = 0
  NoChange = NoChange
  Calls = {"updateProperties", "applyAcl", "getObject", "look", "other", "ask"}
  Faulty = TRUE
  Budget = 3
SYMMETRY Interchangeable
CHECK_DEADLOCK FALSE
INVARIANTS
  TypeOK
  SavesOnWhatWasRead
  CoherentAtRest
  LatestAtRest
PROPERTIES
  TokenUsedOnce
