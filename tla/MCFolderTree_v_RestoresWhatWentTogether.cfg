SPECIFICATION Spec
CONSTANTS
  root = root
  f1 = f1
  f2 = f2
  d1 = d1
  i1 = i1
  u1 = u1
  u2 = u2
  Folder = {root, f1, f2}
  Document = {d1}
  Item = {i1}
  Root = root
  NameOf <- Names
  User = {u1}
  Worker = {w1}
  Absent = Absent
  Uncached = Uncached
  Start <- Trees
  Faulty = FALSE
  Budget = 3
CHECK_DEADLOCK FALSE
PROPERTIES
  RestoresWhatWentTogether
