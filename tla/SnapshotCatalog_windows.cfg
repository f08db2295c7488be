SPECIFICATION Spec
CONSTANTS
  i1 = i1
  i2 = i2
  r1 = r1
  r2 = r2
  s1 = s1
  s2 = s2
  Indices = {i1, i2}
  Repos = {r1}
  SnapshotNames = {s1}
  NameLists <- OneOrTwoNames
  RequestTimes = {0, 1, 2}
  DiskMinSize = 1
  MaxTime = 3
  Absent = Absent
INVARIANTS
  TypeOK
  WindowIsComplete
  SizeCountsOnce
