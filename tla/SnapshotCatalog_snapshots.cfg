SPECIFICATION FairSpec
CONSTANTS
  i1 = i1
  i2 = i2
  r1 = r1
  r2 = r2
  s1 = s1
  s2 = s2
  Indices = {i1}
  Repos = {r1, r2}
  SnapshotNames = {s1}
  NameLists <- OneRequest
  RequestTimes = {0}
  DiskMinSize = 1
  MaxTime = 4
  Absent = Absent
INVARIANTS
  OffersWereReal
PROPERTIES
  SizesCatchUp
  NamesAreCatalogued
