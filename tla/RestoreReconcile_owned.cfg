SPECIFICATION FairSpec
CONSTANTS
  t1 = t1
  t2 = t2
  q1 = q1
  q2 = q2
  n0 = n0
  n1 = n1
  n2 = n2
  n3 = n3
  Tasks = {t1, t2}
  NodeName <- OneNode
  StoreSize <- OneGB
  Storage <- OneGB
  Quantities = {t1, t2}
  GigaBytes = {t1, t2}
  Requests = {}
  RequestName <- NoNames
  RequestSize <- NoSizes
  Owned = {n1}
  Flapping = FALSE
  ApiFaults = FALSE
  Original <- OneOriginal
  MaxEvents <- OneEach
  NoTask = NoTask
PROPERTIES
  OwnedAreSent
CHECK_DEADLOCK FALSE
