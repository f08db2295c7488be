SPECIFICATION Spec
CONSTANTS
  t1 = t1
  t2 = t2
  q1 = q1
  q2 = q2
  n0 = n0
  n1 = n1
  n2 = n2
  n3 = n3
  Tasks = {t1, t2}
  NodeName <- OwnNodes
  StoreSize <- OneGB
  Storage <- OneGB
  Quantities = {t1, t2, q1}
  GigaBytes = {t1, t2}
  Requests = {q1}
  RequestName <- CreateOne
  RequestSize <- CreateOneSize
  Owned = {}
  Flapping = FALSE
  ApiFaults = FALSE
  Original <- OneOriginal
  MaxEvents <- OneEach
  NoTask = NoTask
INVARIANTS
  CreatedNodeStays
CHECK_DEADLOCK FALSE
