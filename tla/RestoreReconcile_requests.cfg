SPECIFICATION FairSpec
CONSTANTS
  t1 = t1
  t2 = t2
  q1 = q1
  q2 = q2
  n0 = n0
  n1 = n1
  n2 = n2
  n3 = n3
  Tasks = {t1}
  NodeName <- AtN1
  StoreSize <- OfOneGB
  Storage <- OfOneGB
  Quantities = {t1, q1}
  GigaBytes = {t1}
  Requests = {q1, q2}
  RequestName <- CreateAndDelete
  RequestSize <- CreateAndDeleteSizes
  Owned = {}
  Flapping = TRUE
  ApiFaults = TRUE
  Original <- OneOriginal
  MaxEvents <- Thrice
  NoTask = NoTask
INVARIANTS
  TypeOK
  OneNodeSetPerName
  SendsPaidByEvents
PROPERTIES
  OthersChangeOnlyFromOldCopies
  EveryNodeMade
CHECK_DEADLOCK FALSE
