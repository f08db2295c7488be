SPECIFICATION FairSpec
CONSTANTS
  t1 = t1
  k1 = k1
  i1 = i1
  n0 = n0
  n1 = n1
  Tasks = {t1}
  NoTask = NoTask
  NodeName <- OneNode
  StoreSize <- OneSize
  Storage <- OneSize
  Quantities = {t1}
  GigaBytes = {t1}
  Requests = {}
  RequestName <- NoNames
  RequestSize <- NoSizes
  Owned = {}
  Flapping = TRUE
  ApiFaults = TRUE
  Original <- OneOriginal
  MaxEvents <- ThreeEvents
  Keys = {k1}
  SpecKey <- OneKey
  NoIndices = NoIndices
  Indices = {i1}
  IndexOf <- OneIndex
  Rows = {r1}
  Workers = {w1}
  LiveSources = {i1}
  MaxTasks = 1
  Concurrency = 1
  IndexColumnParses = TRUE
  StatusSubresource = TRUE
  DbFaults = TRUE
  NoRow = NoRow
PROPERTIES
  RewrittenOnlyIfAskedAgain
  SendReturns
  EveryTaskRun
CHECK_DEADLOCK FALSE
