SPECIFICATION FairSpec
CONSTANTS
  t1 = t1
  t2 = t2
  k1 = k1
  k2 = k2
  i1 = i1
  Tasks = {t1, t2}
  Keys = {k1}
  SpecKey <- OneKeyAndEmpty
  Indices = {i1}
  IndexOf <- OneIndex
  NoIndices = NoIndices
  Rows = {r1}
  Workers = {w1}
  LiveSources = {i1}
  MaxTasks = 1
  Concurrency = 1
  IndexColumnParses = TRUE
  StatusSubresource = TRUE
  DbFaults = TRUE
  NoTask = NoTask
  NoRow = NoRow
PROPERTIES
  SlotReturned
  FullQueueDrains
