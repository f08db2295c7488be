SPECIFICATION Spec
CONSTANTS
  t1 = t1
  t2 = t2
  k1 = k1
  k2 = k2
  i1 = i1
  Tasks = {t1, t2}
  Keys = {k1, k2}
  SpecKey <- TwoKeys
  Indices = {i1}
  IndexOf <- OneIndex
  NoIndices = NoIndices
  Rows = {r1, r2}
  Workers = {w1, w2, w3}
  LiveSources = {i1}
  MaxTasks = 1
  Concurrency = 2
  IndexColumnParses = TRUE
  StatusSubresource = TRUE
  DbFaults = TRUE
  NoTask = NoTask
  NoRow = NoRow
SYMMETRY Symmetric
INVARIANTS
  TypeOK
  SlotsAccounted
  VerdictHasRestore
  OneRowPerRestore
  IInv
PROPERTIES
  VerdictIsFinal
  PoolSpec
