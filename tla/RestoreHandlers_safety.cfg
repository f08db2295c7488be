SPECIFICATION Spec
CONSTANTS
  p1 = p1
  q1 = q1
  q2 = q2
  q3 = q3
  c1 = c1
  TaskRequests = {p1}
  NodeRequests = {q1, q2, q3}
  CRRequests = {c1}
  TaskId <- Ids
  Items <- Bodies
  Quantities = {q1, q2}
  MaxRows = 3
SYMMETRY Alike
INVARIANTS
  TypeOK
  RunningIsExplained
  NodesAreRecorded
  CRHasRow
  ListsTellAll
CHECK_DEADLOCK FALSE
