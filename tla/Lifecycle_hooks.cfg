SPECIFICATION FairSpec
CONSTANTS
  Requests = {q1, q2}
  Jobs = {j1, j2}
  Restores = {w1}
INVARIANTS
  TypeOK
  TablesAreThere
  OrderlyExitCutsNobody
PROPERTIES
  StartAndStopEnd
CHECK_DEADLOCK FALSE
