SPECIFICATION Spec
CONSTANTS
  Sets = {s1}
  Matching = {s1}
  Bare = {}
  Ids = {a, b}
  MaxQueue = 1
  ApiFaults = TRUE
  MaxAsks = 2
  MaxLag = 2
  MaxCrashes = 1
  NoId = NoId
  NoSet = NoSet
SYMMETRY Symmetric
INVARIANTS
  TypeOK
  RestoresAreAsked
  PendingIsNotForgotten
PROPERTIES
  DoneWithoutRestoreOnlyFromOldCopies
CHECK_DEADLOCK FALSE
