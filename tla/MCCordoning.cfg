SPECIFICATION MCSpec
CONSTANTS
  r1 = r1
  r2 = r2
  n1 = n1
  n2 = n2
  blank = blank
  Blank = blank
  Requests <- TwoRequests
  Nodes <- TwoNodes
  Bodies <- MCBodies
  MaxEvents = 2
INVARIANTS
  TypeOK
  ResultsCoverTheBatch
  ResultsTellTheTruth
  OneNodeNeverAborts
  PatchedNodesAreAsAsked
PROPERTIES
  QuietUncordonIsReady
CHECK_DEADLOCK FALSE
