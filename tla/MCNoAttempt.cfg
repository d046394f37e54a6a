SPECIFICATION MCSpec
CONSTANTS
  r1 = r1
  r2 = r2
  n1 = n1
  n2 = n2
  blank = blank
  Blank = blank
  Requests <- OneRequest
  Nodes <- TwoNodes
  Bodies <- MCBodies
  MaxEvents = 2
INVARIANT ClusterErrorMeansNoAttempt
CHECK_DEADLOCK FALSE
