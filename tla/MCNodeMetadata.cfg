SPECIFICATION MCSpec
CONSTANTS
  r1 = r1
  r2 = r2
  k1 = k1
  k2 = k2
  v1 = v1
  v2 = v2
  Absent = Absent
  Other = Other
  Requests <- TwoRequests
  Keys <- TwoKeys
  Values <- TwoValues
  Bodies <- MCBodies
  MaxEvents = 2
SYMMETRY Symmetry
INVARIANTS
  TypeOK
  MergedWritesStand
  AnswerShowsTheWrite
PROPERTIES
  QuietTaintsKeepTheRest
CHECK_DEADLOCK FALSE
