SPECIFICATION FairSpec
CONSTANTS
  MaxFailures = 3
  MaxInterval = 3
  HardCap = 2
  MaxLog = 3
  MaxEvents = 1
  MaxVisits = 2
INVARIANTS
  TypeOK
  ShownIsTheLog
  FinishedShowsAll
  StoppedForAReason
PROPERTIES
  EndedIsFollowed
CHECK_DEADLOCK FALSE
