SPECIFICATION FairSpec
CONSTANTS
  bare = bare
  named = named
  blank = blank
  trace = trace
  NoHeader = NoHeader
  Blank = Blank
  NoManager = NoManager
  NoId = NoId
  healthy = healthy
  silent = silent
  Requests <- MCRequests
  Header <- MCHeader
  Clusters <- MCClusters
  Silent <- MCSilent
  Workers = 2
INVARIANTS
  TypeOK
  AnswersCarryOwnId
  LinesShowOwnOrLater
PROPERTIES
  ManagerSettles
  RequestsAnswered
CHECK_DEADLOCK FALSE
