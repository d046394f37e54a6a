SPECIFICATION Spec
CONSTANTS
  d1 = d1
  d2 = d2
  n1 = n1
  n2 = n2
  p1 = p1
  p2 = p2
  Drains <- TwoDrains
  Nodes <- OneRegistered
  Registered <- OneRegistered
  Pods <- TwoPods
  Templates <- FewTemplates
  OptionSets <- NoOptions
  Budget = 1
  PollInterval = 2
  CallTime = 0
  MaxUid = 2
  NoPod = NoPod
INVARIANTS
  RefusalRemovesNothing
  SuccessCommitsEveryTarget
  EmptiedMeansTargetsGone
  EmptiedNodeHoldsNoWork
PROPERTIES
  KeepsPromise
SYMMETRY Symmetry
CHECK_DEADLOCK FALSE
