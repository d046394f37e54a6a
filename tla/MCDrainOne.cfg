SPECIFICATION FairSpec
CONSTANTS
  d1 = d1
  d2 = d2
  n1 = n1
  n2 = n2
  p1 = p1
  p2 = p2
  Drains <- OneDrain
  Nodes <- TwoNodes
  Registered <- OneRegistered
  Pods <- TwoPods
  Templates <- AllTemplates
  OptionSets <- AllOptionSets
  Budget = 3
  PollInterval = 2
  CallTime = 1
  MaxUid = 2
  NoPod = NoPod
INVARIANTS
  TypeOK
  RefusalUnlocks
  RemovesOnlyPermitted
  WaitBudgetHonoured
PROPERTY EveryDrainAnswers
CHECK_DEADLOCK FALSE
