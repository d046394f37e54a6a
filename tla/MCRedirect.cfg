SPECIFICATION FairSpec
CONSTANTS
  MaxFailures = 2
  MaxInterval = 2
  HardCap = 2
  MaxLog = 1
  MaxEvents = 1
  MaxVisits = 2
PROPERTY OnlyLoggedOutAreSentToLogin
CHECK_DEADLOCK FALSE
