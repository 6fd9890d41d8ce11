CONSTANTS
  MaxCaptures = 2
  MaxDay = 2
  MaxEvents = 1
SPECIFICATION FairSpec
INVARIANTS
  TypeOK
  ClosureIsDue
PROPERTIES
  RecordsAgain
  PromiseKept
CHECK_DEADLOCK FALSE
