CONSTANTS
  MaxEvents = 2
SPECIFICATION FairSpec
\* A camera whose only retry was taken away stands still.
CHECK_DEADLOCK FALSE
INVARIANTS
  TypeOK
  RetryIsDue
  SubscribedOrRetried
PROPERTIES
  ReachesServer
  StatusIsTold
