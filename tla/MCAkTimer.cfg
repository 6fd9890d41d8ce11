\* Three timers: the least for a removal in the middle of the list. A duty of 3 takes
\* two ticks, and 1 is below the unit. A pass may post a timeout of every timer.
CONSTANTS
  Keys = {k1, k2, k3}
  Nodes = {n1, n2, n3}
  Duties = {1, 3}
  Unit = 2
  MaxBacklog = 1
  MaxMail = 3
  NULL = NULL
SPECIFICATION FairSpec
INVARIANTS
  ListRepresentsTimers
PROPERTIES
  ImplementsTimers
  ArmedFires
\* FATAL ends the process.
CHECK_DEADLOCK FALSE
