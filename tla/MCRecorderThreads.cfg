CONSTANTS
  MaxCaptures = 2
  MaxDay = 2
  MaxEvents = 1
SPECIFICATION Spec
INVARIANTS
  OneVideoThread
CHECK_DEADLOCK FALSE
