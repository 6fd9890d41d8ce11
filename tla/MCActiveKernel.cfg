\* The timer task and two workers, one callback thread, two live messages.
CONSTANTS
  N = 3
  Callbacks = {c1}
  Msgs = {m1, m2}
  NONE = NONE
SPECIFICATION FairSpec
INVARIANTS
  TypeOK
  NoLostWakeup
  NullOnlyIfSpurious
  OneOwner
  SetupBeforeUse
PROPERTIES
  PostedIsHandled
  ImplementsMailboxes
\* The process ends when a task dereferences NULL.
CHECK_DEADLOCK FALSE
