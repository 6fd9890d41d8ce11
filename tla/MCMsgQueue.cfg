\* Four messages: an empty list, one with a middle node and every order of reuse.
CONSTANTS
  Msgs = {m1, m2, m3, m4}
  NULL = NULL
SPECIFICATION QSpec
INVARIANTS
  NoDuplicates
  RepresentsFifo
PROPERTY
  ImplementsMailbox
