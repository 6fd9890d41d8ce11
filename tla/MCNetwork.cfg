CONSTANTS
  MaxTurns = 3
  MaxRequests = 1
SPECIFICATION FairSpec
\* A camera without a Wi-Fi file waits for a phone.
CHECK_DEADLOCK FALSE
INVARIANTS
  TypeOK
  RecoveryStaysArmed
PROPERTIES
  ComesBack
  OutageIsOverOnLed
