\* Two upgrades, a reboot between or during them, and two more requests in their way.
CONSTANTS
  MaxRequests = 5
SPECIFICATION FairSpec
INVARIANTS
  OneUpgrade
  FlashedIsChecked
PROPERTIES
  UpgradeEnds
\* An idle camera waits for requests.
CHECK_DEADLOCK FALSE
