CONSTANTS
  Ids = {a, b}
  NoId = NoId
  SIGNALING_MAX = 0
  Maxima = {0, 1}
  MaxCalls = 3
  MaxMail = 1
SPECIFICATION FairSpec
INVARIANTS
  PlaybackHasClient
PROPERTIES
  DownIsErased
CHECK_DEADLOCK FALSE
