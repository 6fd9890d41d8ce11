CONSTANTS
  Ids = {a, b}
  NoId = NoId
  SIGNALING_MAX = 0
  Maxima = {1, 2}
  MaxCalls = 2
  MaxMail = 1
SPECIFICATION FairSpec
PROPERTIES
  NoAnswerIsErased
CHECK_DEADLOCK FALSE
