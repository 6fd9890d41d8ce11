CONSTANTS
  Ids = {a, b}
  NoId = NoId
  MaxCommands = 4
  MaxPackets = 2
SPECIFICATION TalkFairSpec
INVARIANTS
  TalkIsReleased
PROPERTIES
  SpeakerIsKept
  TalkEnds
CHECK_DEADLOCK FALSE
