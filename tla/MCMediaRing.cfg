CONSTANTS
  M = 10
  HDR = 2
  ALIGN = 2
  CTX = 3
  Word = 64
  Lens = {1, 3, 5}
  Limits = {0, 3}
  MaxFrames = 4
  WILD = WILD
SPECIFICATION FairSpec
INVARIANTS
  HeadersFit
  IntactWithinLap
  WildOnlyIfOvertaken
PROPERTIES
  CatchesUp
  BackOnlyByRace
CHECK_DEADLOCK FALSE
