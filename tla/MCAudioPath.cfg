CONSTANTS
  AudioCap = 2
  TeeCap = 1
  BlockFrames = 8
  PacketFrames = 3
  MaxBlocks = 4
SPECIFICATION FairSpec
INVARIANTS
  GapIsCounted
  GapsOnlyAtDrops
  SentInOrder
PROPERTIES
  ImplementsPipe
  EveryBlockPlayed
  TeeDrains
CHECK_DEADLOCK FALSE
