\* All answers of Limine; three racing callers.  A kernel that misses an answer
\* has halted: the system really stops there.
SPECIFICATION MCSpec
CONSTANTS
  Callers = {1, 2, 3}
  FRAME_SIZE = 4
  MAX_MEMORY_REGIONS = 4
  MAX_USABLE_RANGES = 3
  MemoryMaps <- MCMemoryMaps
  Answers <- MCAnswers
CHECK_DEADLOCK FALSE
INVARIANTS
  StagesAsDocumented
  HaltRevealsStage
  GrantsDisjoint
  GrantsUsable
  FramesReported
  CountsCoverGrants
  TypeOK
PROPERTIES
  RangeNeverRewinds
  NoFrameIsLost
  CallsReturn
