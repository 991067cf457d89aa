\* Three callers that allocate before, during and after the initialization.  A
\* call that panics ends its caller, and the last of them ends the system.
SPECIFICATION MCSpec
CONSTANTS
  Callers = {1, 2, 3}
  USIZE = 64
  HEAP_SPACE = 42
  HEAP_SIZE = 5
  Layouts <- MCLayouts
CHECK_DEADLOCK FALSE
INVARIANTS
  BlocksDisjoint
  BlocksInHeap
  PanicsOnlyOnWideAlign
PROPERTIES
  NullMeansNoRoom
  UsageCoversBlocks
  AllocReturns
