\* Invocations that fail or are killed anywhere.
SPECIFICATION FairStageSpec
CONSTANTS
  MaxVersion = 3
  MaxFailures = 3
INVARIANT StagesBootableTree
