\* Invocations that fail or are killed anywhere; then two checks in a row, of
\* either kind.  After the last one the harness has returned and QEMU may have
\* exited: the system really stops.
SPECIFICATION MCSpec
CONSTANTS
  MaxVersion = 3
  MaxFailures = 3
  MaxChecks = 2
  Subcommands = {"boot-check", "shell-check"}
CHECK_DEADLOCK FALSE
INVARIANTS
  StagedIsFresh
  OnlyVerifiedUnpacked
  WholeUnlessCut
  OkMeansBooted
  OkMeansDumped
  OrphansAreRare
PROPERTIES
  RetriesSucceed
  ChecksReturn
