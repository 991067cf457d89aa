\* One configuration of the kernel, on every kind of framebuffer.  A kernel that
\* spins on a mutex makes no step: the system really stops there.
SPECIFICATION KFairSpec
CONSTANTS
  MAX_TASKS = 16
  BootTasks <- IdleAndInit
  TICK_REPORT = 2
  MAX_LINE_LEN = 2
  Framebuffers = {"none", "32bpp", "other"}
CHECK_DEADLOCK FALSE
INVARIANTS
  LocksNotReentered
  StuckOnlyWhileBooting
PROPERTIES
  HandlersEndTheirInterrupt
  ImplementsScheduler
  BootEndsOrSpins
  HealthyKeepsTicking
  HealthyRunsEveryTask
  HealthyReadsKeys
