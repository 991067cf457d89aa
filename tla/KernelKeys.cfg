SPECIFICATION KSpec
CONSTANTS
  MAX_TASKS = 16
  BootTasks <- IdleAndInit
  TICK_REPORT = 2
  MAX_LINE_LEN = 2
  Framebuffers = {"none", "32bpp", "other"}
PROPERTY KeyReachesShell
CHECK_DEADLOCK FALSE
