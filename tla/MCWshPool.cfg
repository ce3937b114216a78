SPECIFICATION WhichSpec
CONSTANTS
  p1 = p1  p2 = p2  p3 = p3
  Pid <- MCPid
  WshMax = 2
  WshMin = 1
  AccessMax = 1
  LowWater = 1
  ConnMax = 1
  DriftMax = 1
  CrashMax = 1
  ForeignMax = 1
  PoolWorker = {1, 2, 3}
  PoolLow = 1
  MinThread = 1
  MaxThread = 2
  MaxIdlThread = 1
  PoolRequestMax = 2
  Delay = {0, 2}
  TimerRequestMax = 2
  TimeMax = 2
  EvWorker = {1, 2}
  EvFd = {1, 2}
  nThreadPoolMin = 1
  nThreadPoolMax = 2
  nThreadPoolMaxIdle = 1
  EvIdleLow = 1
  BrokenMax = 0
INVARIANT TableKept
PROPERTIES DeadSlotReleased ServiceRestored RequestsAreTaken TimersKept ClientsKept
CHECK_DEADLOCK FALSE
