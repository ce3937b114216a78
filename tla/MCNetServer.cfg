SPECIFICATION NetLiveSpec
CONSTANTS
  Worker = {1, 2}
  Fd = {1, 2}
  PoolMin = 1
  PoolMax = 2
  MaxIdle = 1
  IdleLow = 1
  ConnectionMax = 2
  PipeMax = 1
  EventMax = 1
INVARIANT SocketsKept
PROPERTY NobodyWaits
CHECK_DEADLOCK FALSE
