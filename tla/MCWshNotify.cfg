SPECIFICATION PartSpec
CONSTANTS
  w1 = w1  w2 = w2  g1 = g1  g2 = g2
  Wsh = {w1}
  ChangeMax = 3
  OtherGate <- MCGate
  SyncSeq = 2
  GateChanges = 3
  SyncFails = 1
  LifePipeMax = 3
  StConn = {1, 2}
  StFd = {1, 2, 3}
  Listen = 2
  nConnectionMax = 1
  bDropListenFD = TRUE
INVARIANTS SeenIsTold CopyOfConnection
PROPERTIES EveryWshTells CopyCatchesUp LifeKept ClientsServed
