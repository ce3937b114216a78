SPECIFICATION PartSpec
CONSTANTS
  Parts = {"registry"}
  App = {a1}
  a1 = a1  a2 = a2  x1 = x1  x2 = x2  g1 = g1  g2 = g2
  d1 = d1  d2 = d2  t1 = t1  t2 = t2
  NoApp = NoApp  NoDesc = NoDesc  NoList = NoList
  Name = {x1}
  WshProcess <- MCWshProcess
  Desc <- MCDesc
  WshOf <- MCWshOf
  Worker <- MCWorker
  Capacity = 1
  FaultMax = 1
  wsh = wsh  sync = sync
  w1 = w1  w2 = w2  s1 = s1
  Process <- MCProcess
  Thread = {w1, s1}
  Owner <- MCLockOwner
  SemVMX = 4
PROPERTY AlreadyIsListed
CHECK_DEADLOCK FALSE
