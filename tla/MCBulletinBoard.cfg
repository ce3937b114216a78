SPECIFICATION PartSpec
CONSTANTS
  SvcLen = 2
  GateLen = 1
  SeqMod = 3
  n1 = n1  n2 = n2  a1 = a1  a2 = a2
  NoName = NoName  NoAddr = NoAddr
  Name <- MCName
  Addr <- MCAddr
  Client = {c1}
  HostPid = {1, 2}
  Board = {1, 2}
  WaitMax = 1
  OtherMax = 1
SYMMETRY Sym
INVARIANTS UniqueEntries EqualSeqMeansFreshView ToolsSafe
PROPERTY ImplementsDirectory
CHECK_DEADLOCK FALSE
