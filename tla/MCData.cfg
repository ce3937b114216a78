SPECIFICATION DataSpec
CONSTANTS
  t1 = t1  t2 = t2
  a1 = a1  a2 = a2
  Nil = Nil
  Thread <- MCThread
  Service = {"s"}
  Addr <- MCAddr
  Cached = 1
  FactorMax = 3
  CallMax = 2
  CallTotal = 2
  GenMax = 1
  TermMax = 1
  Worker <- MCThread
  Buffer <- MCAddr
  SvcName = {"s", "x"}
  Advertised = {"s"}
  DataType = {"CARRAY", "VIEW32"}
  LoadedViews = TRUE
  RequestMax = 2
  Field <- MCFields
  TypeOf <- MCTypes
  Small <- MCSmalls
  Text <- MCTexts
  BodySize = 8
  FieldType = {0, 1, 2}
  Factor = 4
  Base = {0, 2}
  Number = {0, 1, 3}
  TableMax = 4
  ViewName = {"v", "w"}
  ItemType = {"long", "string"}
  Width <- MCWidths
  Count = {0, 2}
  Length = {0, 3}
  ViewMax = 6
  Block <- MCAddr
  BufferType = {"CARRAY", "VIEW32"}
  SubType = {"v", "w"}
  SizeOfView <- MCSizeOfView
  LeastSize <- MCLeast
  BufferMax = 2
  CachedSize = 2
  ByteBase = 16
  MsgText <- MCMsgTexts
  MsgNumber = {0, 18}
  Address <- MCAddresses
  ViewType = 5
  OtherType = 1
  Narrow = 2
  Wide = 3
  FixedCount = 2
  Kind = {"plain", "short", "long"}
  Element = {1, 2}
  GivenCount <- MCGiven
  ItemMax = 2
  GivenValue <- MCGivenValues
  TopInt = 9
  LinesMax = 1
  Word = {"a", "b"}
  Blank = {"", " ", "tab", "cr"}
  ItemsMax = 3
  HeaderLen = 2
  BodyLen = 2
  PipeRoom = 3
  Conn = {1, 2}
  CallerMax = 2
  NoticeMax = 1
SYMMETRY Symmetric
INVARIANTS HeadersRight BuffersKept MessageArrives ElementsArrive StrongestCounts
  ReadAsWritten ExchangeKept SharedKept CallsKept ServedAsPromised
PROPERTIES FieldsKept ImplementsRemoteCall
CHECK_DEADLOCK FALSE
