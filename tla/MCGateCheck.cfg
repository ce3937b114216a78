SPECIFICATION LiveSpec
CONSTANTS
  t1 = t1  t2 = t2
  Caller = {t1}
  Nobody = Nobody
  GateLen = 1
  SeqMax = 2
  FailMax = 1
INVARIANTS AnswerIsForRequest NoStaleServer
PROPERTIES DownloadEnds CatchesUp
