SPECIFICATION LiveSpec
CONSTANTS
  t1 = t1  t2 = t2
  Caller = {t1}
  Nobody = Nobody
  GateLen = 2
  SeqMax = 1
  FailMax = 1
PROPERTY NewGateIsHeard
