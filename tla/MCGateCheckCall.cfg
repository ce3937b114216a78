SPECIFICATION Spec
CONSTANTS
  t1 = t1  t2 = t2
  Caller = {t1}
  Nobody = Nobody
  GateLen = 1
  SeqMax = 2
  FailMax = 0
INVARIANT NotFoundMeansNoServer
