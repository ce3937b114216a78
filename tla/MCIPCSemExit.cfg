SPECIFICATION Spec
CONSTANTS
  wsh = wsh  sync = sync
  w1 = w1  w2 = w2  s1 = s1
  Process <- MCProcess
  Thread <- MCThread
  Owner <- MCOwner
  SemVMX = 5
INVARIANT MutualExclusion
