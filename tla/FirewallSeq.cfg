\* One handler after the other.
SPECIFICATION FwSpec
CONSTANTS
  w1 = w1
  w2 = w2
  f1 = f1
  a1 = a1
  a2 = a2
  r1 = r1
  r2 = r2
  r3 = r3
  Workers <- OneWorker
  Timeout = 1
  Jobs <- SequentialJobs
  MaxRequests = 4
INVARIANTS
  FwTypeOK
  ConfigLoads
  DoneAsReported
