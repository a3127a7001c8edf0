SPECIFICATION Spec
CONSTANTS
  w1 = w1
  w2 = w2
  v1 = v1
  v2 = v2
  s1 = s1
  Workers <- OneWorker
  Virtances <- OneVirtance
  Snapshots <- OneSnapshot
  Jobs <- PauseJobs
  MaxRequests = 3
  Faults = FALSE
INVARIANTS
  StopsVM
