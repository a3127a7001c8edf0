\* Two handlers at once, with failures, crashes and reboots.
SPECIFICATION Spec
CONSTANTS
  w1 = w1
  w2 = w2
  v1 = v1
  v2 = v2
  s1 = s1
  Workers <- TwoWorkers
  Virtances <- OneVirtance
  Snapshots <- OneSnapshot
  Jobs <- AllJobs
  MaxRequests = 4
  Faults = TRUE
INVARIANTS
  TypeOK
  CleanIsConsistent
  RunsOnFinishedImage
  DoneAsReported
PROPERTIES
  LeftRunningOnlyPaused
  ImplementsLifecycle
