\* Two handlers, two names, snapshots and libvirt's own work in one pool.
SPECIFICATION Spec
CONSTANTS
  w1 = w1
  w2 = w2
  a = a
  b = b
  Workers <- TwoWorkers
  Bases <- TwoBases
  Jobs <- AllJobs
  OtherVolumes = 7
  MaxRequests = 3
INVARIANTS
  VolumeDone
  ShownIsCurrent
  LeftoversOnlyByFailure
SYMMETRY SymmetryVolumes
