\* A logical pool and a network, two handlers.
SPECIFICATION Spec
CONSTANTS
  w1 = w1
  w2 = w2
  v1 = v1
  n1 = n1
  Workers <- TwoWorkers
  Pools <- OnePool
  LogicalPools <- OnePool
  Networks <- OneNetwork
  Kinds <- AllKinds
  MaxRequests = 4
INVARIANTS
  DoneAsReported
  HalfMadeOnlyByFailure
SYMMETRY SymmetryHost
