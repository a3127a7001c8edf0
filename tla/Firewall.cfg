\* Two handlers at once.
SPECIFICATION FwFairSpec
CONSTANTS
  w1 = w1
  w2 = w2
  f1 = f1
  a1 = a1
  a2 = a2
  r1 = r1
  r2 = r2
  r3 = r3
  Workers <- TwoWorkers
  Timeout = 1
  Jobs <- ConcurrentJobs
  MaxRequests = 2
INVARIANTS
  SettledAgrees
  CutKeepsOthersOut
  AcceptBeforeDrop
PROPERTIES
  FwRequestAnswered
