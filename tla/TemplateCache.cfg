CONSTANTS
  w1 = w1
  w2 = w2
  w3 = w3
  t1 = t1
  t2 = t2
  Workers <- ThreeWorkers
  Templates <- TwoTemplates
  MaxCacheRequests = 4
SPECIFICATION CacheSpec
INVARIANTS TypeOK MadeOfWanted
PROPERTY WholeStays
SYMMETRY SymmetryCache
