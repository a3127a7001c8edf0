\* Three handlers: one inside, one writing and one reading at the same time.
SPECIFICATION FairSpec
CONSTANTS
  w1 = w1
  w2 = w2
  w3 = w3
  Workers <- ThreeWorkers
  Timeout = 2
INVARIANTS
  TypeOK
  LeakedOnlyByAbandon
  ExclusiveUnlessRaced
  FlagStandsUnlessRaced
PROPERTIES
  LeakIsForever
  EveryRequestAnswered
