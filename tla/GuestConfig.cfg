\* Every system, three requests one after the other.
SPECIFICATION Spec
CONSTANTS
  Distros <- AllDistros
  Jobs <- AllJobs
  MaxRequests = 3
INVARIANTS
  TakesEffect
  NothingStale
  ScriptRunsOnce
  HeldOnlyByFailure
