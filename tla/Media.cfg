\* Two handlers, two images, every power action.
SPECIFICATION Spec
CONSTANTS
  w1 = w1
  w2 = w2
  i1 = i1
  i2 = i2
  nowhere = nowhere
  Workers <- TwoWorkers
  Isos <- TwoIsos
  Jobs <- AllJobs
  MaxRequests = 3
INVARIANTS
  MediaDone
  ResizeStands
  DeletedStaysDeleted
SYMMETRY SymmetryMedia
