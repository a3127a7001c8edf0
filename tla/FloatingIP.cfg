CONSTANTS
  w1 = w1
  w2 = w2
  a1 = a1
  a2 = a2
  f1 = f1
  f2 = f2
  Workers <- TwoWorkers
  Addresses <- TwoAddresses
  Fixed <- TwoFixed
  Jobs <- Jobs2
  Timeout = 1
  MaxRequests = 3
SPECIFICATION FipSpec
INVARIANTS FipTypeOK AllAgree LiveAgree RefusedAgree OneRule FlagComesFree
SYMMETRY SymmetryFip
