SPECIFICATION SpecThreads
CONSTANTS
  N = 3
  Modulus = 16
  v1 = v1
  v2 = v2
  Values <- TwoValues
  Default = v0
  Thrown = thrown
  Buffers = {b1, b2}
  Readers = {t1, t2}
  Requests <- ContinuingRequests
  Starts <- EmptyOrWrapping
  Seen <- NewOrUpToDate
  Ranges <- TwoRanges
  MaxCalls = 4
INVARIANTS ObjectsWhole
PROPERTIES CopyIsSnapshot ExactOrNothing StreamKept RangeTogether
SYMMETRY ThreadSymmetry
CHECK_DEADLOCK FALSE
