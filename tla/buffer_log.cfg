SPECIFICATION SpecOneInUse
CONSTANTS
  N = 3
  Modulus = 5
  Values = {v1, v2}
  Default = v0
  Thrown = thrown
  Buffers = {b1, b2}
  Readers = {c1}
  Requests <- StartingAtNewest
INVARIANTS TypeOK RingInv SingleReadsMatch UnwrappedReadsMatch
PROPERTIES ImplementsLog ContinuesStream
SYMMETRY Symmetry
