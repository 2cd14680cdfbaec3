SPECIFICATION Spec
CONSTANTS
  N = 3
  Modulus = 8
  Values = {v1}
  Default = v0
  Thrown = thrown
  Buffers = {b1}
  Readers = {c1}
  Requests <- AllRequests
INVARIANT TargetNotOverrun
