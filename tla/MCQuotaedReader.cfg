SPECIFICATION Spec
CONSTANTS
  Quotas <- MCQuotas
  Lengths <- MCLengths
  BufferSizes <- MCBufferSizes
INVARIANTS
  TypeOK
  AtMostOneByteOver
  OverrunReported
  EOFMeansWhole
PROPERTY
  OverrunIsFinal
