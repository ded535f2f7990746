\* Batches of 3 nonces in items of 2, with one item too many.
SPECIFICATION Spec
CONSTANTS
  easy = easy
  hard = hard
  other = other
  Jobs <- MCJobs
  Headers <- MCHeaders
  Header <- MCHeader
  Target <- MCTarget
  Prefix <- MCPrefix
  BatchSize = 3
  NoncesPerItem = 2
  LocalSize = 3
  Capacity = 2
  NonceSpace = 4
  None = None
  MaxCalls = 3
INVARIANTS
  BatchInv
  UploadEndsFirst
PROPERTIES
  SearchIsExact
