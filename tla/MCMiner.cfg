\* One CPU and one GPU worker, two connections, two jobs of two headers.
SPECIFICATION Spec
CONSTANTS
  Headers <- TwoHeaders
  Targets <- MCTargets
  Digest <- MCDigest
  Prefix <- MCPrefix
  CpuWorkers = {c1}
  GpuWorkers = {g1}
  Reservation = 1
  StaleInterval = 1
  BatchSize = 2
  NonceSpace = 2
  None = None
  MaxConnections = 2
  MaxWorks = 2
  MaxTaken = 1
INVARIANTS
  SubmittedToItsPool
  EpochNamesOneWork
  EverySolutionKept
  ExitTellsFailure
  GpuSearchesItsWork
PROPERTIES
  KeepsPromise
