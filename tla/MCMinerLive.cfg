\* Fair scheduling; the stale check inside a reservation, reservations that
\* wrap.
SPECIFICATION FairSpec
CONSTANTS
  Headers <- OneHeader
  Targets <- OneTarget
  Digest <- OneDigest
  Prefix <- MCPrefix
  CpuWorkers = {c1}
  GpuWorkers = {g1}
  Reservation = 2
  StaleInterval = 1
  BatchSize = 1
  NonceSpace = 3
  None = None
  MaxConnections = 2
  MaxWorks = 1
  MaxTaken = 2
INVARIANTS
  MinerInv
  RangesDisjoint
  HashesAccounted
PROPERTIES
  StopEndsRun
  FailureEndsRun
  StaleWorkAbandoned
  SharesReachPool
