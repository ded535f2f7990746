\* The disjoint ranges the README promises, against a job installed again.
SPECIFICATION Spec
CONSTANTS
  Headers <- OneHeader
  Targets <- MCTargets
  Digest <- OneDigest
  Prefix <- MCPrefix
  CpuWorkers = {c1}
  GpuWorkers = {g1}
  Reservation = 2
  StaleInterval = 2
  BatchSize = 1
  NonceSpace = 4
  None = None
  MaxConnections = 1
  MaxWorks = 2
  MaxTaken = 1
INVARIANTS
  JobNoncesDisjoint
