\* A coinbase and a direct job, three notices, two shares, two connections.
SPECIFICATION Spec
CONSTANTS
  coinbase = coinbase
  direct = direct
  Jobs <- BothJobs
  DirectJobs <- OnlyDirect
  NetworkTarget <- MCNetworkTarget
  Targets <- MCTargets
  Digests <- MCDigests
  FirstShareId = 3
  IdSpace = 5
  None = None
  MaxConnections = 2
  MaxNotices = 3
  MaxShares = 2
INVARIANTS
  SessionInv
  HeldUnderTarget
  SubmissionsRebuild
  BestCoversSubmitted
  JobsDiffer
  VerdictsCounted
