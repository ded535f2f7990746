\* A retarget between finding a block and reading the channel.
SPECIFICATION Spec
CONSTANTS
  coinbase = coinbase
  direct = direct
  Jobs <- BothJobs
  DirectJobs <- OnlyDirect
  NetworkTarget <- MCNetworkTarget
  Targets <- MCTargets
  Digests <- MCDigests
  FirstShareId = 3
  IdSpace = 5
  None = None
  MaxConnections = 1
  MaxNotices = 3
  MaxShares = 2
PROPERTIES
  CandidatesAnnounced
