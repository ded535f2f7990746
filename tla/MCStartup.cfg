CONSTANTS
  None = None
  PoolByte = PoolByte
  pool = pool
  local = local
  far = far
  pool4 = pool4
  pool6 = pool6
  tor = tor
  pool1 = pool1
  pool2 = pool2
  proxy1 = proxy1
  proxy2 = proxy2
  Cores = 4
  Endpoints <- MCEndpoints
  Addresses <- MCAddresses
  DefaultPool = local
  Lines <- MCLines
  Files <- MCFiles
  Builds <- MCBuilds
  MaxDevices = 2
  Form <- MCForm
  NameLength <- MCNameLength
  Lookups <- MCLookups
  GreetingReplies <- MCGreetingReplies
  RequestReplies <- MCRequestReplies
  MaxPoolBytes = 2
SPECIFICATION FairSpec
INVARIANTS
  SettingsLaunchable
  AllOrNothing
  StreamIsThePools
  FailsClosed
PROPERTY
  DialEnds
