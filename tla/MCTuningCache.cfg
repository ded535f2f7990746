\* Two processes start three backends on two devices; the power fails once.
SPECIFICATION Spec
CONSTANTS
  p1 = p1
  p2 = p2
  good = good
  odd = odd
  legacy = legacy
  fast = fast
  None = None
  Processes <- MCProcesses
  Devices <- MCDevices
  Selections <- MCSelections
  Requests <- MCRequests
  Fallback <- MCFallback
  Compiles <- MCCompiles
  Builds <- MCBuilds
  Works <- MCWorks
  MaxStarts = 3
  MaxFailures = 1
SYMMETRY MCSymmetry
INVARIANTS
  CacheInv
  StartedKernelsWork
PROPERTIES
  CacheStaysReadable
  SavesAreUpdates
