\* Two failing commands and two crashes.
SPECIFICATION GuardFairSpec
CONSTANTS
  MaxFailures = 2
  MaxCrashes = 2
PROPERTIES
  FirstBootKeepsCache
  BootLoopEnds
  HealthyBootIsUnmarked
