\* A backend that is restarted under the same main.
SPECIFICATION GuardSpec
CONSTANTS
  MaxFailures = 0
  MaxCrashes = 1
PROPERTIES
  HealthyBootKeepsCache
