SPECIFICATION Spec
CONSTANTS
  RetryIntervals <- Intervals
  MaxDelay = 2
  Tolerance = 1
  Slot = {1, 2, 3}
  Failures = {"save"}
  MaxFaults = 1
INVARIANTS
  FailedIsQueued
