SPECIFICATION FairSpec
CONSTANTS
  RetryIntervals <- Intervals
  MaxDelay = 2
  Tolerance = 1
  Slot = {1, 2, 3}
  Failures = {"save", "push", "retrieve", "validate", "crash", "timeout"}
  MaxFaults = 1
INVARIANTS
  NotForgotten
  AttemptsBounded
PROPERTIES
  NeverEarly
  StopsAfterSuccess
  EventuallySettled
